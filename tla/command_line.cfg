CONSTANTS
    l = l
    r = r
    v = v
    Letter <- MCLetter
    BLANK = blank
    NUL = nul
    INPUT_SIZE = 9
    NAME_SIZE = 2
    WholeLine <- MCWholeLine
    OneWord <- MCOneWord
    TwoWords <- MCTwoWords
    AtAddress0 <- MCAtAddress0
SPECIFICATION Spec
INVARIANTS TypeOK BufferIsLine CommandIsFirstWord NamesAreWords
