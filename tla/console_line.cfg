CONSTANTS
    WIDTH = 7
    ROWS = 2
    BYTE = 9
    EDIT_COL = 5
    HOME_SIZE = 1
    INPUT_SIZE = 2
    Char = {x, y}
    NUL = NUL
    BACKSPACE = BACKSPACE
    NEWLINE = NEWLINE
    BLANK = BLANK
    PROMPT = PROMPT
    OUTPUT = OUTPUT
    JUNK = JUNK
    MessageSizes = {1}
    Outputs <- MCOutputs
    RowBound = 3
SPECIFICATION Spec
INVARIANTS TypeOK ScreenShowsLine BlankBehindCursor LineEndsAtCursor
SYMMETRY MCSymmetry
