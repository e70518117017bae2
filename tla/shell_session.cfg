CONSTANTS
    root = root
    dirA = dirA
    dirB = dirB
    DirId <- MCDirId
    RootId = root
    Name = {nameA, nameB, shell}
    SHELL = shell
    RootLabel = rootLabel
    Payload = {fileA, fileB}
    FOLDER = folder
    SizeOf <- MCSizeOf
    Capacities = {0, 1, 2}
    BUFFER_SIZE = 2
    STACK_SIZE = 2
SPECIFICATION Spec
INVARIANTS TypeOK CwdIsPath ListsCurrentDirectory FindTells
PROPERTY OnlyRmLosesFiles
SYMMETRY MCSymmetry
