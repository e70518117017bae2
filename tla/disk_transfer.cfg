CONSTANTS
    HALF_BLOCK_SIZE = 2
    DIGIT = 2
    HEAD = 2
    Word <- MCWord
    Noise = noise
    Calls <- MCCalls
    Disks <- MCDisks
    Faults = {"error", "power"}
SPECIFICATION FairSpec
INVARIANTS TypeOK InStep
PROPERTIES ImplementsDevice CallsReturn
