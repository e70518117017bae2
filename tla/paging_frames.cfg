CONSTANTS
    PAGE_FRAME_MAX_COUNT = 4
    PAGE_ENTRY_COUNT = 7
    KERNEL_PAGE = 6
SPECIFICATION Spec
INVARIANTS TypeOK CountExact NeverOvercommitted
