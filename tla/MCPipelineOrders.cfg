SPECIFICATION Spec
CONSTANTS
    WIDTH = 4
    EC = FALSE
    TEXT_SEG = 1
    DATA_SEG = 8
    STACK_SEG = 12
    KERNEL_SEG = 13
    PROGRAMS <- mcOrderPrograms
    INIT_MEM <- mcMem
    INPUT <- mcInput
    CACHED = TRUE
    PRECEDES <- AnyOrder
    CYCLE_MAX = 10
INVARIANTS
    OnlyStopsBehindAStop
    SquashedIsInert
PROPERTIES
    ImplementsSeqMachine
    HaltIsPrecise
CHECK_DEADLOCK FALSE
