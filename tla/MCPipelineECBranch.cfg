SPECIFICATION Spec
CONSTANTS
    WIDTH = 4
    EC = TRUE
    TEXT_SEG = 1
    DATA_SEG = 8
    STACK_SEG = 12
    KERNEL_SEG = 13
    PROGRAMS <- mcECShortPrograms
    INIT_MEM <- mcMem
    INPUT <- mcInput
    CACHED = FALSE
    PRECEDES <- InProgramOrder
    CYCLE_MAX = 14
PROPERTY CompareBranchCorrected
CHECK_DEADLOCK FALSE
