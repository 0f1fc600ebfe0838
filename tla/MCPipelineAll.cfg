SPECIFICATION Spec
CONSTANTS
    WIDTH = 4
    EC = TRUE
    TEXT_SEG = 1
    DATA_SEG = 8
    STACK_SEG = 12
    KERNEL_SEG = 13
    PROGRAMS <- mcAllPrograms
    INIT_MEM <- mcMem
    INPUT <- mcInput
    CACHED = TRUE
    PRECEDES <- InProgramOrder
    CYCLE_MAX = 12
INVARIANT ConflictOnlyAtLoadedReturn
PROPERTIES
    DivergesOnlyAsKnown
    UndefinedInstrPC
CHECK_DEADLOCK FALSE
