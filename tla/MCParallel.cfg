SPECIFICATION ParSpec
CONSTANTS
    Stages = {"F", "M", "W"}
    MemoryStage = "M"
    FetchStage = "F"
    CYCLE_MAX = 3
    PAGESIZE = 2
    PAGES = {0, 1, 2}
    HASH <- mcHash
    LoadedTable <- mcLoaded
    FETCHED = {0, 2}
    ACCESSED = {1, 2}
INVARIANT TableIsMemory
PROPERTIES
    ImplementsCycles
    Terminates
CHECK_DEADLOCK FALSE
