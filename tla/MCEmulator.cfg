SPECIFICATION Spec
CONSTANTS
    PAGESIZE = 4
    PAGES <- mcPages
    HASH <- mcHash
    FILE <- mcFile
    ARGVS <- mcArgvs
    ELFS <- mcElfs
    HEAP_SEG = 28
    STACK_SEG = 36
    KERNEL_SEG = 40
    CHECKPOINT_ADDR = 99
    GUEST_ADDRS = {0, 5, 13, 17, 20, 28, 35, 99}
    ACCESS_MAX = 3
INVARIANT GuestSeesMemory
PROPERTIES
    CheckpointIsMemory
    CheckpointHasData
    EndsWithCheckpoint
CHECK_DEADLOCK FALSE
