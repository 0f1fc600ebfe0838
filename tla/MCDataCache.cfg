SPECIFICATION Spec
CONSTANTS
    A = 2
    S = 2
    B = 2
    TAGS = 3
    DELAY = 2
    VALUES = {0, 1}
    GUEST_ADDRS <- mcGuestAddrs
    FETCH_ADDRS <- mcDataFetch
INVARIANTS
    OneCopy
    CleanMatchesMemory
PROPERTIES
    MissPenalty
    ImplementsFlatMemory
    PerformedUnlessHung
