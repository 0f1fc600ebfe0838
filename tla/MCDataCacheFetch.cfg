SPECIFICATION Spec
CONSTANTS
    A = 2
    S = 2
    B = 2
    TAGS = 3
    DELAY = 3
    VALUES = {0, 1}
    GUEST_ADDRS <- mcGuestAddrs
    FETCH_ADDRS <- mcDataFetch
INVARIANT StallsAtMostDelay
