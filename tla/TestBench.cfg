SPECIFICATION Spec
CONSTANTS
    TESTS = 3
    CACHES = 2
    SESSIONS = 2
INVARIANT PassIffEarned
CHECK_DEADLOCK FALSE
