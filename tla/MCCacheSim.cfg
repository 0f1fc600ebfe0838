SPECIFICATION SimSpec
CONSTANTS
    A = 4
    ACCESS_MAX = 9
    Tags = {t1, t2, t3, t4, t5}
    NoTag = NoTag
INVARIANT MatrixIsOrder
PROPERTIES
    EvictsLeastRecent
    ImplementsLruList
SYMMETRY mcTagSymmetry
CHECK_DEADLOCK FALSE
