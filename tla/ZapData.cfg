\* Three threads, five objects, a pool of two.
SPECIFICATION Spec
CONSTANTS
    Thread = {t1, t2, t3}
    Obj = {o1, o2, o3, o4, o5}
    MAX_POOL_SIZE = 2
    Null = Null
INVARIANTS
    PoolIsList
    OneHolder
    PrintsOwnFields
