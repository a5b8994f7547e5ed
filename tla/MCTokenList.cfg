SPECIFICATION Spec
CONSTANTS
    t1 = t1
    t2 = t2
    t3 = t3
    t4 = t4
    t5 = t5
    t6 = t6
    Token <- MCToken
    NULL = NULL
    Line <- MCLine
    InitSize = 1
    IntMax = 7
    MaxArgs = 2
SYMMETRY Perms
INVARIANTS ListTypeOK EveryTokenOwned LatestHasLine
PROPERTIES ImplementsRegistry
CHECK_DEADLOCK FALSE
