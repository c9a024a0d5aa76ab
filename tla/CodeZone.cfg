CONSTANTS
    N = 7
    NFree = 2
    Sizes = {1, 2, 3}
SPECIFICATION Spec
INVARIANTS TypeOK MethodsIntact FreeListsSound FindStartFinds FlushMissesNone
PROPERTY FailsOnlyWhenFull
CHECK_DEADLOCK FALSE
