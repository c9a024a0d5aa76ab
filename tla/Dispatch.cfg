SPECIFICATION Spec
CONSTANTS
    a = a
    b = b
    c = c
    n1 = n1
    n2 = n2
    m1 = m1
    m2 = m2
    None = None
    Key <- MCKey
    Native <- MCNative
    Method <- MCMethod
    Hash <- MCHash
    Kinds <- MCKinds
    Definable <- MCDefinable
    Compilable <- MCCompilable
    PrimarySize = 2
    SecondarySize = 1
    MaxPic = 2
SYMMETRY Symmetry
INVARIANTS
    TypeOK
    CachedAllocated
    CachesCurrent
    TargetsAgree
    TableAlive
CHECK_DEADLOCK FALSE
