CONSTANTS
    Process = {a, b, c}
    Scheduler = scheduler
    Semaphore = {}
    Mutex = {m, n}
    Nil = nil
    Meddling = {}
    MaxQueue = 3
    MaxRegions = 2
    MaxSignals = 2
    MaxWaiting = 3
    Horizon = 1
SPECIFICATION Spec
SYMMETRY Symmetry
INVARIANTS
    MutualExclusion
    TokenConserved
    OnePlace
    NoSelfDeadlock
    IdleOnlyIfNothingRuns
CHECK_DEADLOCK FALSE
