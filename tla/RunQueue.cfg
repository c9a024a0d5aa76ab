CONSTANTS
    Process = {a, b, c}
    Scheduler = scheduler
    Semaphore = {s}
    Mutex = {}
    Nil = nil
    Meddling = {"resume", "terminate"}
    MaxQueue = 3
    MaxRegions = 0
    MaxSignals = 1
    MaxWaiting = 1
    Horizon = 0
SPECIFICATION Spec
SYMMETRY Symmetry
INVARIANTS
    TypeOK
    RightProcessRemoved
CHECK_DEADLOCK FALSE
