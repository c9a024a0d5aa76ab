CONSTANTS
    Process = {a, b, c}
    Scheduler = scheduler
    Semaphore = {}
    Mutex = {}
    Nil = nil
    Meddling = {}
    MaxQueue = 3
    MaxRegions = 0
    MaxSignals = 1
    MaxWaiting = 2
    Horizon = 2
SPECIFICATION Spec
INVARIANT NextDelayedTimeIsFirst
CHECK_DEADLOCK FALSE
