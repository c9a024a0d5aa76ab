CONSTANTS
    Process = {a, b, c}
    Scheduler = scheduler
    Semaphore = {}
    Mutex = {}
    Nil = nil
    Meddling = {}
    MaxQueue = 3
    MaxRegions = 0
    MaxSignals = 1
    MaxWaiting = 0
    Horizon = 0
SPECIFICATION FairSpec
PROPERTY ServedIfRoundsEnd
CHECK_DEADLOCK FALSE
