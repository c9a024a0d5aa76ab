CONSTANTS
    CardSize = 2
    Capacity = 10
    Sizes = {2, 5}
SPECIFICATION Spec
INVARIANTS TypeOK StoresRecorded ObjectStartFinds SentinelStopsScan
