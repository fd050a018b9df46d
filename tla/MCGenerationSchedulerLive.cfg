SPECIFICATION FairSpec
CONSTANTS
    Jobs = {j1, j2}
    Calls = {x1}
    Closers = {k1}
    Sentinel = Sentinel
    MaxPending = 1
    Parallel = 2
    Timed = {x1}
    MaxItems = 1
    MaxRetries = 0
CHECK_DEADLOCK FALSE
PROPERTIES Answered WorkerExits
