SPECIFICATION Spec
CONSTANTS
    Jobs = {j1, j2}
    Calls = {x1}
    QueueSize = 2
    MaxSequences = 2
    Buffer = 1
    Timed = {j1}
    Streams = {j1}
    Crashes = TRUE
    MaxForwards = 1
    MaxItems = 2
    MaxDefers = 1
INVARIANTS TypeOK OnePlace BarrierExclusive BarrierOrder CacheAgrees
PROPERTIES TerminalFinal
CHECK_DEADLOCK FALSE
