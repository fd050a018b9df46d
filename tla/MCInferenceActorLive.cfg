SPECIFICATION FairSpec
CONSTANTS
    Jobs = {j1, j2}
    Calls = {x1}
    QueueSize = 1
    MaxSequences = 1
    Buffer = 1
    Timed = {}
    Streams = {j1}
    Crashes = FALSE
    MaxForwards = 1
    MaxItems = 1
    MaxDefers = 0
PROPERTIES JobEnds CallAnswered CloseReturns
CHECK_DEADLOCK FALSE
