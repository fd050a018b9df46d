SPECIFICATION Spec
CONSTANTS
    Jobs = {j1}
    Calls = {}
    QueueSize = 1
    MaxSequences = 2
    Buffer = 2
    Timed = {}
    Streams = {j1}
    Crashes = FALSE
    MaxForwards = 1
    MaxItems = 1
    MaxDefers = 0
SYMMETRY MCSymmetry
INVARIANTS ReaderCompletes
CHECK_DEADLOCK FALSE
