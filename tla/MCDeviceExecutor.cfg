SPECIFICATION FairTaskSpec
CONSTANTS
    ka = ka
    kb = kb
    a1 = a1
    a2 = a2
    b1 = b1
    b2 = b2
    t1 = t1
    t2 = t2
    t3 = t3
    Keys <- MCKeys
    Ops <- MCOps
    KeyOf <- MCKeyOf
    QueueSize = 3
    Tasks <- MCTasks
    ModelOf <- MCModelOf
    Rows <- MCRows
    MaxRows = 2
    Limit = 2
    CallOf <- MCCallOf
    Staged = {ka}
    MaxStages = 2
    Few = {b2}
INVARIANTS TypeOK KeyOrder BypassOnce LeasedWhileUsed
PROPERTIES AllEnd
CHECK_DEADLOCK FALSE
