SPECIFICATION Spec
CONSTANTS
    Jobs = {j1, j2}
    Calls = {x1, x2}
    Closers = {k1}
    Sentinel = Sentinel
    MaxPending = 1
    Parallel = 2
    Timed = {j1}
    MaxItems = 1
    MaxRetries = 1
CHECK_DEADLOCK FALSE
SYMMETRY MCSymmetry
INVARIANTS TypeOK NoneLost CallExclusive CallOrder IteratorsClosed
