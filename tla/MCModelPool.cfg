SPECIFICATION Spec
CONSTANTS
    Keys = {k1, k2, k3}
    Clients = {c1, c2, c3}
    None = None
    MaxModels = 2
    Budget = 3
    Sizes = {1, 2}
    MaxEpoch = 2
SYMMETRY MCSymmetry
INVARIANTS TypeOK LeaseSafety SlotBudget ByteBudget DrainOwned JoinersServed ClosedIsEmpty
PROPERTIES PinnedStays
CHECK_DEADLOCK FALSE
