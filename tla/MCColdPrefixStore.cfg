SPECIFICATION Spec
CONSTANTS
    Keys = {k1, k2, k3}
    Gens = {g1, g2, g3}
    Clients = {c1, c2}
    None = None
    MaxEntries = 2
    Budget = 3
    Sizes = {1, 2, 4}
SYMMETRY MCSymmetry
INVARIANTS IndexBacked GenerationsCollected
PROPERTIES Implements
