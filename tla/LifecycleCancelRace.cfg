CONSTANTS
    OrderIds = {o1, o2}
    Manual = {m1}
    None = None
    MaxParallel = 2
    MaxRequests = 1
    Regimes <- NothingFails
SPECIFICATION Spec
SYMMETRY OrderIdSymmetry
INVARIANT FilledBuysAreKnown
