CONSTANTS
    OrderIds = {o1, o2, o3}
    Manual = {m1}
    None = None
    MaxParallel = 2
    MaxRequests = 2
    Regimes <- SafetyRegimes
SPECIFICATION Spec
SYMMETRY OrderIdSymmetry
INVARIANTS
    TypeOK
    UserPositionsAreSafe
    LedgerSound
    LedgerMatchesOwnership
    NoOrphans
PROPERTIES
    EvictionIsSettled
    VanishedIsGone
