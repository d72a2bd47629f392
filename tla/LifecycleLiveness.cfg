CONSTANTS
    OrderIds = {o1, o2}
    Manual = {m1}
    None = None
    MaxParallel = 2
    MaxRequests = 1
    Regimes <- LivenessRegimes
SPECIFICATION FairSpec

PROPERTY FilledBuyIsAdopted
