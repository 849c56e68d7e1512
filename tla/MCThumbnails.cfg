SPECIFICATION Spec
CONSTANTS
    k1 = k1
    k2 = k2
    k3 = k3
    r1 = r1
    r2 = r2
    r3 = r3
    Requests = {r1, r2, r3}
    Keys = {k1, k2, k3}
    Length <- Lengths
    Estimate <- Estimates
    MaxBytes = 2
    MaxEntries = 2
    MaxScan = 1
    Capacity = 2
    MaxAsked = 3
    MaxCuts = 1
    MaxTrouble = 2
INVARIANTS MemoryWithinBudget CacheSound
SYMMETRY Alike
CHECK_DEADLOCK FALSE
