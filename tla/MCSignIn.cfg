CONSTANTS
    ann = ann  bob = bob  s1 = s1  s2 = s2  k1 = k1  k2 = k2  o1 = o1  o2 = o2
    None = None
    MaxRequests = 4
    Users = {ann, bob}
    Sources = {s1, s2}
    Creds = {k1, k2}
    States = {o1, o2}
    Expiry <- Cookies
    SourceLimit = 2
    AccountLimit = 1
    MaxKeys = 1
    Window = 2
    Slots = 1
    Lifetime = 1
    MaxLogins = 1
    MaxPending = 2
    MaxPasskeys = 1
    MaxConsumed = 1
    MaxTime = 2
    Mixes <- Together
SPECIFICATION Spec
INVARIANTS LimitsHold UsedOnce
SYMMETRY Alike
CHECK_DEADLOCK FALSE
