CONSTANTS
    ann = ann  bob = bob  t1 = t1  t2 = t2  t3 = t3  c1 = c1  c2 = c2
    None = None
    Users = {ann, bob}
    Tokens = {t1, t2}
    Clients = {c1, c2}
    Idle = 2
    Absolute = 3
    PerUser = 1
    Total = 2
    MaxTime = 3
    MaxRestarts = 1
    MaxFaults = 1
SPECIFICATION Spec
INVARIANT SessionsSound
PROPERTY EndedStaysEnded
SYMMETRY Alike
CHECK_DEADLOCK FALSE
