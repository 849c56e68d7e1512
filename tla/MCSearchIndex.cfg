CONSTANTS
    a = a  b = b
    Names = {a, b}
    Start <- OneFolder
    Touched <- Few
    Targets <- Tops
    MaxDepth = 2
    MaxEntries = 3
    MaxPending = 1
    Allowances = {2}
    MaxQueue = 3
    MaxTrouble = 2
SPECIFICATION IndexFairSpec
INVARIANT IndexSound
PROPERTY CatchesUp
CHECK_DEADLOCK FALSE
