CONSTANTS
    r1 = r1  r2 = r2  x = x  y = y
    None = None
    Requests = {r1, r2}
    Names = {x, y}
    Starts <- Pairs
    Limit = 3
    DirBytes = 2
    MaxFileBytes = 2
    MaxRequestBytes = 3
    MaxFiles = 2
    ScanEntries = 2
    Slots <- Gates
    MaxFaults = 1
SPECIFICATION FairSpec
INVARIANT QuotaSound
PROPERTIES JudgedAlone EveryWriteEnds
CHECK_DEADLOCK FALSE
