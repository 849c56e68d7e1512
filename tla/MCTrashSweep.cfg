CONSTANTS
    large = large  small = small  later = later  deep = deep  torn = torn  lost = lost
    Free = Free
    Items = {deep, torn, lost, large, later}
    Positions = 8
    Weight <- Small
    Stuck = {deep}
    Damaged = {torn}
    Unfinished = {lost}
    InitDirs <- Damage
    Batch = 2
    MaxScan = 7
SPECIFICATION SweepFairSpec
INVARIANT SweepSound
PROPERTY SweepsEnd
CHECK_DEADLOCK FALSE
