SPECIFICATION Spec
CONSTANTS
    Jobs = {j1, j2}
    Mixes <- Workloads
    Sources <- TwoFiles
    Lengths = {1, 2}
    Inputs <- Given
    Names = {1, 2}
    MaxEntries = 2
    MaxBytes = 3
    MaxDepth = 2
    Quota = 6
    SnapshotLen = 1
    DirCharge = 1
    Budget = 3
INVARIANTS ArchivesSound NothingLeftBehind
PROPERTY JobsFinish
CHECK_DEADLOCK FALSE
