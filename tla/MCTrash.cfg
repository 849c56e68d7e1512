CONSTANTS
    i1 = i1  i2 = i2  p1 = p1  p2 = p2
    file = file  folder = folder  deep = deep
    None = None
    Ids = {i1, i2}
    Paths = {p1, p2}
    Objs = {file, folder, deep}
    Dirs = {folder, deep}
    Deep = {deep}
    Size <- MCSize
    InitShare <- MCShare
    InitTrash <- MCTrashed
    PurgeEntries = 2
    RecoverEntries = 5
    MaxFaults = 2
SPECIFICATION FairSpec
INVARIANTS PayloadHasSidecar IntactUnlessPurging
PROPERTIES RecoveryReconciles LifecycleSpec TrashDrains
CHECK_DEADLOCK FALSE
