SPECIFICATION Spec
CONSTANTS
    Folders <- Tree
    Files <- Places
    Start <- AtStart
    Sizes = {1, 2}
    Walkers = {w1, w2}
    Watched <- Folder
    Listed <- Folder
    Unlisted <- Links
    Hidden = {3}
    Mixes <- Work
    Ttl = 2
    Capacity = 1
    Slots = 1
    PageSize = 1
    MaxEntries = 4
    MaxNames = 1
    MaxQueue = 2
    Lifetime = 2
    Interval = 1
INVARIANTS SizesSound SilentOnceSignedOut PagesAgree
CHECK_DEADLOCK FALSE
