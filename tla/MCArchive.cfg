CONSTANTS
    A = A
    B = B
    a1 = a1
    b1 = b1
    Clients = {A, B}
    Initial = A
    SyncProcs = {a1, b1}
    ClientOf <- OnePerClient
    Nobody = nobody
    Ops = {"append", "sync", "coordinated"}
    Attempts = 2
    Duration = 1
    MaxSyncTime = 2
    MaxOps = 4
    NSlots = 3
    Claimed = {1, 2}
    Corrupt = {2}
    VerifyJobs = {v}
    BackgroundJobs = {b}
    RepairJobs = {r}
    CopyJobs = {c}
    IncludeChanged = {}
    CopyFrom = 1
    CopyTo = 3
    Workers = {x, y}
    Nothing = nothing
    CopyBatch = 2
    MaxItems = {1, 7}
    BackgroundItems = 1
    SetBack = 1
    MaxCopyStarts = 2
    MaxKills = 1
    MaxOutside = 1
SPECIFICATION ArchiveSpec
SYMMETRY SameWorkers
INVARIANTS
    SyncedIsOnRemote
    InterruptedAppendsReconcile
    NothingIsLost
    
PROPERTIES
    FrontiersNeverShrink
    OnlyGoodBytesArePlaced
CHECK_DEADLOCK FALSE
