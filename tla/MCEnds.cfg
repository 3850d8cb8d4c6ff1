CONSTANTS
    Collections = {photos}
    p1 = p1
    p2 = p2
    Paths = {p1, p2}
    SubPaths = {p2}
    Locations = {src, dst}
    Source = src
    Target = dst
    Hashes = {h1}
    Scans = {scan}
    Verifies = {check}
    Copiers = {}
    Jobs = {scan, check}
    Kinds = {"inventory", "verify", "copy"}
    Keys = {}
    None = none
    Procs = {x, y}
    Rank <- FirstThenSecond
    OneRunner = FALSE
    MaxTime = 0
    MaxRevision = 8
    MaxBatch = 0
    MaxEdits = 0
    MaxRuns = 2
    A = A
    B = B
    a1 = a1
    a2 = a2
    b1 = b1
    Clients = {A, B}
    Initial = A
    SyncProcs = {a1, a2, b1}
    ClientOf <- TwoOnInitial
    Nobody = nobody
    Ops = {"append", "sync", "spool"}
    Attempts = 2
    Duration = 1
    MaxSyncTime = 0
    MaxOps = 3
SPECIFICATION EndsSpec
PROPERTIES
    EveryRunEnds
    EveryOperationEnds
CHECK_DEADLOCK FALSE
