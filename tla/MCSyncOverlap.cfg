CONSTANTS
    A = A
    B = B
    a1 = a1
    a2 = a2
    b1 = b1
    Clients = {A, B}
    Initial = A
    SyncProcs = {a1, a2, b1}
    ClientOf <- TwoOnInitial
    Nobody = nobody
    Ops = {"append", "sync"}
    Attempts = 2
    Duration = 1
    MaxSyncTime = 0
    MaxOps = 5
SPECIFICATION SyncSpec
PROPERTIES
    FrontiersNeverShrink
CHECK_DEADLOCK FALSE
