CONSTANTS
    Paths = {p1, p2}
    Hashes = {h1, h2}
    Cataloged = {p1}
    Expected = h1
    ScanJobs = {scan}
    AddJobs = {}
    AcceptJobs = {accept}
    Procs = {x, y}
    None = none
    BatchEntries = 1
    MaxStarts = 3
    MaxEdits = 1
SPECIFICATION Spec
SYMMETRY Runners
INVARIANTS
    OutcomesOnce
    CheckpointIsConsistent
    ReplayIsExact
    MissingWasGone
CHECK_DEADLOCK FALSE
