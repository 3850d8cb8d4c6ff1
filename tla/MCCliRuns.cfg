CONSTANTS
    Collections = {photos}
    p1 = p1
    p2 = p2
    Paths = {p1, p2}
    SubPaths = {p2}
    Locations = {src, dst}
    Source = src
    Target = dst
    Hashes = {h1, h2}
    Scans = {scan}
    Verifies = {check}
    Copiers = {copy}
    Jobs = {scan, copy, check}
    Kinds = {"inventory", "verify", "copy"}
    Keys = {}
    None = none
    Procs = {x, y}
    Rank <- FirstThenSecond
    OneRunner = TRUE
    MaxTime = 1
    MaxRevision = 12
    MaxBatch = 0
    MaxEdits = 1
    MaxRuns = 2
SPECIFICATION CliSpec
SYMMETRY Runners
INVARIANTS
    RecordedBytesWereThere
PROPERTIES
    
    ContentOnlyChangesByOthers
CHECK_DEADLOCK FALSE
