CONSTANTS
    RolloverEvents = 2
    MaxEvents = 4
    MaxCrashes = 2
    MetaProcs = {p1, p2}
    Locators = {"ssh", "file"}
    LocalLocators = {"file"}
    MaxMetaLog = 6
    MaxOutsider = 1
    Ordinary = {"f"}
    Catalogued = {"f"}
    Annex = {"x"}
    Sha256 = {"x"}
    Scans = {"s1", "s2"}
    NoScan = "none"
    ScanMode <- MCModes
    ScanProcs = {"a", "b"}
    Runs <- MCRuns
    MaxVersion = 2
    MaxRuns = 3
    MaxUpsets = 2
SPECIFICATION Version1Spec
INVARIANTS
    CheckpointsAreTrue
PROPERTIES
    LogSurvives
    
CHECK_DEADLOCK FALSE
