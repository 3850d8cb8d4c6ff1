CONSTANTS
    Batches = {b1, b2, b3, b4}
    None = none
    MaxSeq = 3
    NClients = 3
    Genesis = 2
    Sites = {}
    Names = {"x"}
    NoSite = NoSite
    Cloned = {1}
    Observers = {1}
    Revocable = {1}
    MaxBatches = 3
    MaxLeases = 2
    PolicyIds = {1, 2}
    PolicyOf <- MCPolicyOf
    CopyClaims = {"a", "b"}
    FileObject <- MCFileObject
    CopyObject <- MCCopyObject
    DeviceOf <- MCDeviceOf
    Deviceless = "none"
    SiteOf <- MCSiteOf
    HomeSite = "home"
    OfflineCopies = {"b"}
    EncryptedCopies = {"b"}
    Requirements <- MCRequirements
    Reporters = {"r"}
    FindingLimit = 1
    MaxClock = 3
    MaxInputs = 2
    MaxEvaluations = 2
SPECIFICATION HistoriesSpec
INVARIANTS
    RefusedOnlyForTemps
    RemoteIsTrusted
    DatabaseMatchesHistory
    PolicyReportsAreTrue
PROPERTIES
    EvidenceIsKept
    LogSpec
