CONSTANTS
    NPaths = 2
    StageContents = {a, b}
    None = None
    Backends = {"v2", "sqlite"}
    Jobs = {j1, j2}
    Runners = {x}
    BatchFiles = 1
    Page = 1
    MaxItems = {1, 9}
    MaxAudits = 2
    MaxStarts = 2
    MaxKills = 1
    MaxEdits = 1
    a = a
    b = b
    j1 = j1
    j2 = j2
    k1 = k1
    NoKey = NoKey
    KeyOf <- MCKeyOf
    Imports = {"v1", "v2"}
    Inventories = {"i1"}
    Importers = {p1, p2}
    ImportBatch = 2
    MaxCommands = 3
    MaxDisturbances = 2
SPECIFICATION ImportsSpec
SYMMETRY SameImporters
CONSTRAINTS
    FirstIsJ1
    FewOverlaps
    PlainKeys
PROPERTIES
    
    AnnexIsSound
CHECK_DEADLOCK FALSE
