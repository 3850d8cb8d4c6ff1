\* Two copies of one object: every kind of observation, accepted changes, a
\* scan, removals and retirement.
SPECIFICATION Spec
CONSTANTS
    Collections = {c1}
    Paths = {p1}
    Locations = {l1, l2}
    Hashes = {h1, h2}
    Jobs = {j1}
    Kinds = {"inventory"}
    Keys = {}
    None = None
    MaxTime = 1
    MaxRevision = 4
    MaxBatch = 1
SYMMETRY CopySymmetry
INVARIANTS
    VerifiedIsCurrent
    AuditExplainsCopies
    CoverageInScope
    
PROPERTIES
    DamageOutlivesSightings
    ChecksNeverGoBack
    RetiredScopeGainsNothing
