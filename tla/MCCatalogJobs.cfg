\* Two jobs over one copy, with batches of two observations, one of which may
\* carry an operation key and be sent again.
SPECIFICATION Spec
CONSTANTS
    Collections = {c1}
    Paths = {p1}
    Locations = {l1}
    Hashes = {h1}
    Jobs = {j1, j2}
    Kinds = {"inventory"}
    Keys = {k1}
    None = None
    MaxTime = 0
    MaxRevision = 4
    MaxBatch = 2
SYMMETRY JobSymmetry
PROPERTIES
    OnlyCompleteScansDeclareMissing
    RevisionCoversContent
