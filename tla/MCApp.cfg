CONSTANTS
    Files = {1, 2, 3}
    Origins = {1, 2}
    Limit = 1
    MaxCommits = 3
    MaxRebuilds = 1
    MaxRestarts = 1
    Refs = {1, 2, 3}
    Foreign = {3}
    Identities <- MCIdentities
    None = none
    Locations = {11, 13}
    Roots = {21, 22}
    DeviceOf <- MCDeviceOf
    RootOf <- MCRootOf
    Confirmed = {21}
    Mounts = {"m1"}
    Requests <- MCRequests
    PageSize = 2
    MaxEvents = 4
    Machines = {1, 2}
    Migrant = 1
    l1 = l1
    l2 = l2
    h1 = h1
    h2 = h2
    Places = {l1, l2}
    Hashes = {h1, h2}
    Times = {1, 2}
    MaxRecords = 3
    MaxReplays = 1
SPECIFICATION AppSpec
CONSTRAINTS
    FirstRecord
    NotYetPublished
ACTION_CONSTRAINTS
    OtherAppliesAtOnce
    ReadsNoProjection
PROPERTIES
    FeedIsComplete
    AccessIsAnswered
    
CHECK_DEADLOCK FALSE
