SPECIFICATION Spec
CONSTANTS
    c1 = c1
    c2 = c2
    c3 = c3
    Objects = {1, 2, 3}
    Commits = {c1, c2, c3}
    Branches = {main}
    NoCommit = NoCommit
    Children <- MCChildren
    Parents <- MCParents
    Sources <- MCSources
    Roots <- MCRoots
    Size <- MCSize
    PackedSize <- MCPackedSize
    BodySize <- MCBodySize
    StateRoots = {1, 3}
    Clients = {k1, k2}
    DefaultLimits <- MCDefaultLimits
    LimitChoices <- MCLimitChoices
    MaxBatch = 1
    EarlierSchemas = {1, 2}
    Compacting = FALSE
    MaxApplied = 1
    MaxPlans = 1
    MaxGeneration = 3
INVARIANTS
    StoreSound
    CapacityKept
PROPERTIES
    NothingLost
    ImplementsHistory
