SPECIFICATION FairSpec
CONSTANTS
    c1 = c1
    c2 = c2
    c3 = c3
    Objects = {1, 2, 3}
    Commits = {c1, c2, c3}
    Branches = {main}
    NoCommit = NoCommit
    Children <- MCChildren
    Parents <- MCParents
    Sources <- MCSources
    Roots <- MCRoots
    Size <- MCSize
    PackedSize <- MCPackedSize
    BodySize <- MCBodySize
    StateRoots = {1, 3}
    Clients = {}
    DefaultLimits <- MCDefaultLimits
    LimitChoices <- MCLimitChoices
    MaxBatch = 1
    EarlierSchemas = {1}
    Compacting = TRUE
    MaxApplied = 1
    MaxPlans = 1
    MaxGeneration = 2
INVARIANTS
    CompactionExact
PROPERTIES
    CompactionEnds
