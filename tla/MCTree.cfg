SPECIFICATION Spec
CONSTANTS
    Ids = {1, 2, 3, 4, 5}
    Names = {1, 2}
    Positions = {1}
    Values = {0, 1, 2}
    None = None
    Suggestions = {g1}
    GateOps <- MCGateOps
    Bases <- MCBases
    SideOps <- MCSideOps
    Resolutions <- MCResolutions
    MaxTeam = 2
    MaxDraft = 2
    MaxReported = 1
    Trunks <- MCTrunks
    Writes <- MCWrites
    Paths <- MCPaths
    PathRank <- MCRank
    MaxCommits = 2
    MaxScalars = 5
    MaxDepth = 3
    DiffLimit = 3
    MaxElements = 3
    MaxRules = 2
    MaxTypes = 2
    Scenes = {"gate", "merge", "project", "texts", "patches", "laws", "policies"}
INVARIANTS
    TreeSound
    MergeSound
    TextSound
    PolicySound
CHECK_DEADLOCK FALSE
