SPECIFICATION Spec
CONSTANTS
    Scenes = {"links", "handover", "legacy", "keys", "devices", "keyfiles", "pushes", "pulls", "restored", "desk", "tiles", "witnesses", "bundles", "policies"}
    People = {ann}
    Administrators = {}
    Links = {l1, l2}
    Codes = {d1, d2}
    LoginCalls = {c1, c2}
    MaxLogins = 3
    MaxRotations = 3
    MaxGeneration = 2
    MAX_OUTSTANDING = 2
    Keys = {k1, k2, k3}
    Projects = {docs}
    Scopes = {"write", "content"}
    ContentScopes = {"content"}
    Challenges = {h1, h2}
    DeviceCalls = {e1, e2}
    MAX_ACTIVE = 1
    MAX_TOTAL = 2
    MAX_GRANTS = 1
    HOURLY = 2
    Paths = {"f1", "f2", "f3"}
    SigningKeys = {1, 2}
    MaxSecrets = 2
    MaxSpills = 1
    Commits <- MCCommits
    Objects = {"o1", "o2"}
    Parents <- MCParents
    Deps <- MCParents
    Content <- MCContent
    Workstations = {"ann", "bob"}
    Terminals = {"a", "a2", "b"}
    At <- MCAt
    Written <- MCWritten
    NoCommit = NoCommit
    MaxMoves = 3
    MaxLocal = 2
    MaxPlans = 1
    MaxWire = 2
    MaxRestores = 1
    TILE_HEIGHT = 2
    Batches <- MCBatches
    MaxSize = 9
    MaxCrashes = 1
    PolicyDoc <- MCPolicyDoc
    PolicyDocs <- MCPolicyDocs
    UnfitNames = {""}
    BadOrigins = {"bad"}
    Histories <- MCHistories
    Offers <- MCOffers
    MaxLines = 5
    MaxBundles = 2
INVARIANTS
    CredentialsSound
    SyncTruthful
    
PROPERTIES
    
    ClientSteps
CHECK_DEADLOCK FALSE
