CONSTANTS
    r1 = r1
    r2 = r2
    Scenes = {"prune", "reads", "compare", "copies", "connect", "keys", "envelopes"}
    Never = Never
    Nobody = Nobody
    NoDoc = NoDoc
    Nothing = Nothing
    Replicas = {r1, r2}
    SPECS <- MCSPECS
    RowIds = {1, 2}
    auth_days = 1
    metrics_days = 1
    TTL = 1
    REQUEST_WINDOW = 1
    batch_rows = 1
    Lifetimes = {1, 3}
    MaxClock = 3
    MaxFailures = 1
    Calls = {1, 2}
    Actors = {"a", "b"}
    Works = {"p", "q"}
    MaxRequests = 2
    MaxStreams = 1
    MaxExpensive = 2
    MAX_KEYS = 3
    ActorRate = 2
    ActorParallel = 1
    ProjectRate = 3
    ProjectParallel = 2
    WINDOW = 1
    MaxTime = 1
    MaxEntered = 3
    SIGNATURE_LEN = 8
    ROWS = 4
    SUBSTANTIVE_WORDS = 3
    MAX_BLOCKS = 3
    MIN_SHINGLES = 2
    SizableBlocks = 2
    SizableShingles = 4
    bin <- MCbin
    value <- MCvalue
    probe <- MCprobe
    Indexers = {r1, r2}
    CopyDocs = {"d1", "d2"}
    Texts = {"t1", "t3"}
    TextOf <- MCTextOf
    Owner <- MCOwner
    TitleOf <- MCTitleOf
    Born <- MCBorn
    CopiedFrom <- MCCopiedFrom
    Known <- MCKnown
    Uploaded = {"d2"}
    baseline = 1
    MaxTold = 25
    MaxRecorded = 50
    MaxEdits = 3
    MaxPasses = 2
    MaxCuts = 1
    MaxNotices = 2
    Doors = {"g1", "g2"}
    Hosts = {"word"}
    Requests = {1, 2}
    Bundles = {"b1"}
    Contents = {"x", "y"}
    Blocks = {"n1", "n2"}
    Images = {"i1", "i2"}
    Size <- MCSize
    Exports = {"e1"}
    KindSets <- MCKindSets
    MaxGrants = 1
    MEDIA_QUOTA_BYTES = 2
    MaxLog = 2
    MaxEndings = 1
    KekVersions = {1, 2}
    DekIds = {1, 2}
    WrapContexts = {"c1", "c2"}
    Places = {"p1", "p2"}
    Values = {"v1", "v2"}
    Threads = {1, 2}
    KeyTtl = 1
    KeySlots = 1
    MaxKeyClock = 1
    MaxEnvelopes = 2
SPECIFICATION Spec

    
PROPERTIES
    
    PrunedEventually
CHECK_DEADLOCK FALSE
