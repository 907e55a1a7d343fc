SPECIFICATION Spec
CONSTANTS
    Scenes = {"content", "checkpoints", "archive", "trees", "plans", "policies"}
    LEAF_ENTRIES = 2
    MaxDepth = 3
    Route <- MCRoute
    Ordinal <- MCOrdinal
    PlainText <- MCPlainText
    LongTexts = {"essay"}
    States <- MCStates
    MaxRevisions = 3
    Commit = {1, 2, 3, 4}
    Deps <- MCDeps
    Object = {"o1", "o2", "o3"}
    Refs <- MCRefs
    Files <- MCFiles
    MaxObjectFrames = 3
    MaxCommitFrames = 4
    Offered <- MCOffered
    Since = {0, 1, 2}
    CHUNK_BYTES = 2
    FANOUT = 2
    MAX_HEIGHT = 2
    Byte = {0, 1}
    MaxBytes = 9
    Floor = 1
    MAX_HOLDS = 2
    MAX_SIGNATURES = 3
    MAX_DAYS = 2
    MAX_QUARANTINE_DAYS = 2
    MAX_COMMIT_WINDOW = 2
INVARIANTS
    CheckpointsSound
    HistoryMovesWhole
CHECK_DEADLOCK FALSE
