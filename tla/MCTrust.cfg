SPECIFICATION MCSpec
CONSTANTS
    Keys = {k1, k2}
    Scopes = {docs}
    Commits = {x}
    Servers = {v1, v2}
    Processes = {p1, p2}
    Branch = docs
    NoKey = NoKey
    NoPin = NoPin
    MaxReceipts = 2
    MaxStatements = 2
    MaxRestores = 1
    MaxRotations = 1
SYMMETRY Symmetry
INVARIANTS
    AuthoritySound
    TrustSound
PROPERTIES
    ImplementsHistory
    PinSafe
CHECK_DEADLOCK FALSE
