SPECIFICATION Spec
CONSTANTS
    title = title
    s1 = s1
    key = key
    edit = edit
    accept = accept
    reject = reject
    deploy = deploy
    e1 = e1
    e2 = e2
    a1 = a1
    j1 = j1
    d1 = d1
    earlier = earlier
    NoField = NoField
    NoValue = NoValue
    NoSuggestion = NoSuggestion
    NoEntry = NoEntry
    NoKey = NoKey
    Fields = {title}
    InitialLog <- MCLog
    InitialSnapshots <- MCSnapshots
    MaxTail = 3
    SharedPeriodic = TRUE
    Requests = {e1, e2, a1, j1, d1}
    Workloads <- MCRetries
    OpOf <- MCOpOf
    Ops <- MCOps
    Keys = {key}
    Readers = {v1}
    MaxSubscribers = 1
    Capacity = 1
    MaxExpiries = 0
    MaxLostAnswers = 1
    MaxCloses = 0
    MaxCrashes = 0
INVARIANTS
    RetriesNeverDuplicate
CHECK_DEADLOCK FALSE
