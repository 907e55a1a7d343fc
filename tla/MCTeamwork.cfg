SPECIFICATION Spec
CONSTANTS
  ann = ann  bea = bea  cy = cy  bot = bot  blk1 = blk1  blk2 = blk2
  None = None
  People = {ann, bea, cy}
  Agents = {bot}
  principal_id <- MCprincipal_id
  ProjectManagers = {ann}
  Blocks = {blk1, blk2}
  Vals = {0, 1, 2}
  Empty = 0
  TeamEdits <- MCTeamEdits
  DraftEdits <- MCDraftEdits
  AgentEdits <- MCAgentEdits
  Drafts = {d1, d2}
  Policies <- MCPolicies
  AgentPolicies <- MCAgentPolicies
  Verdicts = {"approved", "changes_requested"}
  Calls = {1, 2}
  Requests = {1, 2}
  MaxSeq = 2
  MaxRevision = 3
  MaxReviews = 2
  MaxChanges = 1
  MaxCalls = 3
    p1 = p1
    p2 = p2
    s1 = s1
    s2 = s2
    l1 = l1
    l2 = l2
    n1 = n1
    n2 = n2
    n3 = n3
    n4 = n4
    Unset = Unset
    Keep = Keep
    Absent = Absent
    Root = Root
    Scenes = {"drafts", "rules", "agents",
              "pages", "spaces", "issues", "copies", "reports"}
    Universe <- MCUniverse
    Spans <- MCSpans
    Now = 7
    RAW_PER_ITEM = 2
    MaxWrites = 2
    Limits = {1, 2}
    Lists = {"issues", "comments", "discussions", "events", "rotations", "inventory",
             "reviews", "releases", "documents", "notifications", "feed", "files"}
    Persons = {p1, p2}
    Spaces = {s1, s2}
    Docs = {d1}
    GivenRoles = {"owner", "manager"}
    author_of <- MCauthor_of
    access_of <- MCaccess_of
    DepthLimit = 12
    MaxLinks = 1
    MaxTrashes = 1
    Project = s1
    Texts = {"a"}
    Labels = {l1}
    LabelNames = {"x", "y"}
    Inputs <- MCInputs
    MAX_ISSUES = 1
    MAX_COMMENTS = 1
    MAX_LABELS = 1
    MAX_ISSUE_LABELS = 1
    MaxTrail = 4
    History <- MCHistory
    States <- MCStates
    Names = {1, 2, 3}
    Before <- MCBefore
    Misstated <- MCMisstated
    Tips = {"c3"}
    Pairs <- MCPairs
    PageLimits = {1, 2}
    MAX_COMMITS = 5
    MAX_PAGES = 4
    MaxTurns = 1
INVARIANTS
    
    RecordsKept
    ShownTruthfully
PROPERTIES
    
    NoLostText
CHECK_DEADLOCK FALSE
