SPECIFICATION MCSpec
CONSTANTS
    ann = ann
    bob = bob
    d1 = d1
    d2 = d2
    c1 = c1
    c2 = c2
    c3 = c3
    o1 = o1
    o2 = o2
    o3 = o3
    project = project
    Accounts = {ann, bob}
    Documents = {d1, d2}
    Branches = {main}
    Names = {v1}
    Commits = {c1, c2, c3}
    Objects = {o1, o2, o3}
    Project = project
    Main = main
    Nobody = Nobody
    NoCommit = NoCommit
    NoReview = NoReview
    Parents <- MCParents
    Sources <- MCSources
    Files <- MCFiles
    Below <- MCBelow
    DocumentOf <- MCDocumentOf
    AuthorOf <- MCAuthorOf
    Starts <- MCStarts
    Drafts = {c1, c2, c3}
    RoleChanges <- Demoted
    RuleChoices <- Stricter
    Erasable = {ann, d2}
    MaxGeneration = 2
    MaxReviews = 2
INVARIANTS
    HistorySound
    ErasedIsGone
PROPERTIES
    FastForwardOnly
    ReviewedMain
