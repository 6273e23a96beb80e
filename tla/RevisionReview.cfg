SPECIFICATION RequestsSpec
CONSTANTS
    Revisions = {v1, v2}
    ArtifactOf <- TwoOfOneArtifact
    Requests = {c1, c2}
    None = None
    MaxReviews = 4
    MaxSwitches = 2
    p1 = p1   p2 = p2   p3 = p3   k = k
    EnqueueRequests = {p1, p2, p3}
    Bodies <- SomeBodies
    NoKey = NoKey
    NoConversation = NoConversation
    MaxInputChanges = 1
    Callers = {p1, p2, p3}
    CallKeys = {k}
    Unkeyed = NoKey
    FirstJobs = {j1}
    NoJob = NoJob
    MaxReservations = 1
    ParseRequests = {p1, p2, p3}
    NoRequest = NoRequest
    Sheets = {s1, s2}
    Rows = 4
    TABLE_AGENT_MAX_STEPS = 3
    HeadRows = 1   TailRows = 1
    MaxEdits = 2
    SourceTables <- SomeTables
    DaysIn <- SomeDays
    Profiles <- SomeSnapshots
    MaxPlanningJobs = 2
INVARIANTS
    PublishedIsApproved
    EvidenceFollowsReview
    ReviewLogExplainsStatus
    RepeatedCallsAgree
    ParserIsContained
    TableIsWhatWasSeen
    AnswerIsWhatWasAsked
    ChosenFieldIsUsed
PROPERTIES
    FrozenWhileReadOnly
    PolicySpec
SYMMETRY RequestSymmetry
CHECK_DEADLOCK FALSE
