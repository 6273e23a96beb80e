SPECIFICATION LibrarySpec
CONSTANTS
    e1 = e1
    e2 = e2
    c1 = c1
    r1 = r1
    r2 = r2
    Edits = {e1, e2}
    Creations = {}
    Base = Base
    RenderWorkers = {r1, r2}
    NumFormats = 2
    MaxFence = 3
    MaxDisruptions = 2
    None = None
    Plans = {"sum", "mean"}
    Measures = {"price", "count"}
    Looks = {"plain", "bold"}
    OldRevisions <- ThreeRevisions
    Nothing = Nothing
    Briefs = {"brief"}
    References = {"project", "private"}
    Executors = {"v1", "v2"}
    MaxDerivations = 2
    Reports = {1, 2}
    Latest = 2
    Members = {"v", "e"}
    Casts <- TwoCasts
    Absent = Absent
    MaxShares = 1
    MaxComments = 1
    Editors = {e1, e2}
    Texts = {"x"}
    Unset = Unset
    MaxSnapshots = 2
    MaxMetrics = 1
    MaxJobs = 2
    MaxSaves = 2
    MaxMessages = 2
    Recent = 2
    MaxHistory = 2
    MaxTime = 1
    Unread = Unread
    Processes = {e1, e2}
    Names = {r1, r2}
    Legacy = Legacy
    Nobody = Nobody
    MaxAccounts = 2
    MaxWorkspaces = 3
    MaxProjects = 2
    Selections = {e1, e2}
    NotSelected = NotSelected
    MaxVersion = 2
    MaxHandles = 3
    MaxRemarks = 2
SYMMETRY ProcessSymmetry
INVARIANTS
    PublishedOutputsReadable
    LedgerCoversStore
    SucceededIffPublished
    DerivedIsTraceable
    ViewersSeeApproved
    JobsAreGrounded
    ReadsForgetDeleted
    OnePersonalWorkspace
    PanelsShowSelected
PROPERTIES CatalogSpec
CHECK_DEADLOCK FALSE
