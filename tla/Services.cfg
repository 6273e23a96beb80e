SPECIFICATION ServicesSpec
CONSTANTS
    p1 = p1   p2 = p2   m1 = m1   m2 = m2
    Memories = {m1, m2}
    Messages = {s1}
    SourceOf <- OneSource
    Apis = {p1, p2}
    ReadOnlyWorkers = {w1}
    Nobody = Nobody
    MaxRestores = 1
    MaxLogicals = 3
    MaxVersions = 3
    Candidates = {m1, m2}
    Sources = {s1}
    CandidateSource <- OneCandidateSource
    MemoryRequests = {p1, p2, p3}
    MaxExtractions = 2
    Uploads = {u1, m1, m2}
    Earlier = {u1}
    UploadApis = {p1, p2}
    NoApi = NoApi
    NoAsset = NoAsset
    NoSnapshot = NoSnapshot
    MaxReadUploads = 1
    MaxUnanswered = 2
    Tables <- SomeSheets
    IndexNames <- NumberNames
    MaxDataColumns = 3
    MaxDataRows = 2
    Manifests = {"one@1", "one@2", "two@1"}
    PluginOf <- ThreePlugins
    CapabilitiesOf <- ThreeCapabilities
    InstallKeys = {p1, p2}
    BindKeys = {m1, m2}
    NoKeyYet = NoKeyYet
    NoTheme = NoTheme
    MaxBindingVersion = 2
    Submitted <- SomeManifests
    ThemeIds = {"t1", "t2", "t3"}
    BuiltinThemes = {"economist"}
    Settings = {"ink", "size"}
    RefusedSettings = {"size"}
    Supported = {"vega-lite"}
    ChartContexts <- SomeCharts
    NoRef = NoRef
    MaxThemeDepth = 2
    ThemeAuthors = {p1, p2, p3}
    MaxSaves = 3
    CycleWorkers = {p1, p2}
    NoWorker = NoWorker
    MaxClaims = 2
    MaxCycleFaults = 2
    Models = {"qwen"}
    MasterKeys = {m1, m2}
    Unset = "unset"
    MaxDeployments = 2
    MaxKeys = 2
    Conversations = {"a", "b", "c"}
    ProjectOf <- ThreeConversations
    FirstConversations = {"a", "c"}
    NoConversation = "none"
    MaxPageJobs = 1
    MaxPageRequests = 2
INVARIANTS
    CheckpointIsTruthful
    StoredDataIsReadable
    PluginsFitTogether
    RequestsAreOnRecord
PROPERTIES
    RevokedNeverSentAgain
    NothingRevivesRevoked
    DecidedOnce
    OutcomesAreFinal
    NoThemeLostUnseen
    LateResultsAreDropped
SYMMETRY ServicesSymmetry
CHECK_DEADLOCK FALSE
