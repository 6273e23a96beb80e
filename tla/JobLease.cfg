SPECIFICATION CrewSpec
CONSTANTS
    Jobs = {1, 2}
    Operation <- GenerateThenEdit
    OwnerName <- SharedNames
    g1 = g1
    g2 = g2
    r1 = r1
    r2 = r2
    q1 = q1
    q2 = q2
    GenWorkers = {g1, g2}
    RenderWorkers = {r1, r2}
    Requests = {q1, q2}
    None = None
    MaxGenerationAttempts = 2
    MaxDisruptions = 2
INVARIANTS LeaseImpliesStage FencesUnique NoStrandedJob PublishedOnce
PROPERTIES StaleWorkerIsHarmless LifecycleSpec EveryJobSettles
