SPECIFICATION Spec
CONSTANTS
    Jobs = {1}
    OwnerName <- SharedNames
    Operation <- OneGenerate
    g1 = g1
    g2 = g2
    r1 = r1
    r2 = r2
    q1 = q1
    q2 = q2
    GenWorkers = {g1}
    RenderWorkers = {r1}
    Requests = {q1}
    None = None
    MaxGenerationAttempts = 3
    MaxDisruptions = 3
INVARIANTS AttemptsBounded
