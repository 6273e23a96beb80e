SPECIFICATION ProjectMemorySpec
CONSTANTS
    MaxLogicals = 2
    MaxVersions = 3
    Candidates = {c1, c2}
    Sources = {s1}
    CandidateSource <- OneCandidateSource
    MemoryRequests = {p1, p2, p3}
    MaxExtractions = 1
INVARIANT AdoptionReplacesHead
CHECK_DEADLOCK FALSE
