SPECIFICATION ProgressSpec
CONSTANTS
    e1 = e1
    e2 = e2
    c1 = c1
    r1 = r1
    r2 = r2
    Edits = {}
    Creations = {c1}
    Base = Base
    RenderWorkers = {r1, r2}
    NumFormats = 1
    MaxFence = 2
    MaxDisruptions = 1
    None = None
    WatchedJobs = {j1, j2}
    MaxVersion = 2
    Watches = {1, 2}
    MaxFaults = 2
    NoJob = NoJob
PROPERTIES OrphansAreRemoved EndIsShown ShownNeverGoesBack
CHECK_DEADLOCK FALSE
