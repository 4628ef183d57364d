SPECIFICATION FairDriver
CONSTANTS
    Items = {i1, i2}
    Requests = {r1, r2}
    Evidence = {r1, r2}
    MaxBatches = 2
    MaxTime = 2
    MaxFaults = 1
    MaxChanges = 2
    MaxVersion = 1
    Decisions = {d1}
    Decision = d1
    MaxAttempts = 1
    Workers = {w1}
    Worker = w1
    SlowTurns = TRUE
    TTL = 1
    None = None
INVARIANTS
    DriverTypeOK
    DisposedAsCompleted
PROPERTIES
    DriverStrandsOnlyByChange
