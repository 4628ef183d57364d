SPECIFICATION FairTurns
CONSTANTS
    Items = {i1}
    Requests = {r1}
    Evidence = {r1}
    MaxBatches = 1
    MaxTime = 1
    MaxFaults = 1
    MaxChanges = 0
    MaxVersion = 1
    Decisions = {d1}
    Decision = d1
    MaxAttempts = 1
    Workers = {w1}
    Worker = w1
    SlowTurns = FALSE
    TTL = 1
    None = None
PROPERTIES
    CrashIsRecoverable
