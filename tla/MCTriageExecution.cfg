SPECIFICATION Spec
CONSTANTS
    Items = {i1}
    MaxVersion = 2
    Decisions = {d1}
    MaxBatches = 2
    Requests = {r1, r2}
    MaxAttempts = 2
    Workers = {w1, w2}
    Evidence = {e1, e2}
    TTL = 1
    MaxTime = 1
    None = None
SYMMETRY Symmetry
INVARIANTS
    TypeOK
    SingleLineage
    AnswersAgree
    FencesTotallyOrdered
    VerifyIntegrity
PROPERTIES
    SupersededWorkerCannotAct
    StaleWorkIsFrozen
CHECK_DEADLOCK FALSE
