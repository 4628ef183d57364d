SPECIFICATION Spec
CONSTANTS
    Workers = {w1, w2}
    Probers = {q1}
    Failures = {f1}
    None = None
    LeaseSeconds = 1
    NormalCooldown = 1
    LongCooldown = 2
    ProbeInterval = 2
    MaxTime = 5
    MaxCycles = 3
    MaxProbes = 2
SYMMETRY Symmetry
INVARIANTS
    TypeOK
    NoEarlyStart
    PermitIsCurrent
    ProbesSpaced
    CircuitIsExplained
PROPERTIES
    EndedCycleIsFinal
CHECK_DEADLOCK FALSE
