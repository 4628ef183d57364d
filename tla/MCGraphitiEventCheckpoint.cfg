SPECIFICATION Spec
CONSTANTS
    Workers = {w1, w2}
    None = None
    MaxAttempts = 2
    MaxSeq = 3
    MaxFaults = 2
SYMMETRY Symmetry
INVARIANTS
    CheckpointIsContiguous
CHECK_DEADLOCK FALSE
