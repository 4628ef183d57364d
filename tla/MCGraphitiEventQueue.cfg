SPECIFICATION FairSpec
CONSTANTS
    Workers = {w1, w2}
    None = None
    MaxAttempts = 2
    MaxSeq = 2
    MaxFaults = 2
INVARIANTS
    TypeOK
    HeldEventsHoldCheckpoint
    OneWorkerPerAttempt
PROPERTIES
    TerminalIsFinal
    ClaimEndsByItsOwner
    LostClaimIsRecovered
CHECK_DEADLOCK FALSE
