SPECIFICATION Spec
CONSTANTS
  Workers = {w1, w2}
  u1 = u1
  u2 = u2
  Units <- MCUnits
  Pred <- MCPred
  R = 2
  Ceiling = 4
  Costs = {0, 1}
  MaxFailures = 2
  MaxAttempt <- MCMaxAttempt
  LastAttempt = 2
  MaxFault = 1
  None = None
INVARIANTS TypeOK ChargesAreCounted CommittedWithinCeiling OneOpenAttempt
  IngestedMeansSealed FailuresAreSettled
PROPERTIES SealedNeverCharged
SYMMETRY WorkerSymmetry
CHECK_DEADLOCK FALSE
