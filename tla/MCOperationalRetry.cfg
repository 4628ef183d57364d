CONSTANTS
  None = None
  Works <- OneWork
  urgency <- AllRoutine
  Deadlines <- LongDeadline
  Instants <- LongRange
  Classes <- TwoKinds
  Legacy <- OneWork
  QueueCapacity = 1
  UrgentReserve = 0
  HostConcurrency = 2
  LeaseSeconds = 2
  RenewalSeconds = 2
  MaximumLeaseSeconds = 3
  MaximumAttempts = 3
  MaximumElapsed = 6
  BaseBackoff = 1
  MaximumBackoff = 2
  CatchUpItems = 1
  StarvationLimit = 1
SPECIFICATION Spec
INVARIANTS TypeOK LeaseMatchesWork RetryDiscipline OutcomeHasAuthority
CHECK_DEADLOCK FALSE
