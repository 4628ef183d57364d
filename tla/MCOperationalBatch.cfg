CONSTANTS
  None = None
  Works <- FiveWorks
  urgency <- ThreeClasses
  Deadlines <- TightDeadlines
  Instants <- OneInstant
  Classes <- NoKind
  Legacy <- LastWork
  QueueCapacity = 3
  UrgentReserve = 1
  HostConcurrency = 2
  LeaseSeconds = 1
  RenewalSeconds = 1
  MaximumLeaseSeconds = 1
  MaximumAttempts = 3
  MaximumElapsed = 3
  BaseBackoff = 1
  MaximumBackoff = 1
  CatchUpItems = 2
  StarvationLimit = 1
SPECIFICATION Spec
INVARIANTS NoOversubscription FairBatch
CHECK_DEADLOCK FALSE
