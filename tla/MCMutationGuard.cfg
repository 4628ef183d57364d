SPECIFICATION FairSpec
CONSTANTS
  Workers = {w1, w2}
  Episodes = {e1, e2}
  Existing = {x}
  Tokens = {t1, t2, t3, t4, t5, t6, t7, t8, t9}
  MaxAttempt = 2
  Retried = {e1}
  MaxFault = 1
  None = None
INVARIANTS TypeOK OneOwner RollbackPossible
PROPERTIES EpisodesAreAtomic GrantedCompensationResolves
CHECK_DEADLOCK FALSE
