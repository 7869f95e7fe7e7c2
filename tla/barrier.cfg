\* One thread more than parties, so that a thread slow to leave is lapped.
CONSTANTS
  Threads   = {t1, t2, t3, t4}
  Threshold = 3
  Width     = 5
  Rounds    = 4
SPECIFICATION FairSpec
INVARIANT TypeOK
INVARIANT NobodyOversleeps
PROPERTY MeetsRendezvous
PROPERTY ImplementsRendezvous
CHECK_DEADLOCK FALSE
