\* Each of the three classes.
CONSTANTS
  Kinds = {"ThreadObject", "Server", "Client"}
SPECIFICATION FairSpec
INVARIANT NeverAborts
INVARIANT Restartable
PROPERTY StopEnds
CHECK_DEADLOCK FALSE
