\* Two creators and an opener; one process dies anywhere and comes back, one ftruncate fails.
CONSTANTS
  Procs    = {a, b, c}
  Creators = {a, b}
  Elements = 2
  Polls    = 2
  MaxCrashes  = 1
  MaxRefusals = 1
SPECIFICATION FairSpec
INVARIANT TypeOK
INVARIANT FreedOnce
INVARIANT AloneOnlyIfEarly
INVARIANT LateIsSynchronised
PROPERTY AttemptEnds
CHECK_DEADLOCK FALSE
