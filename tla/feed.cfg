\* Two readers on four elements, one of which may leak a unit.  Five frames take
\* the ring once round and over its first element.
CONSTANTS
  Elements = 4
  Procs   = {w1, r1, r2}
  Writers = {w1}
  Alike   = {r1, r2}
  Budget <- Faults
  Frames  = 5
SPECIFICATION FeedSpec
SYMMETRY Symmetry
INVARIANT SearchSucceeds
INVARIANT NeverWaitsForItself
PROPERTY HandsOutNewer
CHECK_DEADLOCK FALSE
