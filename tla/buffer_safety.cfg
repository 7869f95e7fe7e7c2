\* Two writers and a reader; a writer may die, one destructor runs and a unit is
\* leaked.  The writers may wait for each other, or for themselves.
CONSTANTS
  Elements = 3
  Procs   = {w1, w2, r1}
  Writers = {w1, w2}
  Budget <- Ends
  Alike   = {r1}
SPECIFICATION Spec
INVARIANT TypeOK
INVARIANT UnitsConserved
INVARIANT Exclusion
INVARIANT NeverHoldsCurrent
INVARIANT HandsOutWholeFrames
PROPERTY StableWhileHeld
CHECK_DEADLOCK FALSE
