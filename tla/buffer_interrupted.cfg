\* A signal interrupts one wait; a reader may die before or after it.  With two
\* elements the one the writer can turn to is the one whose value may be off.
CONSTANTS
  Elements = 2
  Procs   = {w1, r1, r2}
  Writers = {w1}
  Alike   = {r1, r2}
  Budget <- Interrupts
SPECIFICATION FairSpec
INVARIANT NoUnitLost
PROPERTY WriterServed
