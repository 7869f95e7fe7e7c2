\* Every request of a reader is served, crashes and restarts included.
CONSTANTS
  Elements = 3
  Procs   = {w1, r1, r2}
  Writers = {w1}
  Alike   = {r1, r2}
  Budget <- Crashes
SPECIFICATION FairSpec
PROPERTY ReaderServed
