\* No fault can happen, and an element nobody wrote is handed out.
CONSTANTS
  Elements = 3
  Procs   = {w1, r1}
  Writers = {w1}
  Alike   = {r1}
  Budget <- NoFaults
SPECIFICATION Spec
INVARIANT HandsOutWritten
