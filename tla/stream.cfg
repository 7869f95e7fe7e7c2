\* A ring of two elements and a uint32_t of six bits; two Writers, one after the other.
CONSTANTS
  GroupHeader = 1
  ImageHeader = 2
  Modulus = 64
  Elements = {e1, e2}
  Counts = {1, 2}
  Shapes <- SmallShapes
  Writers = 2
  Top = 11
SPECIFICATION Spec
CHECK_DEADLOCK FALSE
INVARIANT TypeOK
INVARIANT ImagesFit
INVARIANT HeadersSurvive
INVARIANT SizeIsOfShape
