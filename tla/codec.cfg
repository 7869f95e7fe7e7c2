\* Words of three pixels and two bytes; frames of less than a word up to more than one.
CONSTANTS
  StepSize = 3
  WordBytes = 2
  Sizes = {1, 2, 3, 4}
  Values = {0, 3, 130}
  Garbage = {9}
  Room = 6
  Frames = 3
SPECIFICATION Spec
INVARIANT TypeOK
INVARIANT FrameAgrees
CHECK_DEADLOCK FALSE
