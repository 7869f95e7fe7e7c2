\* Two images of one or two units, frames cut up in every way a connection of two
\* units allows.
CONSTANTS
  Images = 2
  MaxSize = 2
  Sizes = {1, 2}
  NameLength = 2
  Frames = 3
  Room = 2
SPECIFICATION FairSpec
INVARIANT InStep
INVARIANT FitsElement
PROPERTY Mirrors
PROPERTY FramesArrive
PROPERTY ClientEnds
CHECK_DEADLOCK FALSE
