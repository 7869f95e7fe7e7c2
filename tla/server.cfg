\* Three connections; the listening socket, a socket and the memory for the first of them,
\* and a socket for the second use up the four descriptors.
CONSTANTS
  Connections = 3
  Descriptors = 4
SPECIFICATION FairSpec
INVARIANT OwnConnection
INVARIANT NoConnectionForgotten
INVARIANT SurvivesUnless
PROPERTY StopEnds
PROPERTY ClientServed
CHECK_DEADLOCK FALSE
