\* Two background starts on one port and two stops.
SPECIFICATION FairSpec
\* Commands and servers end.
CHECK_DEADLOCK FALSE
CONSTANTS
  Starts = {c1, c2}
  Stops = {k1, k2}
  NoPid = NoPid
  Garbled = Garbled
INVARIANTS
  FailedStartLeavesNoServer
  StartedServerListened
PROPERTIES
  StartEnds
  StopEnds
