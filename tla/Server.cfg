\* Requests publish, streams come and go, and the server is stopped.
SPECIFICATION FairSpec
\* A server that is down stays down.
CHECK_DEADLOCK FALSE
CONSTANTS
  Streams = {s1, s2}
  Requests = {r1, r2}
  BatchSize <- OneEach
  QueueSize = 1
  HistorySize = 1
INVARIANTS
  TypeOK
  RegisteredIsOpen
  ExactlyOnce
PROPERTIES
  ShutdownDrains
