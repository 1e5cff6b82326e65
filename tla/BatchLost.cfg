\* A stream leaves while a batch is being published.
SPECIFICATION Spec
\* A server that is down stays down.
CHECK_DEADLOCK FALSE
CONSTANTS
  Streams = {s1}
  Requests = {r1}
  BatchSize <- TwoAndOne
  QueueSize = 1
  HistorySize = 1
INVARIANTS
  OneResultPerEvent
