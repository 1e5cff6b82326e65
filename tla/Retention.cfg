\* One retention command beside two requests, over rows that may disagree with the archive.
SPECIFICATION Spec
\* The service may stand idle: every row inserted, nobody asking.
CHECK_DEADLOCK FALSE
SYMMETRY HandlerSymmetry
CONSTANTS
  None = None
  i1 = i1
  i2 = i2
  p1 = p1
  p2 = p2
  near = near
  far = far
  forged = forged
  EventIds = {i1, i2}
  Envelopes <- TwoEvents
  Adapter = "filesystem"
  Handlers = {h1, h2}
  Runners = {r1}
  Consumers = {}
  MaxCursor = 2
  Faults = FALSE
  RetentionFaults = TRUE
  RetentionLimit = 2
  AskedLimits <- LimitsAsked
  Wanted <- Everything
  DefaultLimit = 1
  MaxLimit = 3
  LedgerMaxLimit = 2
  RequirePayloadHash = TRUE
  RequireEventHash = TRUE
  RejectHashConflicts = FALSE
INVARIANTS
  DeletedIsBelowFloor
PROPERTIES
  FloorIsMonotone
  DeletedIsArchived
