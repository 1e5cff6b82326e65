\* One request at a time, a retention command and a consumer that filters by name.
SPECIFICATION Spec
\* The service may stand idle: every row inserted, nobody asking.
CHECK_DEADLOCK FALSE
CONSTANTS
  None = None
  i1 = i1
  i2 = i2
  p1 = p1
  p2 = p2
  near = near
  far = far
  forged = forged
  EventIds = {i1, i2}
  Envelopes <- TwoEvents
  Adapter = "filesystem"
  Handlers = {h1}
  Runners = {r1}
  Consumers = {c1}
  MaxCursor = 3
  Faults = FALSE
  RetentionFaults = FALSE
  RetentionLimit = 2
  AskedLimits <- LimitsAsked
  Wanted <- OneName
  DefaultLimit = 1
  MaxLimit = 3
  LedgerMaxLimit = 2
  RequirePayloadHash = TRUE
  RequireEventHash = TRUE
  RejectHashConflicts = FALSE
INVARIANTS
  TypeOK
  NothingIsSkipped
  DeliveredIsArchived
PROPERTIES
  ConsumersCatchUp
