\* Two requests race for one event id in a filesystem archive, with faults, and a consumer follows.
SPECIFICATION Spec
\* The service may stand idle: every row inserted, nobody asking.
CHECK_DEADLOCK FALSE
SYMMETRY HandlerSymmetry
CONSTANTS
  None = None
  i1 = i1
  i2 = i2
  p1 = p1
  p2 = p2
  near = near
  far = far
  forged = forged
  EventIds = {i1}
  Envelopes <- Rivals
  Adapter = "filesystem"
  Handlers = {h1, h2}
  Runners = {}
  Consumers = {c1}
  MaxCursor = 2
  Faults = TRUE
  RetentionFaults = FALSE
  RetentionLimit = 1
  AskedLimits <- LimitsAsked
  Wanted <- Everything
  DefaultLimit = 1
  MaxLimit = 3
  LedgerMaxLimit = 2
  RequirePayloadHash = TRUE
  RequireEventHash = TRUE
  RejectHashConflicts = FALSE
INVARIANTS
  LedgerFirstInv
  OneEnvelopePerEvent
  StoredIsArchived
  DeliveredOnce
PROPERTIES
  KeepsPromise
