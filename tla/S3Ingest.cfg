\* Two requests race for one event id in an S3 archive, calls fail, puts arrive late, processes die, and retention drops rows under them.
SPECIFICATION Spec
\* The service may stand idle: every row inserted, nobody asking.
CHECK_DEADLOCK FALSE
SYMMETRY HandlerSymmetry
CONSTANTS
  None = None
  i1 = i1
  i2 = i2
  p1 = p1
  p2 = p2
  near = near
  far = far
  forged = forged
  EventIds = {i1}
  Envelopes <- PairAndForged
  Adapter = "s3"
  Handlers = {h1, h2}
  Runners = {r1}
  Consumers = {}
  MaxCursor = 2
  Faults = TRUE
  RetentionFaults = TRUE
  RetentionLimit = 1
  AskedLimits <- LimitsAsked
  Wanted <- Everything
  DefaultLimit = 1
  MaxLimit = 3
  LedgerMaxLimit = 2
  RequirePayloadHash = TRUE
  RequireEventHash = TRUE
  RejectHashConflicts = FALSE
INVARIANTS
  ArchiveFirstInv
  OneEnvelopePerEvent
  StoredIsArchived
  AckIsArchived
  ConflictIsNotArchived
  AuditIsArchived
PROPERTIES
  KeepsPromise
