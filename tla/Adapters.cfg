\* Two calls race for one event id in either archive, with faults.
SPECIFICATION Spec
CHECK_DEADLOCK FALSE
CONSTANTS
  None = None
  Torn = Torn
  i1 = i1
  p1 = p1
  p2 = p2
  near = near
  far = far
  EventIds = {i1}
  Envelopes <- Contents
  Writers = {w1, w2}
  RequirePayloadHash = TRUE
  RequireEventHash = TRUE
INVARIANTS
  TypeOK
PROPERTIES
  WritesAreAtomic
  WritesEnd
