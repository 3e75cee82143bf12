CONSTANTS
  Callers = {c1, c2}
  Batches = {b1}
  Dests = {d1, d2}
  MaxComponents = 2
SPECIFICATION LogsSpec
INVARIANTS
  ForwardedAsReceived
  NothingInFlightAfterReturn
  SendsAreAccounted
PROPERTIES
  LockIsReleased
CHECK_DEADLOCK FALSE
