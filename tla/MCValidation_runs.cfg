CONSTANTS
  w1 = w1
  w2 = w2
  r1 = r1
  r2 = r2
  a = a
  Writers <- OneWriter
  Runners <- TwoRunners
  Signals <- OneRing
  Conns = {}
  Cap = 1
  MaxClock = 3
  MaxRuns = 2
  WeaverMayBeMissing = TRUE
SPECIFICATION Spec
INVARIANTS
  CancelledNeverKept
PROPERTIES
  RunsFollowLedger
  RunsSettle
CHECK_DEADLOCK FALSE
