CONSTANTS
  w1 = w1
  w2 = w2
  r1 = r1
  r2 = r2
  a = a
  Writers <- TwoWriters
  Runners <- OneRunner
  Signals <- OneRing
  Conns = {a}
  Cap = 2
  MaxClock = 4
  MaxRuns = 1
  WeaverMayBeMissing = FALSE
SPECIFICATION Spec
INVARIANTS
  FreshUnlessReordered
  InvalidatedNeverShown
CHECK_DEADLOCK FALSE
