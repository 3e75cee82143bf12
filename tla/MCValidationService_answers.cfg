CONSTANTS
  w1 = w1
  c1 = c1
  c2 = c2
  Writers <- OneWriter
  Runners <- TwoClients
  Signals <- OneRing
  Conns = {}
  Cap = 1
  MaxClock = 3
  MaxRuns = 2
  MaxCalls = 3
  WeaverMayBeMissing = FALSE
SPECIFICATION ServiceSpec
INVARIANTS
  AnswersAreSound
SYMMETRY ClientSymmetry
CHECK_DEADLOCK FALSE
