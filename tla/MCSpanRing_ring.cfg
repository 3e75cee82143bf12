CONSTANTS
  k1 = k1
  k2 = k2
  a = a
  Keys <- TwoKeys
  Conns = {a}
  Cap = 3
  MaxRevision = 5
  Batches <- ShortBatches
SPECIFICATION RingSpec
INVARIANTS
  IndexIsExact
PROPERTIES
  RingIsALog
CHECK_DEADLOCK FALSE
