CONSTANTS
  p1 = p1
  p2 = p2
  x = x
  y = y
  q1 = q1
  q2 = q2
  Procs <- TwoProcs
  Addrs <- OneAddr
  Requests <- TwoRequests
  MaxConns = 2
  MaxStored = 2
SPECIFICATION TrackerSpec
PROPERTIES
  EvictionSparesTheLiving
CHECK_DEADLOCK FALSE
