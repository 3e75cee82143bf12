CONSTANTS
  Callers = {c1, c2}
  Senders = {s1, s2}
  Dests = {d1, d2}
  MaxExporters = 2
  MaxAttempts = 1
SPECIFICATION ExportSpec
INVARIANTS
  NeverThroughAStopped
  NoneLeftRunning
PROPERTIES
  ConfigureCompletes
CHECK_DEADLOCK FALSE
