SPECIFICATION MCSpec
CONSTANTS
  Hosts = {"codex"}
  Sessions = {"s1", "s2"}
  Pids = {1, 2}
  MaxVersion = 2
  CutOver = 2
  MaxStarts = 2
  MaxSessions = 2
  MaxChanges = 2
  Attempts = 3
  MaxFaults = 2
  MaxRelease = 3
  MaxEdits = 2
  MaxCrashes = 1
  FileSystems <- SmallFileSystems
CHECK_DEADLOCK FALSE
INVARIANTS
  SignalsOnlyOwn
  RecordsAreTrue
  OnlyPinnedRuns
  OfferedPluginIsWhole
  HookRules
PROPERTIES
  HooksEnd
