CONSTANTS
  w1 = w1
  Telemetry <- TwoTelemetry
  ChannelSize = 1
  Cooldowns <- OneCooldown
  MaxNotices = 2
  MaxCommands = 3
SPECIFICATION PushSpec
INVARIANTS
  PutOffIsOwed
PROPERTIES
  BrowserCatchesUp
  PausedIsAnnounced
CHECK_DEADLOCK FALSE
