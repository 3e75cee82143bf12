CONSTANTS
  w1 = w1
  Telemetry <- NoTelemetry
  ChannelSize = 1
  Cooldowns <- OneCooldown
  MaxNotices = 2
  MaxCommands = 2
SPECIFICATION PushSpec
PROPERTIES
  ValidationStaysLive
CHECK_DEADLOCK FALSE
