SPECIFICATION HeartbeatSpec
CONSTANTS
  Producers = {p1}
  OutboxBuffer = 1
  ReplayCount = 1
  MaxSends = 0
  Heartbeat = TRUE
  Stalls = TRUE
PROPERTY SilentIsTornDown
CHECK_DEADLOCK FALSE
