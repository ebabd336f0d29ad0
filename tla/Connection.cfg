SPECIFICATION HeartbeatSpec
CONSTANTS
  Producers = {p1}
  OutboxBuffer = 1
  ReplayCount = 3
  MaxSends = 1
  Heartbeat = TRUE
  Stalls = TRUE
INVARIANT BarrierInv
INVARIANT NoSendOnClosed
PROPERTY ImplementsPipe
PROPERTY TeardownCompletes
PROPERTY BrokenIsTornDown
PROPERTY ReplayFinishes
CHECK_DEADLOCK FALSE
