SPECIFICATION FairSpec
CONSTANTS
  Sinks = {"handle", "sub"}
  Cap = 1
  Timeouts = TRUE
  MaxEvents = 2
INVARIANTS
  BarrierInv
  SendBarrier
  OneCloser
  NothingMissing
PROPERTIES
  CloseReturns
  ChannelsClose
  
CHECK_DEADLOCK FALSE
