SPECIFICATION FairSpec
CONSTANTS
  Sinks = {"sub"}
  Cap = 1
  Timeouts = TRUE
  MaxEvents = 3
PROPERTIES
  OverflowCloses
CHECK_DEADLOCK FALSE
