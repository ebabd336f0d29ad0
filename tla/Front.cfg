SPECIFICATION HttpFairSpec
CONSTANTS
  Conns = {c1, c2}
  HttpConns = {c1}
  Closers = {k1, k2}
  Shutters = {d1}
INVARIANTS
  NothingAfterClose
  DrainedIsGone
  NoLostWakeup
PROPERTIES
  CloseReturns
CHECK_DEADLOCK FALSE
