SPECIFICATION FairSpec
CONSTANTS
  Callers = {p1, p2}
  SameKey = {p1, p2}
  Impatient = {}
PROPERTIES
  RetryReturns
CHECK_DEADLOCK FALSE
