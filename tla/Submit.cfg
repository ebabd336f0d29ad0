SPECIFICATION FairSpec
CONSTANTS
  Callers = {p1, p2, p3}
  SameKey = {p1, p2}
  Impatient = {p1, p2, p3}
INVARIANTS
  PendingClean
  

  
CHECK_DEADLOCK FALSE
