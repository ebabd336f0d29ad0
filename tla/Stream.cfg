CONSTANTS
  Jobs = {j1, j2}
  Rotators = {j1, j2}
  EventLogSize = 1
  MaxConns = 2
  MaxSeq = 3
SPECIFICATION Spec
SYMMETRY Symmetry
INVARIANTS
  OneOwner
  SeqsDistinct
  ResumeComplete
CHECK_DEADLOCK FALSE
