SPECIFICATION DataSpec
CONSTANTS
  Workers = {w1, w2}
  Entries <- TwoCurrencies
  Costs = {0, 2}
  ChildLeases <- Children
  MaxCalls = 3
  Versions <- NumericVersions
  Jobs = {1, 2, 3}
  Limit = 1
  Filter = {"pending", "running"}
  MaxTime = 1
SYMMETRY Symmetry
INVARIANTS
  Conserved
  ReservedWithinBudget
  
  OverspendAnnounced
  CoversSound
  SegmentsExact
  
  ListedInOrder
  ListedAll
CHECK_DEADLOCK FALSE
