CONSTANTS
  Jobs = {j1, j2}
  Keys = {k}
  KeyOf <- SameKey
  Hashes = {"params"}
  HashOf <- SameHash
  Leased = {j1}
  Bounded = {j1}
  Provisioned = {j1}
  Outcomes = {"success", "unmarshalable"}
  Interrupted = {j1}
SPECIFICATION FairSpec
INVARIANTS
  OneTerminal
  RevokedBeforeTerminal
  OneJobPerKey
PROPERTIES
  TerminalFrozen
  
CHECK_DEADLOCK FALSE
