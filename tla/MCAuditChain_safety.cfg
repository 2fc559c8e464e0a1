SPECIFICATION FairSpec
CONSTANTS
  Calls = {c1, c2, c3, c4}
  Sha256 <- MCSha256
  GENESIS_HASH = "genesis"
  MaxMishaps = 1
INVARIANTS
  TypeOK
  TamperEvident
  CallsAccountedFor
PROPERTIES
  LogSpec
  EveryCallEnds
CHECK_DEADLOCK FALSE
