SPECIFICATION FairSpec
CONSTANTS
  r1 = r1
  r2 = r2
  Requests = {r1, r2}
  MaxRequests = 3
  MaxErrors = 1
  MaxOutages = 1
INVARIANTS TypeOK RestIsResumable
PROPERTIES GateSpec BlockAtRestHolds ComesToRest
CHECK_DEADLOCK FALSE
