SPECIFICATION Spec
CONSTANTS
  r1 = r1
  r2 = r2
  Requests = {r1, r2}
  MaxRequests = 4
  MaxErrors = 0
  MaxOutages = 0
INVARIANT HardBlockHolds
CHECK_DEADLOCK FALSE
