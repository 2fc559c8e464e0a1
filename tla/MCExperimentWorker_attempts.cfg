CONSTANTS
  j1 = j1
  j2 = j2
  w1 = w1
  w2 = w2
  s1 = s1
  s2 = s2
  s3 = s3
  Jobs = {j1, j2}
  Workers = {w1, w2}
  NoWorker = NoWorker
  NoResult = NoResult
  NoJob = NoJob
  Slots = {s1, s2}
  WorkerOf <- MCWorkerOf
  Estimate <- MCEstimate
  Ceiling = 700
  MaxAttempts = 1
  ClaimBound = 2
  HeartbeatsTimely = TRUE
  MaxMishaps = 1
SPECIFICATION Spec
INVARIANTS
  AttemptsWithinLimit
