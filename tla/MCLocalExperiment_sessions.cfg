CONSTANTS
  j1 = j1
  j2 = j2
  w1 = w1
  s1 = s1
  s2 = s2
  wide = wide
  narrow = narrow
  plain = plain
  Jobs = {j1, j2}
  Workers = {w1}
  NoWorker = NoWorker
  NoManifest = NoManifest
  NoResult = NoResult
  NoReservation = NoReservation
  NoJob = NoJob
  Manifests = {wide, narrow, plain}
  Configured <- MCConfigured
  Estimate <- MCEstimate
  Ceiling <- MCCeiling
  Evaluator <- MCEvaluator
  Slots = {s1, s2}
  WorkerOf <- MCWorkerOf
  MaxAttempts = 2
  HighestCeiling = 4
  MaxLapses = 1
SPECIFICATION FairSpec
INVARIANTS
  TypeOK
  CommitmentsCovered
  ComparisonsComplete
PROPERTIES
  LedgerSpec
  SessionsSettle
