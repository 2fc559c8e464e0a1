SPECIFICATION FairSpec
CONSTANTS
  ann = ann
  bob = bob
  root = root
  kim = kim
  t1 = t1
  t2 = t2
  k1 = k1
  Actors = {ann, bob, root, kim}
  Roles <- MCRoles
  Tenant <- MCTenant
  Keys = {k1}
  Handlers = 2
  Nobody = Nobody
  MaxCases = 2
  MaxJobs = 2
  JobLimit = 1
  PruneBatch = 1
  MaxRequests = 3
  MaxOutages = 1
INVARIANTS TypeOK ProgressSound IndependentReview StartedOnce StageShown CacheFresh AccessAsDocumented
PROPERTIES ReviewerStays JobsEnd
CHECK_DEADLOCK FALSE
