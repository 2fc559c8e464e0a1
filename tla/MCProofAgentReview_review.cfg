CONSTANTS
  security = security
  oversight = oversight
  model = model
  role = role
  audit = audit
  s1 = s1
  s2 = s2
  a1 = a1
  a2 = a2
  Roles = {role}
  Entries = {audit}
  CheckId <- MCCheckId
  Demanded = {audit}
  Controls = {security, oversight}
  NoRule = NoRule
  Rules <- MCRules
  Sessions = {s1, s2}
  Attempts = {a1, a2}
  NoSession = NoSession
  NoEvaluation = NoEvaluation
  Documents = {model}
  Settings <- MCSettings
  Runs <- MCRuns
  Reports <- MCReports
  MaxEdits = 1
SYMMETRY MCSwap
SPECIFICATION Spec
INVARIANTS
  TypeOK
  SummaryFaithful
  ClearMeansReady
PROPERTIES
  TriageOnlyWorsens
CHECK_DEADLOCK FALSE
