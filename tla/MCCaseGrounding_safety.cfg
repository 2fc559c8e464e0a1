SPECIFICATION Spec
CONSTANTS
  c1 = c1
  c2 = c2
  NoDraft = NoDraft
  Policies <- MCPolicies
  Chunk <- MCChunk
  Mapping <- MCMapping
  Jurisdiction = "FR"
  Dates = {2026}
  Forever = 9999
  SearchLimit = 20
  Cases = {c1, c2}
  Profiles <- MCProfiles
  Submissions <- MCSubmissions
  MaxSubmissions = 2
  Rankings <- MCRankings
  Limits = {15, 20}
  Recommendations <- MCRecommendations
INVARIANTS TypeOK RetrievalComplete TrailAccounts
PROPERTIES InformationNarrows CitationSpec
CHECK_DEADLOCK FALSE
