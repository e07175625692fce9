SPECIFICATION FairSpec
CONSTANTS
  r1 = r1
  r2 = r2
  R001 = R001
  R002 = R002
  Requests <- RequestsTwo
  Rules <- RulesTwo
  Plans <- PlansTwo
  SearchLimit <- Searches
  NoPlan = NoPlan
  MaxUsed = 4
  Attempts = 2
  Threshold = 3
INVARIANTS
  OverageBounded
  CallsFollowSearches
  BreakerNeverOpens
PROPERTY
  AdmittedRunsEnd
