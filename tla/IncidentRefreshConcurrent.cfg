SPECIFICATION FairSpec
CONSTANTS
  run1 = run1
  run2 = run2
  run3 = run3
  web = web
  db = db
  x = x
  Runs <- RunsThree
  Cases <- CasesThree
  HighRisk <- HighRiskOne
  RowId <- RowIdByMembers
  ListLimit = 2
INVARIANTS
  MembersCommitted
  UnalertedWereLost
  ShownIncidentsConnected
  FoundersAreNew
PROPERTIES
  LoneRunRepairs
  EveryRunAnswered
