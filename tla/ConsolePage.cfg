SPECIFICATION ConsoleSpec
CONSTANTS
  w1 = w1
  NoWorker = NoWorker
  Workers <- WorkersOne
  Filters <- FiltersTwo
  NoFilter = ""
  MaxRequests = 3
  MaxTime = 2
  MaxChanges = 1
  Limit = 2
  Window = 1
  Expiry = 1
INVARIANTS
  WindowKept
  ShutOut
  PageMatchesFilter
  OwnSession
PROPERTIES
  RoleLost
  SpinnerEnds
CHECK_DEADLOCK FALSE
