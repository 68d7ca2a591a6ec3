SPECIFICATION Spec
CONSTANTS
  LastRow = 3
  MaxLimit = 2
  MaxWrites = 2
INVARIANTS
  ScopeInv
  QueriesAgree
  WalkIsComplete
  OwnApplicationsOnly
  TrendsCountEverybody
CHECK_DEADLOCK FALSE
