SPECIFICATION Spec
CONSTANTS
  Runs = {r1, r2}
  Entries = {e1}
  Other = Other
  NoId = NoId
  MaxTouches = 2
SYMMETRY Symmetry
INVARIANTS
  NoDuplicates
  CompletedRunRestores
CHECK_DEADLOCK FALSE
