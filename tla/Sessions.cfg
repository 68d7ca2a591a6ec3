SPECIFICATION Spec
CONSTANTS
  Requests = {r1, r2, r3, r4}
  NoToken = NoToken
  EmptyId = EmptyId
SYMMETRY Symmetry
INVARIANTS
  RetiredStaysRetired
  StaleRefreshRefused
  SessionInv
CHECK_DEADLOCK FALSE
