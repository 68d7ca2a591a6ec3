SPECIFICATION Spec
CONSTANTS
  Requests = {r1, r2}
  Users = {u1, u2}
  Emails = {u1, u2, e1}
  NoId = NoId
SYMMETRY Symmetry
INVARIANTS
  OneAccountPerEmail
  AuthorizationHolds
  AccountsInv
CHECK_DEADLOCK FALSE
