SPECIFICATION Spec
CONSTANTS
  Requests = {r1, r2, r3}
  NoToken = NoToken
  EmptyId = EmptyId
SYMMETRY Symmetry
INVARIANT LogoutEndsSession
CHECK_DEADLOCK FALSE
