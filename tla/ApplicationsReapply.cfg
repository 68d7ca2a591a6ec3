SPECIFICATION Spec
CONSTANTS
  Requests = {r1, r2}
  Users = {u1}
  Jobs = {j1}
  NoId = NoId
PROPERTY DuplicateCheckAgreesWithIndex
CHECK_DEADLOCK FALSE
