SPECIFICATION Spec
CONSTANTS
  Requests = {r1}
  Users = {u1}
  Jobs = {j1}
  NoId = NoId
INVARIANT RefusedIsNotQueued
CHECK_DEADLOCK FALSE
