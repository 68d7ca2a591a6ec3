SPECIFICATION MCSpec
CONSTANTS
  Requests = {r1, r2}
  Users = {u1, u2}
  Jobs = {j1}
  NoId = NoId
INVARIANTS
  OneApplicationPerPerson
  AcceptedIsBacked
  RefusalLeavesOnlyCandidate
  DanglingCvExplained
  EventRefersToApplication
  IndInv
PROPERTIES
  ImplementsLedger
  AcceptedUploadIsQueued
CHECK_DEADLOCK FALSE
