SPECIFICATION FairSpec
CONSTANTS
  Logins = {l1, l2, l3}
  MaxAttempts = 3
INVARIANTS
  TypeOK
  OvershootIsBounded
  CounterWillExpire
PROPERTY LockIsLifted
