SPECIFICATION FairSpec
CONSTANTS
  Conns = {c1, c2}
  Tasks = {t1, t2}
  NoConn = NoConn
  MaxAttempt = 3
  MaxFaults = 4
INVARIANTS
  QueueInv
  SingleDriver
  NoLeakedConnection
  HealthyIsOpen
  HealthyIsRouted
PROPERTIES
  NoConnectAfterDestroy
  EventuallyReady
CHECK_DEADLOCK FALSE
