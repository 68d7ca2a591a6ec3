SPECIFICATION FairSpec
CONSTANTS
  Conns = {c1, c2}
  Tasks = {t1, t2}
  NoConn = NoConn
  MaxAttempt = 3
  MaxFaults = 4
PROPERTY TopologyIsShared
CHECK_DEADLOCK FALSE
