CONSTANTS
  g1 = g1  g2 = g2  u1 = u1  u2 = u2
  Gnb = {g1, g2}
  UE = {u1}
  SessId = {1}
  Nil = Nil
  NextGnb <- Ring
  HomeGnb <- OneHome
  Timers <- N2Idle
  AmfMayFail = FALSE
  MaxCtx = 3
  MaxConn = 3
  MaxRan = 3
  MaxTeid = 2
  MaxN2 = 1
SPECIFICATION Spec
CHECK_DEADLOCK FALSE
INVARIANT PoolsAgree
