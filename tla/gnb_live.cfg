CONSTANTS
  g1 = g1  g2 = g2  u1 = u1  u2 = u2
  Gnb = {g1, g2}
  UE = {u1}
  SessId = {1}
  Nil = Nil
  NextGnb <- Ring
  HomeGnb <- OneHome
  Timers <- XnOnly
  AmfMayFail = TRUE
  MaxCtx = 2
  MaxConn = 2
  MaxRan = 2
  MaxTeid = 1
  MaxN2 = 1
SPECIFICATION FairSpec
CHECK_DEADLOCK FALSE
PROPERTY ConnAnswered
