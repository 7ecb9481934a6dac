CONSTANTS
  a1 = a1  a2 = a2  i1 = i1  i2 = i2  i3 = i3  u1 = u1
  Ip = {i1, i2, i3}
  Amf = {a1, a2}
  AmfOf <- Endpoints
  Configured <- BothConfigured
  Ue = {u1}
  Weight = {1}
  Nil = Nil
  Procedures = {"add", "update", "removeOther", "status"}
  Overlaps = {}
  MaxObj = 3
  MaxProc = 3
  MaxLost = 1
SPECIFICATION Spec
CHECK_DEADLOCK FALSE
INVARIANT Served
