SPECIFICATION Spec
INVARIANT MirrorConverges
CHECK_DEADLOCK FALSE
SYMMETRY Symmetry
CONSTANTS
  u1 = u1
  None = None
  UserOf <- OneUser
  DeviceOf <- OwnDevice
  User = {u1}
  Session = {s1}
  Grant = {g1, g2}
  Txn = {t1, t2}
  Node = {n1}
  Worker = {w1}
  PremiumNodes = {}
  FreeTTL = 1
  GrantTime = 1
  TokenWindow = 1
  SessionCap = 3
  SubTime = 2
  AdsNeeded = 1
  FreeMax = 1
  PremiumMax = 1
  Horizon = 1
  Provider = "remnawave"
  MaxFault = 0
  MaxLimbo = 0
  MaxCrash = 0
  MaxAdmin = 0
  Batch = 1
  MaxAttempts = 2
