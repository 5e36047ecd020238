SPECIFICATION Spec
INVARIANT ClosedUserReclaimable
CHECK_DEADLOCK FALSE
SYMMETRY Symmetry
CONSTANTS
  u1 = u1
  None = None
  UserOf <- OneUser
  DeviceOf <- OwnDevice
  User = {u1}
  Session = {s1}
  Grant = {g1}
  Txn = {}
  Node = {n1}
  Worker = {w1}
  PremiumNodes = {}
  FreeTTL = 1
  GrantTime = 1
  TokenWindow = 1
  SessionCap = 2
  SubTime = 2
  AdsNeeded = 1
  FreeMax = 1
  PremiumMax = 1
  Horizon = 1
  Provider = "rebecca"
  MaxFault = 0
  MaxLimbo = 1
  MaxCrash = 0
  MaxAdmin = 1
  Batch = 1
  MaxAttempts = 2
