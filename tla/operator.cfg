SPECIFICATION Spec
INVARIANT CleanupMatchesStatus
INVARIANT ConcurrencyLimit
INVARIANT LiveUserServed
CHECK_DEADLOCK FALSE
SYMMETRY Symmetry
CONSTANTS
  u1 = u1
  None = None
  UserOf <- OneUser
  DeviceOf <- OneDevice
  User = {u1}
  Session = {s1, s2}
  Grant = {g1}
  Txn = {}
  Node = {n1}
  Worker = {w1}
  PremiumNodes = {}
  FreeTTL = 1
  GrantTime = 1
  TokenWindow = 1
  SessionCap = 2
  SubTime = 1
  AdsNeeded = 1
  FreeMax = 1
  PremiumMax = 2
  Horizon = 1
  Provider = "rebecca"
  MaxFault = 0
  MaxLimbo = 0
  MaxCrash = 0
  MaxAdmin = 2
  Batch = 1
  MaxAttempts = 2
