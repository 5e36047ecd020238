SPECIFICATION Spec
INVARIANT TypeOK
INVARIANT FreeAccessIsPaid
INVARIANT PanelNeverAhead
INVARIANT SoleExtensionMirrored
PROPERTY ConsumedOnce
PROPERTY TimeIsBought
PROPERTY ClosedStaysClosed
PROPERTY KeepsContract
CHECK_DEADLOCK FALSE
SYMMETRY Symmetry
CONSTANTS
  u1 = u1
  None = None
  UserOf <- OneUser
  DeviceOf <- OwnDevice
  User = {u1}
  Session = {s1}
  Grant = {g1, g2}
  Txn = {t1, t2}
  Node = {n1}
  Worker = {w1}
  PremiumNodes = {}
  FreeTTL = 1
  GrantTime = 2
  TokenWindow = 1
  SessionCap = 2
  SubTime = 2
  AdsNeeded = 2
  FreeMax = 1
  PremiumMax = 1
  Horizon = 2
  Provider = "rebecca"
  MaxFault = 1
  MaxLimbo = 0
  MaxCrash = 0
  MaxAdmin = 0
  Batch = 1
  MaxAttempts = 2
