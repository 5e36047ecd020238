SPECIFICATION MCSpec
INVARIANT FetchesTypeOK
INVARIANT DeniedOnlyIfVoided
INVARIANT BarredOnlyIfRefused
PROPERTY WithdrawnKeyDies
PROPERTY UnknownIsNew
PROPERTY WaitersAreLetGo
CONSTANTS
  None = None
  NoKey = NoKey
  Req = {r1, r2}
  MaxVoid = 2
  MaxRefuse = 1
  Callback = {c1, c2}
  Key = {k1, k2}
