SPECIFICATION SignInSpec
INVARIANT SignInTypeOK
INVARIANT OneLivePerFamily
INVARIANT ContainedFamily
INVARIANT LinearLineage
INVARIANT GuessesBounded
INVARIANT RestingTokenLive
PROPERTY DeadFamilyStaysDead
PROPERTY LockHolds
PROPERTY NoFalseAlarm
CHECK_DEADLOCK FALSE
SYMMETRY Symmetry
CONSTANTS
  None = None
  User = {u1}
  Token = {t1, t2, t3}
  Login = {l1, l2}
  Email = {e1}
  MaxFailed = 1
  MaxLapse = 1
  Ask = {a1, a2}
