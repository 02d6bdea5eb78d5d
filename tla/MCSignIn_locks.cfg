SPECIFICATION Spec
CONSTANTS
  User = {ana}
  Browser = {b1}
  Request = {r1, r2}
  LoginMax = 2
  PinMax = 2
  ScreenMax = 3
  Window = 2
  MaxCount = 3
  None = None
INVARIANT SignInTypeOK
PROPERTIES LockHolds LockoutsEnd
