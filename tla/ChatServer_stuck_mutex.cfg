SPECIFICATION FairSpec
CONSTANTS
  c1 = c1
  c2 = c2
  c3 = c3
  u1 = u1
  u2 = u2
  u3 = u3
  r1 = r1
  r2 = r2
  Conns = {c1, c2}
  Users = {u1, u2}
  Rooms = {r1}
  None = None
  Accounts <- OwnAccount
  Doors <- AnyDoor
  Relogin = TRUE
  InCap = 1
  OutCap = 1
  MaxAccepts = 2
  MaxSends <- ThreeEach
  MaxWakeups = 1
CONSTRAINT OneAfterAnother
PROPERTY MutexIsReleased
CHECK_DEADLOCK FALSE
