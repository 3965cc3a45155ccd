SPECIFICATION Spec
CONSTANTS
  c1 = c1
  c2 = c2
  c3 = c3
  u1 = u1
  u2 = u2
  u3 = u3
  r1 = r1
  r2 = r2
  Conns = {c1}
  Users = {u1}
  Rooms = {r1}
  None = None
  Accounts <- OwnAccount
  Doors <- AnyDoor
  Relogin = FALSE
  InCap = 2
  OutCap = 1
  MaxAccepts = 1
  MaxSends <- ThreeEach
  MaxWakeups = 1
PROPERTY EveryRequestIsRead
CHECK_DEADLOCK FALSE
