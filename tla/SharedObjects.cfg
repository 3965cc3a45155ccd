SPECIFICATION Spec
CONSTANTS
  f1 = f1
  f2 = f2
  f3 = f3
  t1 = t1
  t2 = t2
  m1 = m1
  m2 = m2
  m3 = m3
  Threads = {t1, t2}
  Fibers = {f1, f2, f3}
  Home <- HomeOf
  Solos = {s1}
  None = None
  Mutexes <- Three
  MaxWakeups = 1
  MaxPending = 2
  Victims = {f1}
  Users = {f1, f2, s1}
  Hurries = {{}, {f1, s1}}
  MaxMail = 2
  MaxPush = 2
INVARIANTS TypeOK NoLostWakeup NobodyIsForgotten WakeupsAreForWaiters NeverCorrupt NoMissedDeadlock WaitersAreWaiting PoppedAreWoken TimersAreForWaiters NoIdleObject
PROPERTIES ImplementsLock PopReturnsObject
CHECK_DEADLOCK FALSE
