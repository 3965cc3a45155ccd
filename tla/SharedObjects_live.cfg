SPECIFICATION FairSpec
CONSTANTS
  f1 = f1
  f2 = f2
  f3 = f3
  t1 = t1
  t2 = t2
  m1 = m1
  m2 = m2
  m3 = m3
  Threads = {t1, t2}
  Fibers = {f1, f3}
  Home <- HomeOf
  Solos = {s1}
  None = None
  Mutexes <- One
  MaxWakeups = 1
  MaxPending = 2
  Victims = {f1}
  Users = {f1, s1}
  Hurries = {{}, {f1, s1}}
  MaxMail = 2
  MaxPush = 1
PROPERTY FreeIsTaken
CHECK_DEADLOCK FALSE
