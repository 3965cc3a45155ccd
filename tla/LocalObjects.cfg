SPECIFICATION FairSpec
CONSTANTS
  Fibers = {f1, f2, f3}
  None = None
INVARIANTS TypeOK FreeMeansNobodyWaits GrantIsNoticed CountIsExact PermitsConserved NoIdlePermit FrontExists NoIdleObject
PROPERTIES ImplementsLock ImplementsRWLock WaitersAreServed
CHECK_DEADLOCK FALSE
