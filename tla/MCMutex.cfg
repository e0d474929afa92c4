SPECIFICATION MCSpec
CONSTANTS
  Thread = {t1, t2, t3, t4}
  TimedThread = {t1, t2, t3}
  MaxLocks = 3
  Loc = {locked}
  Locked = locked
  MaxSections = 2
  None = None
INVARIANTS
  WordIsExact
  NoLostWakeup
  SectionsAreOrdered
  NoLostTimedWakeup
PROPERTIES
  ImplementsLock
  LockIsGranted
  ImplementsTimedLock
