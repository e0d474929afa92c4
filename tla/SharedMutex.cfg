SPECIFICATION FairSpec
CONSTANTS
  Thread = {t1, t2, t3}
  Loc = {state}
  State = state
  MaxSections = 2
  None = None
INVARIANTS
  StateGuidesWakeups
  NoLostWakeup
PROPERTIES
  ImplementsLock
  LockIsGranted
