SPECIFICATION FairSpec
CONSTANTS
  Thread = {t1, t2}
  Loc = {locked}
  Locked = locked
  MaxLocks = 2
  None = None
PROPERTY TimedCallsReturn
