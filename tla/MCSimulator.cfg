SPECIFICATION FairSpec
CONSTANTS
  t1 = t1
  t2 = t2
  t3 = t3
  Thread <- MCThread
  Main = t1
  Loc = {l1, l2}
  Deadline <- MCDeadline
  Tick = 2
  MaintenancePeriod = 2
  None = None
INVARIANTS
  QueuesAgree
  NoThreadIsLost
  DeadlockIsValid
  EndsClean
  TimersAreNotLate
PROPERTIES
  TimersFire
