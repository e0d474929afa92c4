SPECIFICATION MCSpec
CONSTANTS
  t1 = t1
  t2 = t2
  t3 = t3
  Thread <- MCThread
  Main = t1
  Atomic = {a}
  Var = {v}
  Addr = {m}
  MaxEpoch = 3
  None = None
SYMMETRY Symmetry
INVARIANTS
  ClocksAreSound
  NoRaceIsMissed
CHECK_DEADLOCK FALSE
