SPECIFICATION MCSpec
CONSTANTS
  Threads = 3
  Futex = {f1}
  None = None
  Kinds = {"pct"}
  BurnKinds = {"pct"}
  Nesting = 1
  LfLimit = 2
  Depth = 2
  MaxLow = 2
INVARIANTS VerifiesHold
