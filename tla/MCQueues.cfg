SPECIFICATION MCSpec
CONSTANTS
  Threads = 3
  Futex = {f1}
  None = None
  Kinds = {"random", "dfs", "dfs_fifo", "pct", "coop"}
  BurnKinds = {"random", "dfs", "dfs_fifo"}
  Nesting = 1
  LfLimit = 2
  Depth = 2
  MaxLow = 2
INVARIANTS VerifiesHold SomeLockFreeThreadRuns
PROPERTIES ImplementsQueue ImplementsScheduler HighestPriorityRuns
