SPECIFICATION MCSpec
CONSTANTS
  main = main
  object = object
  worker = worker
  manager = manager
  global = global
  slow = slow
  shared = shared
  cached = cached
  None = None
  Thread = {main, worker}
  Main = main
  Globals <- MCGlobals
  Manager = manager
  Locals = {slow, shared, cached}
  ThreadLocal = {global, cached}
  Slow = {slow, shared}
  Visited <- MCVisited
  Uses <- UsesThreadLocals
  MaxRuns = 2
  Segment = 25
  BootSize = 1
  IndexSize = 1
  IndexCapacity = 6
  StackSize = 4
  Sizes = {0, 3}
  MaxClass = 2
  Initial = 1
  MaxAllocs = 5
INVARIANTS MemoryIsDisjoint BookkeepingIsExact AccessIsExact OnlyLatecomersStay
PROPERTIES ImplementsHeap
CHECK_DEADLOCK FALSE
