SPECIFICATION Spec
CONSTANTS
  MaxAdds = 7
  MaxSize = 6
  Instant = {1, 2}
  None = None
INVARIANTS
  MinIsOnTop
CHECK_DEADLOCK FALSE
