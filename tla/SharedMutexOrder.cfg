SPECIFICATION Spec
CONSTANTS
  Thread = {t1, t2}
  Loc = {state}
  State = state
  MaxSections = 2
  None = None
INVARIANT SectionsAreOrdered
