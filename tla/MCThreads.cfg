SPECIFICATION MCSpec
CONSTANTS
  Thread = {1, 2, 3, 4}
  Loc = {1, 2, 3, 4}
  Main = 1
  None = None
  GroupThread = {1, 2, 3, 4}
  Joiner = 1
  CvThread = {1, 2, 3}
  Width = 2
  MaxPuts = 4
  RtThread = {1, 2, 3}
  Producer = {1, 2}
  Consumer = {2, 3}
  MaxRtPuts = 2
  Limit = 2
  MaxOps = 2
INVARIANTS
  ObjectLifetime
  JoinSynchronizes
  GroupIsJoined
  NoLostNotify
  NodesAreAlive
PROPERTIES
  AllJoinsReturn
  SuspendedAreResumed
