SPECIFICATION Spec
CONSTANTS
  Programs <- AllPrograms
  Params <- AllParams
  Unlimited = Unlimited
  None = None
INVARIANTS EveryInterleavingOnce EveryBranchIsTaken FailuresAreReplayed
PROPERTIES ExplorationEnds
