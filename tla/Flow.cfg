SPECIFICATION Spec
CONSTANTS
  Vars <- MCVars
  Regs = {1, 2}
  Memory = {}
  RefCount <- MCRefCount
  Scripts <- MCScripts
  Modes = {"RA_EZ", "RA_GC", "RA_LR", "RA_LS"}
  Executed = {"RA_EZ", "RA_LR", "RA_LS"}
INVARIANTS LiveExact ReadsAgree NeighboursDiffer
PROPERTIES PassesEnd
CHECK_DEADLOCK FALSE
