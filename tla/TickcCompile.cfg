CONSTANTS
  NCspecs = 2
  TC_MAXCALL = 1
  TC_MAXPARAM = 2
  TC_MAXTARG = 1
  max_lab = 6
  Calls = 1
  MaxTargets = 2
  MaxInsn = 4
SPECIFICATION Spec
INVARIANTS
  NothingOutlivesArena
  JumpsReachTheirLabels
  InstructionsKept
PROPERTIES
  EmitsOnlyCompleteParams
CHECK_DEADLOCK FALSE
