SPECIFICATION FairSpec
CONSTANTS
  r1 = r1
  r2 = r2
  r3 = r3
  N = 4
  MaxPos = 3
  Regs <- ThreeRegs
  Temps <- OneTemp
  Leaf = FALSE
  Modes = {"RA_LS", "RA_LR"}
  RefCounts = {2, 4, 6}
  ParamSets <- NoneOrOneParam
  StackSets <- SomeOnStack
INVARIANTS NoSharedRegister RegistersAccounted
PROPERTIES SpillsCheapest ScanEnds
CHECK_DEADLOCK FALSE
