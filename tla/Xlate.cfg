SPECIFICATION XlateSpec
CONSTANTS
  MaxLabels = 4
  MaxRefs = 2
  MaxIp = 5
  Conditions <- MCConditions
  TypeOf <- MCTypeOf
  Assignments <- MCFromZero
  Width = 8
  Programs <- MCPrograms
  Allocators = {"RA_EZ", "RA_LR", "RA_LS"}
INVARIANTS OneTargetPerNumber
PROPERTIES EveryBranchLands TranslatedAsMeant
CHECK_DEADLOCK FALSE
