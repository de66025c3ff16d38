SPECIFICATION Spec
CONSTANTS
  Declared <- Variables
  Families <- OnlyComparisons
  Inputs <- Values
  Counted = "g"
  Fuel = 8
  Allowed = {"compare"}
  WalkLimit = 6
INVARIANT KeepsMeaning
\* A body that has been emitted is the end of a behaviour.
CHECK_DEADLOCK FALSE
