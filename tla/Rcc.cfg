SPECIFICATION Spec
CONSTANTS
  Declared <- Variables
  Families <- Written
  Inputs <- Values
  Counted = "g"
  Fuel = 8
  Allowed = {}
  WalkLimit = 6
INVARIANTS
  ReferencesCounted
  CodeWellFormed
  KeepsMeaning
\* A body that has been emitted is the end of a behaviour.
CHECK_DEADLOCK FALSE
