SPECIFICATION Spec
CONSTANTS
  ByteBits = 2
  Programs <- MCPrograms
  Allowed = {}
INVARIANTS TypeOK
PROPERTIES ImplementsVcode
CHECK_DEADLOCK FALSE
