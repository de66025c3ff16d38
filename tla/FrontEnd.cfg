SPECIFICATION Spec
CONSTANTS
  Reading <- MCReading
  Sense <- MCSense
  Largest = 40
  StringSize <- MCString
  Pool <- MCPool
INVARIANTS
  DiagnosesAsC
  
  
  OutputSameProgram
CHECK_DEADLOCK FALSE
