CONSTANTS
  CommandLines <- MCCommandLines
  Disk <- MCDisk
SPECIFICATION Spec
INVARIANTS
  ExitTellsTruth
  SourcesKept
  TemporariesRemoved

  
CHECK_DEADLOCK FALSE
