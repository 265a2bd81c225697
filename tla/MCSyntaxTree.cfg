CONSTANTS
  Jobs <- MCJobs
  Bytes <- MCBytes
  MaxInput = 3
  MaxOptimize = 2
SPECIFICATION Spec
CHECK_DEADLOCK FALSE
INVARIANTS TreesLinked ExtentsNest OptimizeKeeps
PROPERTY OriginalStands
