CONSTANTS
  Bytes <- MCBytes
  Jobs <- AllJobs
  Nodes <- AllNodes
  MaxInput = 3
SPECIFICATION FairSpec
INVARIANTS Balanced NoReentry DetectedIsPEG
PROPERTIES SeedsGrow Returns
