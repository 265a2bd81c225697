CONSTANTS
  Bytes <- MCBytes
  Jobs <- AllJobs
  Nodes <- AllNodes
  MaxInput = 3
SPECIFICATION FairSpec
INVARIANTS TypeOK InsideInput Balanced ResultIsPEG MemoIsPEG FurthestFailure ExpectedIsAbsent FailureReported
PROPERTIES ParsedOnce Returns
