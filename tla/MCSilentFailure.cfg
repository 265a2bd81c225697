CONSTANTS
  Bytes <- MCBytes
  Jobs <- MCJobs
  Nodes <- MCNodes
  Subject = "unnamed"
  MaxInput = 3
SPECIFICATION Spec
INVARIANT FailureReported
