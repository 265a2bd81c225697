CONSTANTS
  Bytes <- MCBytes
  Jobs <- MCJobs
  Nodes <- MCNodes
  Subject = "tokens"
  MaxInput = 3
SPECIFICATION Spec
INVARIANT PackratAgrees
