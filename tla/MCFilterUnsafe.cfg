CONSTANTS
  Bytes <- MCBytes
  Jobs <- MCJobs
  Nodes <- MCNodes
  Subject = "filtered"
  MaxInput = 3
SPECIFICATION Spec
INVARIANT FilterIsSafe
