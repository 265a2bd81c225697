CONSTANTS
  Bytes <- MCBytes
  Jobs <- MCJobs
  Nodes <- MCNodes
  Subject = "growing"
  MaxInput = 3
SPECIFICATION Spec
INVARIANT AcceptsPEG
