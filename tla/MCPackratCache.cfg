CONSTANTS
  Keys = {1, 2, 3}
  Vals = {v1, v2}
  NoVal = NoVal
  Empty = Empty
  Tombstone = Tombstone
  Mix <- MCMix
  InitialCapacity = 2
  MaxCapacity = 8
SPECIFICATION Spec
INVARIANTS TypeOK ProbesEnd Reachable Unique
PROPERTY ImplementsStore
