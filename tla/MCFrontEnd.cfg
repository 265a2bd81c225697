CONSTANTS
  Bytes <- MCBytes
  Inputs <- MCInputs
  Texts <- MCTexts
  Careless = FALSE
SPECIFICATION Spec
INVARIANTS HeldIsUsable DamagedIsRefused CapturesAreOwn SlotsAreDistinct SimpleEnds LoopsAreReal
PROPERTY RestoredIsSaved
