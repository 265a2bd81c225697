CONSTANTS
  Bytes <- MCBytes
  Inputs <- MCInputs
  Texts <- EndlessTexts
  Careless = FALSE
SPECIFICATION Spec
INVARIANT AcceptedEnds
