CONSTANTS
  Bytes <- MCBytes
  Inputs <- MCInputs
  Texts <- StartRuleTexts
  Careless = TRUE
SPECIFICATION Spec
INVARIANT SlotsAreDistinct
