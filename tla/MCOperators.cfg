CONSTANTS
  Scalars <- MCScalars
  Behind <- MCBehind
  Repetitions <- MCRepetitions
  MaxText = 3
SPECIFICATION MCSpec
INVARIANTS CodePointsAreRead LinesAndColumns SpanIsRepetition ComplementIsNegation DictionaryIsChoice ChoiceIsWordInOrder GuardIsSequence EscapesStandAlone PrecedenceGroups
