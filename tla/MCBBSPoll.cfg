SPECIFICATION Spec
CONSTANTS
  Lines <- MCLines
  Answers <- MCAnswers
  MaxLines = 3
  TornAfter = {3}
  MaxTransactions = 4
INVARIANTS LinesReadBack PassedIffShown
CHECK_DEADLOCK FALSE
