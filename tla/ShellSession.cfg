SPECIFICATION SessionSpec
CONSTANTS
  MaxLength = 4
  MaxWordLength = 6
  Texts <- MCTexts
  Lines <- MCLines
  MaxLines = 3
  Codes = {0, 1}
INVARIANTS ModeTellsOperatorAndCode ReadsAsBash
PROPERTY ImplementsShellRule
CHECK_DEADLOCK FALSE
