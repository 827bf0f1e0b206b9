CONSTANTS
  BYTE = 4
  HALF = 16
  HEXH = 1
  MaxFormat = 6
  MaxWidth = 12
  Chars <- MCChars
  Values <- MCValues
  Text <- MCText
SPECIFICATION Spec
INVARIANTS
  NumberReadsBack
  FieldWidth
  ArgumentsInStep
