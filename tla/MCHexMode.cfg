SPECIFICATION Spec
CONSTANTS
  Byte <- MCByte
  Control <- MCControl
  Digit <- MCDigit
  Code <- MCCode
  Nl <- MCNl
  Texts <- MCTexts
  Inserts <- MCInserts
  PerLine = 2
  MaxBytes = 4
  MaxEdits = 3
CHECK_DEADLOCK FALSE
INVARIANTS
  DumpIsBuffer
PROPERTIES
  TargetReplaced
