SPECIFICATION Spec
CONSTANTS
  foo = foo
  bar = bar
  Nl = Nl
  Word <- MCWord
  Files <- MCFiles
  Texts <- MCTexts
  Subs <- MCSubs
  LineSize = 3
  Near = 2
  Far = 1
  MaxLine = 4
  MaxPieces = 5
  MaxEdits = 2
CHECK_DEADLOCK FALSE
INVARIANTS
  ShownAsEdited
  SearchEnds
PROPERTIES
  CountKept
