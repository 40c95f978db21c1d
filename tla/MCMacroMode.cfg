SPECIFICATION Spec
CONSTANTS
  a = a
  A = A
  long = long
  NoName = NoName
  Absent = Absent
  Name <- MCName
  Appends <- MCAppends
  Long <- MCLong
  Fold <- MCFold
  Variables <- MCVariables
  Typed <- MCTyped
  Texts <- MCTexts
  MaxRepeat = 2
  MaxDepth = 2
CONSTRAINT Bounded
INVARIANTS
  RecordedIsTyped
  FlagEnds
  FlagHolds
  Documented
