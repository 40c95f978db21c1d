CONSTANTS
  f = f
  g = g
  a = a
  b = b
  Paths = {f, g}
  Logs = {g}
  Texts <- MCTexts
  AtFirst <- MCStart
  Nul = Nul
  NoText = NoText
  LogMin = 0
  MaxTime = 2
  MaxOutside = 2
  MaxActs = 2
  MaxPosted = 2
SPECIFICATION Spec
INVARIANTS
  UnmodifiedIsOnDisk
  EditsKept
CHECK_DEADLOCK FALSE
PROPERTIES
  ChangeShown
