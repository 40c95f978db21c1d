SPECIFICATION Spec
CONSTANTS
  Char <- MCChar
  Files <- MCFiles
  Clips <- MCClips
  Histories <- MCHistories
  Setups <- MCSetups
  MaxKeys = 4
  MaxOutput = 1
CHECK_DEADLOCK FALSE
INVARIANTS
  CommandIsShown
PROPERTIES
  OutputKept
