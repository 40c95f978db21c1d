SPECIFICATION Spec
CONSTANTS
  Order <- MCOrder
  Tab <- MCTab
  Amp <- MCAmp
  Nl <- MCNl
  Texts <- MCTexts
  Addresses <- MCAddresses
  Globals <- MCGlobals
  Inserts <- MCInserts
  Subs <- MCSubs
  Nested <- MCNested
  NestedSub <- MCNestedSub
  MaxPieces = 9
  MaxHits = 3
  MaxCommands = 2
  MaxRounds = 10
CHECK_DEADLOCK FALSE
INVARIANTS
  GlobalEnds
PROPERTIES
  Erases
  LinesKept
  Substitutes
  GlobalErases
