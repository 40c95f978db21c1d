SPECIFICATION Spec
CONSTANTS
  p = p
  q = q
  Char <- MCChar
  Regs <- MCRegs
  Clips <- MCClips
  Opens <- MCOpens
  Histories <- MCHistories
  Inputs <- MCInputs
  Places <- MCPlaces
  MaxText = 4
  MaxKeys = 6
SYMMETRY MCSymmetry
CHECK_DEADLOCK FALSE
INVARIANTS
  ShownIsCommand
  GivenIsShown
  FindIsSearched
  EscapeReturns
