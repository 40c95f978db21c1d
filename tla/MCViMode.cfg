SPECIFICATION Spec
CONSTANTS
  Users <- MCUsers
  MaxPrefix = 3
  MaxLost = 1
  MaxDepth = 5
INVARIANTS
  UndoBalanced
  RepeatsInsertion
  EscapesLead
  InsertedIsKept
PROPERTIES
  CommandEnds
