SPECIFICATION Spec
CONSTANTS
  File = {"f"}
  Line = {1, 2, 3}
  Code <- MCCode
  Kind = {"gdb", "lldb"}
  MaxCommands = 5
  MaxNumber = 4
CHECK_DEADLOCK FALSE
INVARIANTS
  InStep
  SetAgain
