SPECIFICATION WriterSpec
CONSTANTS
  MaxPending = 3
  MaxInput = 2
  MaxTyped = 7
INVARIANT KeysInOrder
PROPERTY KeysReachTheShell
CHECK_DEADLOCK FALSE
