SPECIFICATION Spec
CONSTANTS
  Clients = {a, b}
  File <- MCFile
  SendMax = 3
  Buffer = 5
  MaxTyped = 4
INVARIANTS NothingMissing
PROPERTIES Delivered
CHECK_DEADLOCK FALSE
