\* One client and one copy of the file, which is read in parts.
SPECIFICATION Spec
CONSTANTS
  Clients = {a}
  File <- MCFile
  SendMax = 3
  Buffer = 5
  MaxTyped = 2
INVARIANT FileUnbroken
CHECK_DEADLOCK FALSE
