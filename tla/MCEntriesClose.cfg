CONSTANTS
  o1 = o1
  o2 = o2
  n1 = n1
  n2 = n2
  k1 = k1
  Name <- Names
  Key <- Keys
  Obj <- Objects
  Fuse = {f1, f2}
  Ctl = ctl
  None = None
  Opened <- OpenedBefore
  ErrorCheck = TRUE
  Commands = 2
  Calls = 3
SPECIFICATION EntriesSpec
INVARIANT EntryStillExists
CHECK_DEADLOCK FALSE
