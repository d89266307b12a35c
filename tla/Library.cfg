SPECIFICATION MCSpec
CONSTANTS
  i1 = i1
  i2 = i2
  i3 = i3
  i4 = i4
  e1 = e1
  e2 = e2
  e3 = e3
  e4 = e4
  v1 = v1
  v2 = v2
  NULL = NULL
  Item = {i1, i2, i3, i4}
  KeyOf <- Keys
  Element = {e1, e2, e3, e4}
  Thread = {"main", "t1", "t2"}
  Main = "main"
  Hosts = {"DECMIPS", "SPARC", "PARISC", "x86", "ApplePowerPC", "PowerPC", "ALPHA"}
  UserThread = {"main", "t1"}
  NumTotalRegs = 2
  Name = {v1}
  Inode = {v2}
  Object = {e1, e2}
  Byte = {i1, i2}
  NUL = i1
  NoFile = NULL
  Fd = {3, 4, 5}
  Size = {1, 2}
  MaxLength = 2
INVARIANTS
  ContainersExact
  ThreadsKeepRegisters
  ThreadsStartRight
PROPERTIES
  ImplementsSequence
  ImplementsFiles
CHECK_DEADLOCK FALSE
