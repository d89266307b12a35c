SPECIFICATION MCSpec
CONSTANTS
  a = a
  b = b
  i1 = i1
  i2 = i2
  i3 = i3
  Name = {a, b}
  Inode = {i1, i2, i3}
  NoInode = NoInode
  NoFile = NoFile
  MaxSlot = 4
  MaxLength = 4
  MaxIndex = 9
  Testr = a
  Arrays <- ArraysToSort
INVARIANT
  ProgramsExact
PROPERTIES
  CallsContained
CHECK_DEADLOCK FALSE
