SPECIFICATION ProgramsSpec
CONSTANTS
  Name = {a, b}
  Inode = {i1, i2}
  NoInode = NoInode
  NoFile = NoFile
  MaxSlot = 4
  MaxLength = 4
  MaxIndex = 9
  Testr = a
  Arrays = {}
PROPERTY
  ReadOnlyRefused
CHECK_DEADLOCK FALSE
