SPECIFICATION Spec
CONSTANTS
  Name = {a}
  Inode = {i1}
  NoInode = NoInode
  NoFile = NoFile
  MaxSlot = 9
  MaxLength = 0
  MaxIndex = 12
INVARIANT
  OpenFilesSeekable
CHECK_DEADLOCK FALSE
