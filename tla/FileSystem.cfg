SPECIFICATION Spec
CONSTANTS
  NumSectors = 10
  SectorSize = 2
  NumDirEntries = 2
  FileNameMaxLen = 2
  NumDirect = 2
  MapLength = 2
  DirLength = 4
  CellSector <- Cells
  TransferSize = 3
  Name <- Names
  UnixFile <- UnixFiles
  Patch <- Patches
INVARIANTS
  FreeMapExact
  FilesKept
PROPERTIES
  AbortsOnlyWhenTorn
CHECK_DEADLOCK FALSE
