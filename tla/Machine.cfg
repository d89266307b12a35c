SPECIFICATION UserSpec
CONSTANTS
  ByteBits = 1
  PageSize = 4
  NumPhysPages = 4
  GPReg = {0, 1, 2, 3, 29, 31}
  ShiftBits = 2
  JumpBits = 1
  UserStackSize = 6
  StackMargin = 4
  StackReg = 29
  NOFFMAGIC = 2
  Layout <- Layouts
  Preset <- Presets
  Operands <- Operand
  Program <- Programs
  Tables <- TableSet
  Probe <- Probes
  MaxSteps = 2
  t1 = t1
  t2 = t2
  char1 = char1
  char2 = char2
  Thread = {t1, t2}
  NoThread = NoThread
  Char = {char1, char2}
  EOF = EOF
  Script <- TwoChars
  MaxReads = 3
  MaxWrites = 3
  IntBits = 4
  Base = 3
  MAX_LENGTH_INT = 3
  BufferLength = 2
  MaxLine = 3
INVARIANTS
  InstructionsExact
  FaultsRestartable
  LoadedImage
  DevicesReady
  InputInOrder
  HandlersExact
PROPERTIES
  WritesAuthorised
  GetCharReturns
CHECK_DEADLOCK FALSE
