SPECIFICATION MCSpec
CONSTANTS
  t1 = t1
  t2 = t2
  char1 = char1
  char2 = char2
  Thread = {t1, t2}
  NoThread = NoThread
  Char = {char1, char2}
  EOF = EOF
  Script <- TwoChars
  MaxReads = 4
  MaxWrites = 0
  IntBits = 4
  Base = 3
  MAX_LENGTH_INT = 3
  BufferLength = 2
  MaxLine = 1
PROPERTIES
  GetCharReturns
CHECK_DEADLOCK FALSE
