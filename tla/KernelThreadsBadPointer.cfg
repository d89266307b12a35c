SPECIFICATION Spec
CONSTANTS
  main = main
  t1 = t1
  t2 = t2
  s1 = s1
  Thread = {main, t1, t2}
  Main = main
  NoThread = NoThread
  Sem = {s1}
  NoSem = NoSem
  BadPointers = TRUE
  MaxValue = 2
  MaxNest = 2
SYMMETRY ThreadSymmetry
INVARIANTS
  KernelCodeInSystemMode
