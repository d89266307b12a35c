SPECIFICATION MCSpec
CONSTANTS
  t1 = t1
  t2 = t2
  t3 = t3
  t4 = t4
  a = a
  b = b
  Thread = {t1, t2, t3, t4}
  NoThread = NoThread
  Item = {a, b}
  NoItem = NoItem
  MaxItems = 2
  Main = t1
  SemaphoreHelper = t2
  ListHelper = t3
  Rounds = 3
INVARIANTS
  LockExact
  NobodyMissed
  ItemsSpokenFor
PROPERTIES
  LockProgress
  ImplementsMutex
  ConsumersWake
  ImplementsQueue
  TestsPass
CHECK_DEADLOCK FALSE
