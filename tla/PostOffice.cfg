SPECIFICATION MCSpec
CONSTANTS
  m1 = m1
  m2 = m2
  t1 = t1
  t2 = t2
  t3 = t3
  Machine = {m1, m2}
  Thread = {t1, t2, t3}
  NoThread = NoThread
  Host <- TwoAndOne
  Tester <- OnePerMachine
  Box = {0, 1}
  Address = {0, 1, 2}
  NoMail = NoMail
  MaxMails = 4
  MaxBoots = 3
  Lossy = TRUE
INVARIANTS
  DeviceExact
PROPERTIES
  MailMoves
  ImplementsMail
CHECK_DEADLOCK FALSE
