SPECIFICATION MCSpec
CONSTANTS
  t1 = t1
  t2 = t2
  s1 = s1
  s2 = s2
  v1 = v1
  v2 = v2
  Thread = {t1, t2}
  NoThread = NoThread
  Sector = {s1, s2}
  Value = {v1, v2}
  NoValue = NoValue
  MaxRequests = 3
  MaxCrashes = 1
  SectorsPerTrack = 3
  NumTracks = 2
  SeekTime = 4
  RotationTime = 3
  SystemTick = 2
  UserTick = 1
  TimerTicks = 5
  MaxTime = 17
INVARIANTS
  OneRequest
  TimingExact
PROPERTIES
  RequestsReturn
  ImplementsSectors
CHECK_DEADLOCK FALSE
