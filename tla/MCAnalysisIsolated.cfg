SPECIFICATION Spec
CONSTANTS
  NaN = NaN
  Day = 40
  ShortCycleMaxRun = 3
  ShortCycleMinCount = 3
  ShortCycleWindow = 12
  TccMinRun = 18
  KnockRollingWindow = 15
  KnockClusterSpan = 120
  BeltMinSamples = 4
  MotorMinDays = 3
  SealWindow = 40
  SealMinDays = 3
  NRows <- SegmentRows
  NDays = 3
  RunHealthy = {4, 8}
  HoldHealthy = {1, 3}
  RunShort = {1, 2}
  HoldShort = {1}
  RunCoarse = {1, 3}
  HoldCoarse = {0, 2}
  VibInterval = 2
  Draws <- SegmentDraws
  DemoRows = 48
  CloseAt = 6
  OpenFrom = 14
  WarmFrom = 20
  WarmUntil = 40
  OnHealthy = {8, 10}
  OffHealthy = {4, 8}
  KnockAt = 45
  Logged <- LoggedSources
  MaxLogged <- LogBounds
  DeltaSpread = 8
INVARIANT IsolatesRunLength
CHECK_DEADLOCK FALSE
