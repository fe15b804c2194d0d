SPECIFICATION Spec
CONSTANTS
  QueueDepth = 1
  Buffers = {b1, b2}
  NoBuf = NoBuf
  BurstEvery = 2
  FlushPeriod = 2
  CloudOn = TRUE
  MaxRows = 3
  MaxCaptures = 0
  MaxEvents = 1
  MaxAge = 4
INVARIANT ExposureBounded
