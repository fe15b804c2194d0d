SPECIFICATION FairSpec
CONSTANTS
  QueueDepth = 2
  Buffers = {b1}
  NoBuf = NoBuf
  BurstEvery = 2
  FlushPeriod = 2
  CloudOn = TRUE
  MaxRows = 1
  MaxCaptures = 2
  MaxEvents = 1
  MaxAge = 3
INVARIANTS OneOwner NoBadFree TeeComplete OverdueOnlyPublishing BoundedWithoutEvents
PROPERTY Drained
