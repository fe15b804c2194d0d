SPECIFICATION Spec
CONSTANTS
  Window = 2
  Threshold = 2
  Depth = 3
  Wrap = 64
  Gaps = {20}
  PulsePeriods = {1}
  MaxSteady = 41
INVARIANT EnergizedReadsActive
