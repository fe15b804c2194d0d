SPECIFICATION Spec
CONSTANTS
  Window = 3
  Threshold = 2
  Depth = 3
  Wrap = 6
  Gaps = {1, 2}
  PulsePeriods = {1, 2}
  MaxSteady = 0
INVARIANT CountsItsWindow
PROPERTY KeepsLatest
