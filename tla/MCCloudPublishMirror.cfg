SPECIFICATION Spec
CONSTANTS
  CardMayFail = FALSE
  MaxRecords = 2
  MaxCuts = 0
INVARIANT MirroredWhenIdle
