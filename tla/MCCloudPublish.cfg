SPECIFICATION FairSpec
CONSTANTS
  CardMayFail = TRUE
  MaxRecords = 3
  MaxCuts = 1
INVARIANTS EveryRecordInOneWindow NothingClaimed
PROPERTIES BothReturn WindowsLeave
