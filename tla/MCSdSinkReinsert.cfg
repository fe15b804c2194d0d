SPECIFICATION FairSpec
CONSTANTS
  Cards = {used}
  Prepared = {used}
  NoCard = NoCard
  Days = {d1}
  NoDay = NoDay
  MaxLines = 2
  MaxFaults = 1
  MaxCuts = 0
PROPERTY HotInsertRecovers
