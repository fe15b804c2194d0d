SPECIFICATION FairSpec
CONSTANTS
  Cards = {fresh}
  Prepared = {}
  NoCard = NoCard
  Days = {d1, d2}
  NoDay = NoDay
  MaxLines = 2
  MaxFaults = 1
  MaxCuts = 1
INVARIANTS TypeOK FiledByDay HandlesTogether OnlyOpenFilesUnsynced LoadsUnlessCut
PROPERTIES FlushedIsForever RecoversUnlessPulled
