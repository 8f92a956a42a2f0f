CONSTANTS
  NBlocks = 3
  BufRecords = 2
  Caching = {TRUE, FALSE}
  UsizeWrap = 100
  MaxGroups = 8
  MaxCrashes = 2
SPECIFICATION JournalSpec
PROPERTIES RecoversPrefix FlushPersistsUnlessCut
INVARIANTS RecoverySucceeds
CHECK_DEADLOCK FALSE
