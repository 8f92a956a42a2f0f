CONSTANTS
  NBlocks = 3
  BufRecords = 2
  Caching = {FALSE}
  UsizeWrap = 100
  MaxGroups = 6
  MaxCrashes = 2
SPECIFICATION JournalSpec
PROPERTY FlushPersists
CHECK_DEADLOCK FALSE
