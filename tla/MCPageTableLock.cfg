CONSTANTS
  Cursors = {c1, c2}
  Nobody = Nobody
  None = None
  Frame = Frame
  Fan = 2
  NrLevels = 3
  HighestTranslationLevel = 2
  Ranges <- MCRanges
  MaxNodes = 10
  MaxRounds = 4
  MaxOps = 2
SPECIFICATION FairSpec
INVARIANTS RangesExclusive LocksMatchTree
PROPERTIES CursorsOpen
CHECK_DEADLOCK FALSE
