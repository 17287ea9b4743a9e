SPECIFICATION HxSpec
CONSTANTS
  HxFiles <- MCFiles
  HxLast = 60
  SlotsPerWrite = 1
  QuotaBlocks = 2
  MaxRanges = 4
  FailingStages = {}
  MaxHxWrites = 3
  MaxPublishes = 3
  MaxHxCrashes = 1
INVARIANTS BlocksClaimedOnce
CHECK_DEADLOCK FALSE
