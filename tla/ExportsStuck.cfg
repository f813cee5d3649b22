SPECIFICATION FairExportsSpec
CONSTANTS
  Count = 2
  MaxDeliveries = 1
  MaxRuns = 2
  Limit = 1
  MaxDeletions = 2
PROPERTIES OnlyIncompleteMarked
CHECK_DEADLOCK FALSE
