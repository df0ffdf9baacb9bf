CONSTANTS
  Runs = {1, 2, 3}
  Files <- RepeatableFiles
  MaxCrashes = 2
SPECIFICATION RetrySpec
INVARIANTS RejectedBlocks
PROPERTIES RetryCompletes
CHECK_DEADLOCK FALSE
