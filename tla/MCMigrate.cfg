CONSTANTS
  Runs = {1, 2, 3}
  Files <- MixedFiles
  MaxCrashes = 0
SPECIFICATION Spec
INVARIANTS TypeOK InOrder RecordedIsApplied CompletedIsApplied
PROPERTIES ImplementsLog
CHECK_DEADLOCK FALSE
