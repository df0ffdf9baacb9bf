CONSTANTS
  Sessions = {s1}
  Invocations = {i1, i2}
  Deletes = {d1}
  Window = 2
  TitlePeriod = 2
  PageSize = 1
  MaxRounds = 0
SPECIFICATION Spec
SYMMETRY Symmetry
INVARIANTS TypeOK StoredSessionIsListed DeletedStaysDeleted DeletePurges
PROPERTIES TitleNotDowngraded
CHECK_DEADLOCK FALSE
