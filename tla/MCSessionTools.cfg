CONSTANTS
  Sessions = {s1}
  Invocations = {i1}
  Deletes = {d1}
  Window = 2
  TitlePeriod = 2
  PageSize = 1
  MaxRounds = 1
SPECIFICATION FairSpec
PROPERTIES EventuallySettled
CHECK_DEADLOCK FALSE
