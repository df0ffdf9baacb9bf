\* Window and TitlePeriod are the deployed values.
CONSTANTS
  Sessions = {s1}
  Invocations = {1, 2, 3, 4, 5, 6, 7, 8, 9, 10, 11, 12, 13, 14, 15, 16, 17, 18, 19, 20, 21, 22}
  Deletes = {}
  Window = 40
  TitlePeriod = 5
  PageSize = 100
  MaxRounds = 0
SPECIFICATION SequentialSpec
PROPERTIES TitleOnSchedule
CHECK_DEADLOCK FALSE
