CONSTANTS
  Sends = {r1, r2}
  Answered = {r1}
  MaxDeltas = 3
  MaxRounds = 2
  MaxWire = 2
SPECIFICATION DistinctSpec
INVARIANTS TypeOK NothingLost FinishedIsComplete OneRequestAtATime
PROPERTIES FadingEnds
CHECK_DEADLOCK FALSE
