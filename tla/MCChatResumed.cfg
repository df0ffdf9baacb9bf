CONSTANTS
  Sends = {r1}
  Answered = {r1}
  MaxDeltas = 1
  MaxRounds = 0
  MaxWire = 2
SPECIFICATION Spec
INVARIANTS SentIsShown
CHECK_DEADLOCK FALSE
