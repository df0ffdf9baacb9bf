CONSTANTS
  Calls = {c1, c2}
  None = None
SPECIFICATION Spec
INVARIANTS SessionIsReused
CHECK_DEADLOCK FALSE
