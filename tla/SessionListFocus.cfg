CONSTANTS
  Old = {o1}
  New = {n1}
SPECIFICATION Spec
PROPERTIES NoResurrection
CHECK_DEADLOCK FALSE
