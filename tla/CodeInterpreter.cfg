CONSTANTS
  Calls = {c1, c2, c3}
  None = None
SPECIFICATION FairSpec
INVARIANTS TypeOK EntryIsTimed SessionIsReusedInTurn 
PROPERTIES EntryGoes
CHECK_DEADLOCK FALSE
