CONSTANTS
  Old = {o1, o2}
  New = {n1}
  Tabs = {t1, t2}
  Requests = {r1, r2}
  MaxTokens = 3
  Projects = {"p", "q"}
  MaxPolls = 2
SPECIFICATION BrowserSpec
SYMMETRY Symmetry
INVARIANTS BrowserTypeOK SettledDeletesAreGone TokenIsFresh  SignedOutStays PageIsOfProject
PROPERTIES  DeletedChatStaysGone
CHECK_DEADLOCK FALSE
