\* One request at a time, four keys that may be disabled, no spare attempt.
CONSTANTS
  MaxId = 4
  AdminOps = {"disable"}
  Callers = {c1}
  Listers = {}
  Probers = {}
  DbMayFail = FALSE
  Margin = 0
  c1 = c1
SPECIFICATION HistorySpec
PROPERTY GivesUpAfterAll
INVARIANT DepletedComesBack
