\* Two requests on one key.
CONSTANTS
  MaxId = 1
  AdminOps = {}
  Callers = {c1, c2}
  Listers = {}
  Probers = {}
  DbMayFail = FALSE
  Margin = 0
  SessionLen = 1
  WeekLen = 2
  MaxTime = 3
  MaxReports = 3
  c1 = c1
  c2 = c2
SPECIFICATION TokenSpec
INVARIANT CountersExact
