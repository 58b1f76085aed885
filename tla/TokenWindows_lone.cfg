\* One request at a time on a key that may be deleted or reset, beside a probe.
CONSTANTS
  MaxId = 1
  AdminOps = {"delete", "reset"}
  Callers = {c1}
  Listers = {}
  Probers = {p1}
  p1 = p1
  DbMayFail = FALSE
  Margin = 1
  SessionLen = 1
  WeekLen = 3
  MaxTime = 3
  MaxReports = 2
  c1 = c1
SPECIFICATION TokenSpec
INVARIANT CountersExact
PROPERTY WindowsEnd
