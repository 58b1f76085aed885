\* Three keys, two requests, nothing but calls writes the table: the pointer
\* wraps while keys are in flight, rate limited or disabled.
CONSTANTS
  MaxId = 3
  AdminOps = {}
  Callers = {c1, c2}
  Probers = {}
  DbMayFail = FALSE
  c1 = c1
  c2 = c2
SPECIFICATION RRSpec
SYMMETRY Interchangeable
CONSTRAINT TwoInService
INVARIANT NoLeak
PROPERTY NoBypass
