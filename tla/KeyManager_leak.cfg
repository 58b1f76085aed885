\* A key is deleted while a request uses it.
CONSTANTS
  MaxId = 2
  AdminOps = {"delete"}
  Callers = {c1}
  Probers = {}
  DbMayFail = FALSE
  c1 = c1
SPECIFICATION KMSpec
INVARIANTS NoLeak
