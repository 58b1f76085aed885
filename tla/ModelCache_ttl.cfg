\* One request at a time, one list, one refused fetch.
CONSTANTS
  Requests = {r1}
  Ttl = 1
  MaxList = 1
  r1 = r1
SPECIFICATION Spec
INVARIANT TtlHolds
