\* Three requests at a list that expires while upstream changes its offer and
\* fetches end in every way.
CONSTANTS
  Requests = {r1, r2, r3}
  Ttl = 2
  MaxList = 3
  r1 = r1
  r2 = r2
  r3 = r3
SPECIFICATION FairSpec
INVARIANT Inv
PROPERTIES NeverOlder NoStampede Answered
