\* The loop and one administrator, two ids: a key may be deleted while it is
\* being refreshed. Only the second answer of upstream has the fractions.
CONSTANTS
  MaxId = 2
  Refreshers = {loop}
  Visitors = {v1}
  Visited = {1}
  MaxUsage = 1
  Whole = {1}
  loop = loop
  v1 = v1
SPECIFICATION FairSpec
INVARIANT TypeOK
PROPERTIES CacheNeverOlder CatchesUp Answered
