\* A chat and a model listing on one key and a pool of one or two connections:
\* statements may fail, the key may go, and the call of the chat may hang.
CONSTANTS
  MaxId = 1
  AdminOps = {"create", "delete", "deplete", "disable"}
  Callers = {c1, c2}
  Listers = {c2}
  Probers = {}
  DbMayFail = TRUE
  Margin = 2
  MaxPool = 2
  c1 = c1
  c2 = c2
SPECIFICATION PoolFairSpec
INVARIANTS TypeOK InStep PickSerialized LockIsUsed HeldIsReserved AntiStacking ConnectionsReturned
PROPERTIES ImplementsLeases DeletedStays BackInService CountsDown Answered
