---------------------------- MODULE RotationPool ----------------------------
(***************************************************************************)
(* Rotation over the connection pool of db/session.py, SQLAlchemy's queue  *)
(* pool for a SQLite file.  A session takes a connection with its first    *)
(* statement and keeps it until it commits, is rolled back or closed:      *)
(* during upstream calls, during waits, and in the queue of the key        *)
(* manager's lock, whose holder may need one itself.  A statement that     *)
(* gets none within the pool's timeout raises.                             *)
(***************************************************************************)
EXTENDS Rotation

CONSTANT MaxPool  \* bound on the connections left to these requests

ASSUME MaxPoolAssumption == MaxPool \in Nat \ {0}

VARIABLES
  conns,    \* the requests whose session holds a connection
  poolSize  \* how many connections there are

poolVars == <<vars, conns, poolSize>>

\* A statement: the connection the session has, or one that is free.
HasConnection(c) == c \in conns \/ Cardinality(conns) < poolSize

Executes(c) == HasConnection(c) /\ conns' = conns \union {c}
Commits(c)  == HasConnection(c) /\ conns' = conns \ {c}

\* (Mutant of Raises: a statement waits for a connection as long as it takes.)
RaisesConnected(c) == c \in conns /\ conns' \in {conns, conns \ {c}}

\* A statement fails, or the pool's timeout is over; the session may roll back
\* here or when it is closed.
Raises(c) == conns' \in {conns, conns \ {c}}

Keeps == UNCHANGED conns

PoolInit == Init /\ conns = {} /\ poolSize \in 1..MaxPool

PoolStart(c) ==
  \/ StartChat(c) /\ Executes(c)
  \/ StartRaises(c) /\ Raises(c)
  \/ StartList(c) /\ Keeps

PoolPicking(c) ==
  /\ Picking(c)
  /\ IF phase[c] = "reactivate" THEN Commits(c) ELSE Executes(c)

PoolStep(c) ==
  \/ (NextAttempt(c) \/ GotKey(c) \/ GotNone(c) \/ GotNoneToList(c) \/ WaitOver(c)
      \/ Unusable(c) \/ PassedThrough(c) \/ Released(c)) /\ Keeps
  \/ PoolPicking(c)
  \/ (Succeeded(c) \/ Refused(c)) /\ Commits(c)
  \/ Refreshed(c) /\ Executes(c)
  \/ (PickFailed(c) \/ CallFailed(c)) /\ Raises(c)

\* (Mutant of PoolFinish: the session is not closed.)
PoolFinishOpen(c) == Finish(c) /\ Keeps

\* `async with factory() as session` closes it.
PoolFinish(c) == Finish(c) /\ conns' = conns \ {c}

PoolNext ==
  /\ \/ \E c \in Callers : PoolStart(c) \/ PoolStep(c) \/ PoolFinish(c)
     \/ Others /\ Keeps
  /\ UNCHANGED poolSize

PoolSpec == PoolInit /\ [][PoolNext]_poolVars

\* As in Rotation: statements, sleeps and the calls of listings end, and so does
\* the wait for a connection.  A chat whose call hangs keeps its connection.
PoolFairness ==
  \A c \in Callers :
    WF_poolVars(PoolStep(c) /\ ~AwaitsUpstream(c) /\ UNCHANGED poolSize)
PoolFairSpec == PoolSpec /\ PoolFairness

\* No request that is over keeps a connection, and the pool is never overdrawn.
ConnectionsReturned ==
  /\ conns \subseteq {c \in Callers : stage[c] # "ready"}
  /\ Cardinality(conns) <= poolSize
=============================================================================
