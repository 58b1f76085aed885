--------------------------- MODULE Rotation_proofs ---------------------------
(***************************************************************************)
(* Rotation, with and without its connection pool, for any requests, keys  *)
(* and pool: what is proved of the key manager holds of it; what a request *)
(* has tried when it gives up; and that each of its steps brings its       *)
(* answer nearer.                                                          *)
(***************************************************************************)
EXTENDS RotationPool, RotationHistory, KeyManager_proofs

(***************************************************************************)
(* Rotation uses the key manager                                           *)
(***************************************************************************)

\* Every action of a request is one of the key manager's, or leaves it alone.
LEMMA RequestStep ==
  ASSUME NEW c \in Callers, StartChat(c) \/ StartRaises(c) \/ StartList(c) \/ Step(c) \/ Finish(c)
  PROVE  [KMNext]_kmVars
  <1>1. CASE StartChat(c) \/ StartRaises(c) \/ WaitOver(c)
    BY <1>1 DEF StartChat, StartRaises, WaitOver
  <1>2. CASE StartList(c) \/ NextAttempt(c)
    BY <1>2 DEF StartList, NextAttempt, KMNext
  <1>3. CASE Picking(c) \/ GotKey(c) \/ GotNone(c) \/ GotNoneToList(c) \/ PickFailed(c)
    BY <1>3 DEF Picking, GotKey, GotNone, GotNoneToList, PickFailed, KMNext, PickStep
  <1>4. CASE Succeeded(c)
    <2>1. "success" \in Verdicts
      BY DEF Verdicts
    <2> QED
      BY <1>4, <2>1 DEF Succeeded, KMNext, RecordStep
  <1>5. CASE Refused(c)
    <2>1. {"unauthorized", "limited", "serverError"} \subseteq Verdicts
      BY DEF Verdicts
    <2> QED
      BY <1>5, <2>1 DEF Refused, KMNext, RecordStep
  <1>6. CASE Unusable(c) \/ PassedThrough(c) \/ Refreshed(c) \/ CallFailed(c)
    BY <1>6 DEF Unusable, PassedThrough, Refreshed, CallFailed, KMNext, RecordStep
  <1>7. CASE Released(c) \/ Finish(c)
    BY <1>7 DEF Released, Finish, KMNext
  <1> QED
    BY <1>1, <1>2, <1>3, <1>4, <1>5, <1>6, <1>7 DEF Step

\* A step of the system is a step of the key manager or a stutter of it.
LEMMA ManagerStep == [Next]_vars => [KMNext]_kmVars
  <1>1. ASSUME Others
        PROVE  KMNext
    BY <1>1 DEF Others, KMNext
  <1> QED
    BY <1>1, RequestStep DEF Next, vars

(***************************************************************************)
(* Types, and the agreement of stage and phase                             *)
(***************************************************************************)

\* The variables of Rotation itself.
RotTypeOK ==
  /\ stage \in [Callers -> Stages]
  /\ req \in [Callers -> Locals]
  /\ reply \in [Callers -> Replies]

\* A count of active keys is one a table of MaxId rows can have.
LEMMA ActiveCount == Cardinality(Active) \in 0..MaxId
  <1>1. IsFiniteSet(KeyIds) /\ Cardinality(KeyIds) = MaxId
    BY MaxIdAssumption, FS_Interval DEF KeyIds
  <1>2. Active \subseteq KeyIds
    BY DEF Active
  <1> QED
    BY <1>1, <1>2, FS_Subset, FS_CardinalityType, MaxIdAssumption

\* Fresh local variables are local variables.
LEMMA NoLocalsType == NoLocals \in Locals
  BY MaxIdAssumption, MarginAssumption DEF NoLocals, Locals

\* An answer ends a request.
LEMMA AnswerStep ==
  ASSUME RotTypeOK, NEW c \in Callers, NEW what \in Replies, Answer(c, what)
  PROVE  /\ RotTypeOK'
         /\ stage' = [stage EXCEPT ![c] = "done"]
  BY NoLocalsType DEF RotTypeOK, Answer, Stages

\* The end of an iteration leads to the next one or to an answer.
LEMMA ConcludeStep ==
  ASSUME RotTypeOK, NEW c \in Callers, Conclude(c)
  PROVE  /\ RotTypeOK'
         /\ stage' = [stage EXCEPT ![c] = "done"]
  <1>1. PICK hasModel \in BOOLEAN :
          Answer(c, CASE ~req[c].attempted /\ req[c].initial = 0 -> "noKeys"
                      [] ~req[c].attempted /\ req[c].initial > 0 -> "busy"
                      [] req[c].attempted /\ req[c].all404 /\ hasModel -> "noModel"
                      [] req[c].attempted /\ ~(req[c].all404 /\ hasModel) -> "failed")
    BY DEF Conclude
  <1> DEFINE what == CASE ~req[c].attempted /\ req[c].initial = 0 -> "noKeys"
                      [] ~req[c].attempted /\ req[c].initial > 0 -> "busy"
                      [] req[c].attempted /\ req[c].all404 /\ hasModel -> "noModel"
                      [] req[c].attempted /\ ~(req[c].all404 /\ hasModel) -> "failed"
  <1>2. req[c].initial \in 0..MaxId /\ req[c].attempted \in BOOLEAN /\ req[c].all404 \in BOOLEAN
    BY DEF RotTypeOK, Locals
  <1>3. req[c].initial = 0 \/ req[c].initial > 0
    BY <1>2, MaxIdAssumption
  <1>4. what \in {"noKeys", "busy", "noModel", "failed"}
    BY <1>2, <1>3
  <1>5. what \in Replies
    BY <1>4 DEF Replies
  <1> QED
    BY <1>1, <1>5, AnswerStep

LEMMA ContinueStep ==
  ASSUME RotTypeOK, NEW c \in Callers, Continue(c)
  PROVE  /\ RotTypeOK'
         /\ \E s \in {"loop", "done"} : stage' = [stage EXCEPT ![c] = s]
  BY ConcludeStep DEF Continue, RotTypeOK, Stages

\* What each action of a request does to the types and to its stage.
LEMMA RotTypeStep ==
  ASSUME RotTypeOK, Next
  PROVE  RotTypeOK'
  <1> USE DEF RotTypeOK, Stages
  <1>1. ASSUME NEW c \in Callers, StartChat(c)
        PROVE  RotTypeOK'
    <2> DEFINE n == Cardinality(Active)
               fresh == [NoLocals EXCEPT !.left = AtLeastOne(n) + Margin, !.initial = n]
    <2>1. AtLeastOne(n) + Margin \in 0..(MaxId + Margin + 1)
      BY ActiveCount, MaxIdAssumption, MarginAssumption DEF AtLeastOne
    <2>2. fresh \in Locals
      BY <2>1, ActiveCount, NoLocalsType DEF Locals
    <2> QED
      BY <1>1, <2>2 DEF StartChat
  <1>2. ASSUME NEW c \in Callers, StartRaises(c) \/ StartList(c) \/ Finish(c)
        PROVE  RotTypeOK'
    BY <1>2, NoLocalsType DEF StartRaises, StartList, Finish, Answer, Replies
  <1>3. ASSUME NEW c \in Callers, NextAttempt(c)
        PROVE  RotTypeOK'
    <2>1. req[c].left \in 0..(MaxId + Margin + 1) /\ req[c].left > 0
      BY <1>3 DEF NextAttempt, Locals
    <2>2. req[c].left - 1 \in 0..(MaxId + Margin + 1)
      BY <2>1, MaxIdAssumption, MarginAssumption
    <2>3. [req[c] EXCEPT !.left = @ - 1] \in Locals
      BY <2>2 DEF Locals
    <2>4. req' = [req EXCEPT ![c] = [req[c] EXCEPT !.left = @ - 1]]
      BY <1>3 DEF NextAttempt
    <2> QED
      BY <1>3, <2>3, <2>4 DEF NextAttempt
  <1>4. ASSUME NEW c \in Callers, Picking(c) \/ Refreshed(c)
        PROVE  RotTypeOK'
    BY <1>4 DEF Picking, Refreshed, rotVars
  <1>5. ASSUME NEW c \in Callers, GotKey(c)
        PROVE  RotTypeOK'
    <2>1. (c \in Chats) \in BOOLEAN
      OBVIOUS
    <2>2. [req[c] EXCEPT !.attempted = (c \in Chats)] \in Locals
      BY <2>1 DEF Locals
    <2> QED
      BY <1>5, <2>2 DEF GotKey
  <1>6. ASSUME NEW c \in Callers, GotNone(c)
        PROVE  RotTypeOK'
    BY <1>6, ConcludeStep DEF GotNone
  <1>7. ASSUME NEW c \in Callers, GotNoneToList(c) \/ PickFailed(c) \/ CallFailed(c)
        PROVE  RotTypeOK'
    BY <1>7, NoLocalsType DEF GotNoneToList, PickFailed, CallFailed, Answer, Replies
  <1>8. ASSUME NEW c \in Callers, WaitOver(c)
        PROVE  RotTypeOK'
    BY <1>8, ContinueStep DEF WaitOver
  <1>9. ASSUME NEW c \in Callers, NEW hint404 \in BOOLEAN, Rotate(c, hint404)
        PROVE  RotTypeOK'
    <2>1. (req[c].all404 /\ hint404) \in BOOLEAN
      OBVIOUS
    <2>2. [req[c] EXCEPT !.all404 = @ /\ hint404] \in Locals
      BY <2>1 DEF Locals
    <2> QED
      BY <1>9, <2>2 DEF Rotate
  <1>10. ASSUME NEW c \in Callers, NEW what \in Replies, Reply(c, what)
         PROVE  RotTypeOK'
    BY <1>10 DEF Reply
  <1>11. ASSUME NEW c \in Callers,
                Succeeded(c) \/ Refused(c) \/ Unusable(c) \/ PassedThrough(c)
         PROVE  RotTypeOK'
    <2>1. {"ok", "listed", "unlisted", "terminal"} \subseteq Replies
      BY DEF Replies
    <2> QED
      BY <1>9, <1>10, <1>11, <2>1 DEF Succeeded, Refused, Unusable, PassedThrough
  <1>12. ASSUME NEW c \in Callers, Released(c)
         PROVE  RotTypeOK'
    BY <1>12, ContinueStep, AnswerStep DEF Released
  <1>13. CASE Others
    BY <1>13 DEF Others, rotVars
  <1> QED
    BY <1>1, <1>2, <1>3, <1>4, <1>5, <1>6, <1>7, <1>8, <1>11, <1>12, <1>13 DEF Next, Step

\* The stage and the phase of a request agree after each of its steps.
LEMMA InStepStep ==
  ASSUME TypeOK, InStep, Next
  PROVE  InStep'
  <1> USE DEF TypeOK, KMTypeOK, InStep, InLock, Reserving, Phases
  <1>0. RotTypeOK
    BY DEF RotTypeOK
  <1>1. ASSUME NEW c \in Callers, NEW s \in Stages, NEW f \in Phases,
               stage' = [stage EXCEPT ![c] = s], phase' = [phase EXCEPT ![c] = f],
               s = "picking" <=> f \in InLock,
               s = "calling" <=> f \in Reserving
        PROVE  InStep'
    BY <1>1 DEF Stages
  <1>2. ASSUME NEW c \in Callers, NEW s \in Stages \ {"picking", "calling"},
               stage[c] \notin {"picking", "calling"},
               stage' = [stage EXCEPT ![c] = s], UNCHANGED phase
        PROVE  InStep'
    BY <1>2
  <1>3. ASSUME NEW c \in Callers, NEW f \in InLock,
               phase[c] \in InLock, phase' = [phase EXCEPT ![c] = f], UNCHANGED stage
        PROVE  InStep'
    BY <1>3
  <1>4. ASSUME NEW c \in Callers, NEW f \in Reserving,
               phase[c] \in Reserving, phase' = [phase EXCEPT ![c] = f], UNCHANGED stage
        PROVE  InStep'
    BY <1>4
  <1>5. ASSUME NEW c \in Callers, NEW s \in {"loop", "waiting", "done"},
               stage' = [stage EXCEPT ![c] = s], phase' = [phase EXCEPT ![c] = "idle"]
        PROVE  InStep'
    BY <1>5
  <1>6. ASSUME NEW c \in Callers, StartChat(c) \/ StartRaises(c)
        PROVE  InStep'
    BY <1>2, <1>6 DEF StartChat, StartRaises, Answer, Stages, kmVars
  <1>7. ASSUME NEW c \in Callers, StartList(c) \/ NextAttempt(c)
        PROVE  InStep'
    BY <1>1, <1>7 DEF StartList, NextAttempt, PickBegin, Stages
  <1>8. ASSUME NEW c \in Callers, Picking(c)
        PROVE  InStep'
    BY <1>3, <1>8 DEF Picking, Load, Reactivate, Reload, rotVars
  <1>9. ASSUME NEW c \in Callers, GotKey(c)
        PROVE  InStep'
    BY <1>1, <1>9 DEF GotKey, Reserve, Stages
  <1>10. ASSUME NEW c \in Callers, GotNone(c)
         PROVE  InStep'
    <2>1. phase' = [phase EXCEPT ![c] = "idle"]
      BY <1>10 DEF GotNone, PickNothing
    <2>2. \E s \in {"waiting", "done"} : stage' = [stage EXCEPT ![c] = s]
      BY <1>0, <1>10, ConcludeStep DEF GotNone
    <2> QED
      BY <1>5, <2>1, <2>2
  <1>11. ASSUME NEW c \in Callers, GotNoneToList(c) \/ PickFailed(c)
         PROVE  InStep'
    BY <1>5, <1>11 DEF GotNoneToList, PickFailed, PickNothing, PickRaises, Answer
  <1>12. ASSUME NEW c \in Callers, WaitOver(c)
         PROVE  InStep'
    <2>1. \E s \in {"loop", "done"} : stage' = [stage EXCEPT ![c] = s]
      BY <1>0, <1>12, ContinueStep DEF WaitOver
    <2> QED
      BY <1>2, <1>12, <2>1 DEF WaitOver, Stages, kmVars
  <1>13. ASSUME NEW c \in Callers,
                Succeeded(c) \/ Refused(c) \/ Unusable(c) \/ PassedThrough(c) \/ Refreshed(c)
         PROVE  InStep'
    BY <1>4, <1>13
       DEF Succeeded, Refused, Unusable, PassedThrough, Refreshed, Record, RecordUsage,
           NoRecord, Refresh, Rotate, Reply, rotVars
  <1>14. ASSUME NEW c \in Callers, Released(c)
         PROVE  InStep'
    <2>1. \E s \in {"loop", "done"} : stage' = [stage EXCEPT ![c] = s]
      BY <1>0, <1>14, ContinueStep DEF Released, Answer
    <2> QED
      BY <1>5, <1>14, <2>1 DEF Released, Release
  <1>15. ASSUME NEW c \in Callers, CallFailed(c)
         PROVE  InStep'
    BY <1>5, <1>15 DEF CallFailed, RecordRaises, RecordFails, Answer
  <1>16. ASSUME NEW c \in Callers, Finish(c)
         PROVE  InStep'
    BY <1>2, <1>16 DEF Finish, CloseSession, Stages
  <1>17. CASE Others
    BY <1>17 DEF Others, Environment, ProbeStep, ProbeBegin, ProbeEnd, rotVars
  <1> QED
    BY <1>6, <1>7, <1>8, <1>9, <1>10, <1>11, <1>12, <1>13, <1>14, <1>15, <1>16, <1>17
       DEF Next, Step

\* The inductive invariant of rotation.
RotInv == KMInv /\ RotTypeOK /\ InStep

LEMMA RotInitInv == Init => RotInv
  <1> SUFFICES ASSUME Init
               PROVE  RotInv
    OBVIOUS
  <1>1. KMInv
    BY KMInitInv DEF Init
  <1>2. RotTypeOK
    BY NoLocalsType DEF Init, RotTypeOK, Stages, Replies
  <1>3. InStep
    BY DEF Init, KMInit, InStep, InLock, Reserving
  <1> QED
    BY <1>1, <1>2, <1>3 DEF RotInv

LEMMA RotInvStep == RotInv /\ [Next]_vars => RotInv'
  <1> SUFFICES ASSUME RotInv, [Next]_vars
               PROVE  RotInv'
    OBVIOUS
  <1>1. KMInv'
    BY ManagerStep, KMInvStep DEF RotInv
  <1>2. TypeOK
    BY DEF RotInv, KMInv, RotTypeOK, TypeOK
  <1>3. CASE Next
    BY <1>1, <1>2, <1>3, RotTypeStep, InStepStep DEF RotInv
  <1>4. CASE UNCHANGED vars
    BY <1>1, <1>4 DEF RotInv, RotTypeOK, InStep, vars, kmVars, rotVars
  <1> QED
    BY <1>3, <1>4

\* Every variable of rotation and of the key manager under it keeps its type; in
\* particular no request has more attempts than it was given.
THEOREM RotationTypes == Spec => []TypeOK
  <1>1. RotInv => TypeOK
    BY DEF RotInv, KMInv, RotTypeOK, TypeOK
  <1> QED
    BY <1>1, RotInitInv, RotInvStep, PTL DEF Spec

\* A request that waits, has answered or is between two attempts is not in the
\* key manager's lock and holds no key.
THEOREM StagesAgree == Spec => []InStep
  <1>1. RotInv => InStep
    BY DEF RotInv
  <1> QED
    BY <1>1, RotInitInv, RotInvStep, PTL DEF Spec

(***************************************************************************)
(* The connection pool                                                     *)
(***************************************************************************)

\* A request that is over holds no connection, and no more connections are out
\* than there are.
PoolInv == RotInv /\ ConnectionsReturned /\ IsFiniteSet(conns) /\ poolSize \in Nat

\* A step of one request on the pool: it takes one connection, gives its own
\* back or leaves the pool alone.
PoolChange(c) == Executes(c) \/ Commits(c) \/ Raises(c) \/ Keeps

\* What such a step does to the set of connections that are out.
LEMMA ConnectionsBounded ==
  ASSUME PoolInv, NEW c \in Callers, PoolChange(c)
  PROVE  /\ IsFiniteSet(conns') /\ Cardinality(conns') <= poolSize
         /\ conns' \subseteq conns \union {c}
  <1> USE DEF PoolInv, ConnectionsReturned
  <1>1. IsFiniteSet(conns \ {c}) /\ Cardinality(conns \ {c}) <= Cardinality(conns)
    BY FS_Subset
  <1>2. Cardinality(conns) \in Nat /\ Cardinality(conns \ {c}) \in Nat
    BY <1>1, FS_CardinalityType
  <1>3. CASE conns' \in {conns, conns \ {c}}
    BY <1>1, <1>2, <1>3
  <1>4. CASE Executes(c) /\ c \notin conns
    <2>1. Cardinality(conns) < poolSize /\ conns' = conns \union {c}
      BY <1>4 DEF Executes, HasConnection
    <2>2. IsFiniteSet(conns') /\ Cardinality(conns') = Cardinality(conns) + 1
      BY <1>4, <2>1, FS_AddElement
    <2> QED
      BY <1>2, <2>1, <2>2
  <1>5. CASE Executes(c) /\ c \in conns
    BY <1>5, <1>3 DEF Executes
  <1> QED
    BY <1>3, <1>4, <1>5 DEF PoolChange, Commits, Raises, Keeps

\* A step on the pool is a step of rotation.
LEMMA PoolUsesRotation == [PoolNext]_poolVars => [Next]_vars
  <1>1. ASSUME NEW c \in Callers, PoolStart(c) \/ PoolStep(c) \/ PoolFinish(c)
        PROVE  Next
    BY <1>1 DEF PoolStart, PoolStep, PoolPicking, PoolFinish, Next, Step
  <1>2. ASSUME Others
        PROVE  Next
    BY <1>2 DEF Next
  <1> QED
    BY <1>1, <1>2 DEF PoolNext, poolVars

\* A request that has begun is at no point of its way back at the start.
LEMMA UnderWay ==
  ASSUME RotTypeOK, NEW c \in Callers,
         StartChat(c) \/ StartRaises(c) \/ StartList(c) \/ Step(c)
  PROVE  /\ stage'[c] # "ready"
         /\ \A d \in Callers \ {c} : stage'[d] = stage[d]
  <1> USE DEF RotTypeOK
  <1>1. ASSUME NEW s, s # "ready", stage' = [stage EXCEPT ![c] = s]
        PROVE  /\ stage'[c] # "ready"
               /\ \A d \in Callers \ {c} : stage'[d] = stage[d]
    BY <1>1
  <1>2. CASE StartChat(c) \/ StartRaises(c) \/ StartList(c) \/ NextAttempt(c) \/ GotKey(c)
    BY <1>1, <1>2 DEF StartChat, StartRaises, StartList, NextAttempt, GotKey, Answer
  <1>3. CASE GotNoneToList(c) \/ PickFailed(c) \/ CallFailed(c)
    BY <1>1, <1>3 DEF GotNoneToList, PickFailed, CallFailed, Answer
  <1>4. CASE GotNone(c)
    <2>1. \E s \in {"waiting", "done"} : stage' = [stage EXCEPT ![c] = s]
      BY <1>4, ConcludeStep DEF GotNone
    <2> QED
      BY <1>1, <2>1
  <1>5. CASE WaitOver(c) \/ Released(c)
    <2>1. \E s \in {"loop", "done"} : stage' = [stage EXCEPT ![c] = s]
      BY <1>5, ContinueStep DEF WaitOver, Released, Answer
    <2> QED
      BY <1>1, <2>1
  <1>6. CASE \/ Picking(c) \/ Succeeded(c) \/ Refused(c) \/ Unusable(c)
             \/ PassedThrough(c) \/ Refreshed(c)
    BY <1>6 DEF Picking, Succeeded, Refused, Unusable, PassedThrough, Refreshed,
                Rotate, Reply, rotVars
  <1> QED
    BY <1>2, <1>3, <1>4, <1>5, <1>6 DEF Step

LEMMA PoolInvStep == PoolInv /\ [PoolNext]_poolVars => PoolInv'
  <1> SUFFICES ASSUME PoolInv, [PoolNext]_poolVars
               PROVE  PoolInv'
    OBVIOUS
  <1>1. RotInv'
    BY PoolUsesRotation, RotInvStep DEF PoolInv
  <1>2. RotTypeOK /\ RotTypeOK'
    BY <1>1 DEF PoolInv, RotInv
  <1>3. poolSize' = poolSize
    BY DEF PoolNext, poolVars
  <1>4. ASSUME NEW c \in Callers, PoolStart(c) \/ PoolStep(c)
        PROVE  PoolInv'
    <2>1. PoolChange(c)
      BY <1>4 DEF PoolStart, PoolStep, PoolPicking, PoolChange
    <2>2. StartChat(c) \/ StartRaises(c) \/ StartList(c) \/ Step(c)
      BY <1>4 DEF PoolStart, PoolStep, PoolPicking, Step
    <2>3. conns' \subseteq {d \in Callers : stage'[d] # "ready"}
      BY <1>2, <2>1, <2>2, UnderWay, ConnectionsBounded DEF PoolInv, ConnectionsReturned
    <2> QED
      BY <1>1, <1>3, <2>1, <2>3, ConnectionsBounded DEF PoolInv, ConnectionsReturned
  <1>5. ASSUME NEW c \in Callers, PoolFinish(c)
        PROVE  PoolInv'
    <2>1. PoolChange(c) /\ conns' = conns \ {c}
      BY <1>5 DEF PoolFinish, PoolChange, Raises
    <2>2. \A d \in Callers \ {c} : stage'[d] = stage[d]
      BY <1>2, <1>5 DEF PoolFinish, Finish, RotTypeOK
    <2>3. conns' \subseteq {d \in Callers : stage'[d] # "ready"}
      BY <2>1, <2>2 DEF PoolInv, ConnectionsReturned
    <2> QED
      BY <1>1, <1>3, <2>1, <2>3, ConnectionsBounded DEF PoolInv, ConnectionsReturned
  <1>6. CASE (Others /\ Keeps) \/ UNCHANGED poolVars
    <2>1. UNCHANGED <<stage, conns>>
      BY <1>6 DEF Others, Keeps, rotVars, poolVars, vars
    <2> QED
      BY <1>1, <1>3, <2>1 DEF PoolInv, ConnectionsReturned
  <1> QED
    BY <1>4, <1>5, <1>6 DEF PoolNext

\* With a pool under it rotation is still rotation: what the theorems above say
\* of Spec holds of the system with its connections.
THEOREM PoolImplementsRotation == PoolSpec => Spec
  <1>1. PoolInit => Init
    BY DEF PoolInit
  <1> QED
    BY <1>1, PoolUsesRotation, PTL DEF PoolSpec, Spec

\* Every session gives its connection back, whatever raised in it, and the pool
\* is never overdrawn.
THEOREM ConnectionsComeBack == PoolSpec => []ConnectionsReturned
  <1>1. PoolInit => PoolInv
    <2> SUFFICES ASSUME PoolInit
                 PROVE  PoolInv
      OBVIOUS
    <2>1. RotInv
      BY RotInitInv DEF PoolInit
    <2>2. IsFiniteSet(conns) /\ Cardinality(conns) = 0
      BY FS_EmptySet DEF PoolInit
    <2>3. poolSize \in Nat /\ poolSize >= 1
      BY MaxPoolAssumption DEF PoolInit
    <2> QED
      BY <2>1, <2>2, <2>3 DEF PoolInit, PoolInv, ConnectionsReturned
  <1>2. PoolInv => ConnectionsReturned
    BY DEF PoolInv
  <1> QED
    BY <1>1, <1>2, PoolInvStep, PTL DEF PoolSpec

(***************************************************************************)
(* A request that gives up has tried the keys (RotationHistory)            *)
(***************************************************************************)

\* No other request picks or uses a key.
Alone(c) == \A d \in Callers \ {c} : phase[d] = "idle"

\* The attempts of request c that are behind it.
Made(c) == AtLeastOne(req[c].initial) + Margin - req[c].left
             - (IF stage[c] = "picking" THEN 1 ELSE 0)

\* The last keys of the ring before the pointer, as many as the request has made
\* attempts, and those of them it has not called.
Last(c)   == {k \in Active : Offset(Active, k) >= Cardinality(Active) - Made(c)}
Missed(c) == Last(c) \ tried[c]

\* The pointer stands behind the key in use, and the request has missed no more
\* of the keys behind it than it has put out of service.
Covers(c) ==
  /\ along[c] = Active /\ Cardinality(Active) <= req[c].initial
  /\ req[c].all404 /\ reply[c] = "none" => removed[c] = 0
  /\ stage[c] # "loop" => Alone(c)
  /\ phase[c] \notin {"reactivate", "reload"}
  /\ phase[c] = "scan" => DOMAIN snap[c] = Active
  /\ phase[c] = "using" =>
       /\ held[c].id \in Active
       /\ nextIdx = (Place(Active, held[c].id) + 1) % Cardinality(Active)
  /\ Cardinality(Missed(c)) <= removed[c]

\* Unless no key is left that was in service all along.
CoversBehind ==
  \A c \in Chats : undisturbed[c] /\ stage[c] \notin {"ready", "done"}
                     => along[c] = {} \/ Covers(c)

\* Nothing is reserved but by a caller, so a request that is alone finds every
\* key free; and it has gone round the ring as far as it has spent attempts.
HistoryInv ==
  /\ RotInv /\ SeenIsStored /\ NoLeak
  /\ DOMAIN tried = Callers /\ DOMAIN along = Callers /\ DOMAIN undisturbed = Callers
  /\ removed \in [Callers -> Nat]
  /\ CoversBehind

\* The steps request d takes.
Acts(d) == StartChat(d) \/ StartRaises(d) \/ StartList(d) \/ Step(d) \/ Finish(d)

\* What a step of one request leaves to another.
LEMMA OtherActs ==
  ASSUME RotInv, NEW c \in Callers, NEW d \in Callers, d # c, Acts(d)
  PROVE  /\ stage'[c] = stage[c] /\ req'[c] = req[c] /\ reply'[c] = reply[c]
         /\ phase'[c] = phase[c] /\ snap'[c] = snap[c] /\ held'[c] = held[c]
         /\ nextIdx' = nextIdx \/ phase'[d] = "using"
  <1> USE DEF RotInv, RotTypeOK, KMInv, KMTypeOK
  <1>1. CASE StartChat(d) \/ StartRaises(d) \/ StartList(d) \/ NextAttempt(d) \/ Finish(d)
    BY <1>1 DEF StartChat, StartRaises, StartList, NextAttempt, Finish, Answer,
                PickBegin, CloseSession, kmVars
  <1>2. CASE Picking(d) \/ GotKey(d)
    BY <1>2 DEF Picking, GotKey, Load, Reactivate, Reload, Reserve, rotVars
  <1>3. CASE GotNone(d) \/ GotNoneToList(d) \/ PickFailed(d)
    BY <1>3 DEF GotNone, GotNoneToList, PickFailed, PickNothing, PickRaises, Conclude, Answer
  <1>4. CASE WaitOver(d)
    BY <1>4 DEF WaitOver, Continue, Conclude, Answer, kmVars
  <1>5. CASE Succeeded(d) \/ Refused(d) \/ Unusable(d) \/ PassedThrough(d) \/ Refreshed(d)
    BY <1>5 DEF Succeeded, Refused, Unusable, PassedThrough, Refreshed, Record, RecordUsage,
                NoRecord, Refresh, Rotate, Reply, rotVars
  <1>6. CASE Released(d) \/ CallFailed(d)
    BY <1>6 DEF Released, CallFailed, Release, RecordRaises, RecordFails, Continue,
                Conclude, Answer
  <1> QED
    BY <1>1, <1>2, <1>3, <1>4, <1>5, <1>6 DEF Acts, Step

\* A step of nobody in particular.
LEMMA OthersAct ==
  ASSUME Others \/ UNCHANGED vars
  PROVE  UNCHANGED <<stage, req, reply, phase, snap, held, nextIdx>>
  BY DEF Others, Environment, ProbeStep, ProbeBegin, ProbeEnd, rotVars, vars, kmVars

\* What the history variables say of a step of a request under way that nobody
\* disturbs.
LEMMA HistoryStep ==
  ASSUME HistoryInv, HistoryNext, NEW c \in Callers,
         undisturbed'[c], stage'[c] \notin {"ready", "done"}, ~Entering(c)
  PROVE  /\ undisturbed[c] /\ Alone(c)' /\ (Active' = Active \/ Moves(c))
         /\ tried'[c] = IF stage[c] = "picking" /\ stage'[c] = "calling"
                        THEN tried[c] \union {held'[c].id} ELSE tried[c]
         /\ along'[c] = along[c] \cap Active'
         /\ removed'[c] = removed[c] + IF Moves(c) THEN Cardinality(Active \ Active') ELSE 0
         /\ Active' = Active => removed'[c] = removed[c]
  <1>1. /\ undisturbed[c] /\ LeftAlone(c)
        /\ tried'[c] = IF stage[c] = "picking" /\ stage'[c] = "calling"
                       THEN tried[c] \union {held'[c].id} ELSE tried[c]
        /\ along'[c] = along[c] \cap Active'
        /\ removed'[c] = removed[c] + IF Moves(c) THEN Cardinality(Active \ Active') ELSE 0
    BY DEF HistoryNext, Over
  <1>2. ASSUME Active' = Active
        PROVE  removed'[c] = removed[c]
    <2>1. Active \ Active' = {}
      BY <1>2
    <2>2. Cardinality(Active \ Active') = 0
      BY <2>1, FS_EmptySet
    <2> QED
      BY <1>1, <2>2 DEF HistoryInv
  <1> QED
    BY <1>1, <1>2 DEF LeftAlone, Alone

\* What is missed is a finite set of keys.
LEMMA MissedIsFinite ==
  ASSUME NEW c \in Callers
  PROVE  /\ IsFiniteSet(Missed(c)) /\ Cardinality(Missed(c)) \in Nat
         /\ \A S : S \subseteq Missed(c) =>
              IsFiniteSet(S) /\ Cardinality(S) \in Nat /\ Cardinality(S) <= Cardinality(Missed(c))
  <1>1. Missed(c) \subseteq KeyIds
    BY DEF Missed, Last, Active
  <1>2. IsFiniteSet(Missed(c))
    BY <1>1, PoolSize
  <1> QED
    BY <1>2, FS_Subset, FS_CardinalityType

\* A step that touches neither the pointer nor the pool, nor what Covers reads
\* of the request, leaves Covers true.
LEMMA CoversStays ==
  ASSUME NEW c \in Callers, Covers(c), Active' = Active, nextIdx' = nextIdx,
         tried'[c] = tried[c], along'[c] = along[c] \cap Active', removed'[c] = removed[c],
         req'[c].initial = req[c].initial, Made(c)' = Made(c),
         req'[c].all404 /\ reply'[c] = "none" => req[c].all404 /\ reply[c] = "none",
         phase'[c] \notin {"reactivate", "reload"},
         phase'[c] = "scan" => DOMAIN snap'[c] = Active,
         phase'[c] = "using" => phase[c] = "using" /\ held'[c] = held[c],
         stage'[c] # "loop" => Alone(c)'
  PROVE  Covers(c)'
  <1>1. \A k \in Active : Offset(Active, k)' = Offset(Active, k)
    BY DEF Offset
  <1>2. Missed(c)' = Missed(c)
    BY <1>1 DEF Missed, Last
  <1>3. along'[c] = Active'
    BY DEF Covers
  <1>4. phase'[c] = "using" =>
          /\ held'[c].id \in Active'
          /\ nextIdx' = (Place(Active', held'[c].id) + 1) % Cardinality(Active')
    BY DEF Covers
  <1> QED
    BY <1>2, <1>3, <1>4 DEF Covers

\* A request that is alone and scans its list finds nothing reserved.
LEMMA AloneIsFree ==
  ASSUME NoLeak, NEW c \in Callers, Alone(c), phase[c] = "scan"
  PROVE  inFlight = {}
  BY DEF NoLeak, Alone, Reserving

\* A request that enters has all its attempts before it.
LEMMA EnteringCovers ==
  ASSUME HistoryInv, HistoryNext, RotInv', NEW c \in Chats, Entering(c), stage'[c] # "done"
  PROVE  Covers(c)'
  <1>1. c \in Callers /\ stage[c] = "ready" /\ stage'[c] # "ready"
    BY DEF Chats, Entering
  <1>2. StartChat(c)
    <2>1. ASSUME NEW d \in Callers, d # c, Acts(d)
          PROVE  FALSE
      BY <1>1, <2>1, OtherActs DEF HistoryInv
    <2>2. ASSUME Others
          PROVE  FALSE
      BY <1>1, <2>2, OthersAct
    <2>3. Acts(c)
      BY <2>1, <2>2 DEF HistoryNext, Next, Acts
    <2>4. ~StartRaises(c) /\ ~StartList(c)
      BY DEF StartRaises, StartList, Chats, Answer, HistoryInv, RotInv, RotTypeOK
    <2>5. ~Step(c) /\ ~Finish(c)
      BY <1>1 DEF Step, NextAttempt, Picking, GotKey, GotNone, GotNoneToList, PickFailed,
                  WaitOver, Succeeded, Refused, Unusable, PassedThrough, Refreshed, Released,
                  CallFailed, Finish
    <2> QED
      BY <2>3, <2>4, <2>5 DEF Acts
  <1> DEFINE n == Cardinality(Active)
             fresh == [NoLocals EXCEPT !.left = AtLeastOne(n) + Margin, !.initial = n]
  <1>3. /\ req'[c] = fresh /\ stage'[c] = "loop"
        /\ UNCHANGED kmVars /\ Active' = Active
    BY <1>1, <1>2 DEF StartChat, HistoryInv, RotInv, RotTypeOK, kmVars, Active
  <1>4. fresh.left = AtLeastOne(n) + Margin /\ fresh.initial = n
    BY DEF NoLocals
  <1>5. n \in Nat /\ AtLeastOne(n) + Margin \in Int
    BY ActiveCount, MaxIdAssumption, MarginAssumption DEF AtLeastOne
  <1>6. req'[c].left = AtLeastOne(n) + Margin /\ req'[c].initial = n
    BY <1>3, <1>4
  <1>7. Made(c)' = 0
    <2> HIDE DEF fresh
    <2>1. AtLeastOne(Cardinality(Active'))  = AtLeastOne(n)
      BY <1>3
    <2>2. AtLeastOne(n) \in Int /\ Margin \in Int
      BY <1>5, MarginAssumption DEF AtLeastOne
    <2> HIDE DEF n
    <2> QED
      BY <1>3, <1>6, <2>1, <2>2 DEF Made
  <1>8. phase'[c] # "scan"
    BY <1>1, <1>3 DEF RotInv, InStep, InLock
  <1>9. ASSUME NEW k \in Active
        PROVE  ~(Offset(Active, k)' >= n)
    <2>1. Offset(Active, k)' = Offset(Active, k)
      BY <1>3 DEF Offset, kmVars
    <2> QED
      BY <1>5, <2>1, OffsetRange DEF HistoryInv, RotInv
  <1>10. \A k \in Active : ~(Offset(Active, k)' >= n - Made(c)')
    BY <1>5, <1>7, <1>9
  <1>11. Cardinality(Missed(c)') = 0
    <2>1. Last(c)' = {}
      BY <1>3, <1>10 DEF Last
    <2>2. Missed(c)' = {}
      BY <2>1 DEF Missed
    <2> QED
      BY <2>2, FS_EmptySet
  <1>12. along'[c] = Active /\ removed'[c] = 0
    BY <1>1, <1>3 DEF HistoryNext, Over, Entering
  <1>13. phase'[c] \notin InLock \union Reserving
    BY <1>1, <1>3 DEF RotInv, InStep
  <1> HIDE DEF n
  <1>14. Cardinality(Active') <= req'[c].initial
    BY <1>3, <1>5, <1>6 DEF n
  <1> QED
    BY <1>3, <1>11, <1>12, <1>13, <1>14 DEF Covers, InLock, Reserving

\* The key a request reserves is the nearest, so it misses none.
LEMMA GotKeyCovers ==
  ASSUME HistoryInv, HistoryNext, NEW c \in Chats, Covers(c), GotKey(c), undisturbed'[c],
         Active' = Active
  PROVE  Covers(c)'
  <1> USE DEF HistoryInv, RotInv
  <1>1. /\ c \in Callers /\ stage[c] = "picking" /\ stage'[c] = "calling"
        /\ phase[c] = "scan" /\ phase'[c] = "using"
    BY DEF Chats, GotKey, Reserve, RotTypeOK, KMInv, KMTypeOK
  <1>2. inFlight = {} /\ DOMAIN snap[c] = Active
    BY <1>1, AloneIsFree DEF Covers
  <1>3. PICK m \in Active :
          /\ nextIdx' = (Place(Active, m) + 1) % Cardinality(Active)
          /\ held'[c].id = m
          /\ \A k \in Active : Offset(Active, m) <= Offset(Active, k)
    BY <1>1, <1>2 DEF GotKey, Reserve, IsFirstFree, Loaded, KMInv, KMTypeOK
  <1>4. /\ tried'[c] = tried[c] \union {m} /\ along'[c] = along[c] \cap Active'
        /\ removed'[c] = removed[c] /\ Alone(c)'
    BY <1>1, <1>3, HistoryStep DEF Entering
  <1>5. /\ req'[c].initial = req[c].initial /\ req'[c].left = req[c].left
        /\ req'[c].all404 = req[c].all404 /\ reply' = reply
    <2>1. req[c] \in Locals
      BY <1>1 DEF RotTypeOK
    <2> DEFINE after == [req[c] EXCEPT !.attempted = (c \in Chats)]
    <2>2. req'[c] = after /\ reply' = reply
      BY <1>1 DEF GotKey, RotTypeOK
    <2>3. after.initial = req[c].initial /\ after.left = req[c].left /\ after.all404 = req[c].all404
      BY <2>1 DEF Locals
    <2> QED
      BY <2>2, <2>3
  <1> DEFINE n == Cardinality(Active)
  <1>6. /\ n \in Nat /\ Made(c) \in Int /\ Made(c)' \in Int
        /\ Made(c)' = Made(c) + 1
    <2>1. n \in Nat /\ AtLeastOne(req[c].initial) \in Int /\ Margin \in Int /\ req[c].left \in Int
      BY <1>1, ActiveCount, MaxIdAssumption, MarginAssumption DEF AtLeastOne, RotTypeOK, Locals
    <2> QED
      BY <1>1, <1>5, <2>1 DEF Made
  <1>7. ASSUME NEW k \in Missed(c)'
        PROVE  k \in Missed(c)
    <2>1. /\ Offset(Active, k) \in 0..(n - 1) /\ Offset(Active, m) \in 0..(n - 1)
          /\ Offset(Active, m) <= Offset(Active, k)
          /\ k \in Active /\ k # m /\ k \notin tried[c] /\ Offset(Active, k)' >= n - Made(c)'
      BY <1>3, <1>4, <1>7, OffsetRange DEF Missed, Last
    <2>2. Offset(Active, k)' = Offset(Active, k) - Offset(Active, m) - 1
      BY <1>3, <2>1, OffsetsAfterReserve
    <2>3. Offset(Active, k) >= n - Made(c)
      BY <1>6, <2>1, <2>2
    <2> QED
      BY <2>1, <2>3 DEF Missed, Last
  <1>8. Cardinality(Missed(c)') <= removed'[c]
    <2>1. Missed(c)' \subseteq Missed(c)
      BY <1>7
    <2>2. Cardinality(Missed(c)') \in Nat /\ Cardinality(Missed(c)') <= Cardinality(Missed(c))
          /\ Cardinality(Missed(c)) \in Nat
      BY <1>1, <2>1, MissedIsFinite
    <2> QED
      BY <1>1, <1>4, <2>2 DEF Covers
  <1> HIDE DEF n
  <1>9. along'[c] = Active' /\ Cardinality(Active') <= req'[c].initial
    BY <1>4, <1>5 DEF Covers
  <1> QED
    BY <1>1, <1>3, <1>4, <1>5, <1>8, <1>9 DEF Covers

\* No other step of its own moves the pointer: it spends an attempt and begins
\* to pick, goes on, or finds the pool empty.
LEMMA OwnStepCovers ==
  ASSUME HistoryInv, HistoryNext, RotInv', NEW c \in Chats, Covers(c), Acts(c), ~GotKey(c),
         stage[c] \notin {"ready", "done"}, stage'[c] \notin {"ready", "done"},
         Active' = Active, undisturbed'[c]
  PROVE  along'[c] = {} \/ Covers(c)'
  <1> USE DEF HistoryInv, RotInv
  <1>1. /\ c \in Callers /\ req[c] \in Locals /\ ~Entering(c)
        /\ along'[c] = along[c] \cap Active' /\ removed'[c] = removed[c] /\ Alone(c)'
    BY HistoryStep DEF Chats, Entering, RotTypeOK
  <1>2. tried'[c] = tried[c]
    <2>1. ASSUME stage[c] = "picking", stage'[c] = "calling"
          PROVE  FALSE
      BY <1>1, <2>1 DEF Acts, Step, StartChat, StartRaises, StartList, NextAttempt, Picking,
           GotNone, GotNoneToList, PickFailed, WaitOver, Succeeded, Refused, Unusable,
           PassedThrough, Refreshed, Released, CallFailed, Finish, Conclude, Answer,
           rotVars, RotTypeOK
    <2> QED
      BY <1>1, <2>1, HistoryStep
  <1>3. CASE NextAttempt(c)
    <2>1. /\ stage[c] = "loop" /\ stage'[c] = "picking" /\ phase'[c] = "load"
          /\ nextIdx' = nextIdx /\ reply' = reply
      BY <1>1, <1>3 DEF NextAttempt, PickBegin, RotTypeOK, KMInv, KMTypeOK
    <2>2. /\ req'[c].initial = req[c].initial /\ req'[c].left = req[c].left - 1
          /\ req'[c].all404 = req[c].all404
      BY <1>1, <1>3 DEF NextAttempt, RotTypeOK, Locals
    <2>3. Made(c)' = Made(c)
      <3>1. AtLeastOne(req[c].initial) \in Int /\ Margin \in Int /\ req[c].left \in Int
        BY <1>1, MaxIdAssumption, MarginAssumption DEF AtLeastOne, Locals
      <3> QED
        BY <2>1, <2>2, <3>1 DEF Made
    <2> QED
      BY <1>1, <1>2, <2>1, <2>2, <2>3, CoversStays
  <1>4. ASSUME req'[c].initial = req[c].initial, req'[c].left = req[c].left,
               req'[c].all404 /\ reply'[c] = "none" => req[c].all404 /\ reply[c] = "none",
               stage'[c] = "picking" <=> stage[c] = "picking", nextIdx' = nextIdx,
               phase'[c] \notin {"reactivate", "reload", "using"},
               phase'[c] = "scan" => DOMAIN snap'[c] = Active
        PROVE  Covers(c)'
    <2>1. Made(c)' = Made(c)
      BY <1>4 DEF Made
    <2> QED
      BY <1>1, <1>2, <1>4, <2>1, CoversStays
  <1>5. CASE Picking(c)
    <2>1. Load(c) /\ UNCHANGED rotVars
      BY <1>5 DEF Picking, Covers, Reactivate, Reload
    <2>2. CASE Active = {}
      BY <1>1, <2>2
    <2>3. CASE Active # {}
      <3>1. phase'[c] = "scan" /\ DOMAIN snap'[c] = Active /\ nextIdx' = nextIdx
        BY <1>1, <2>1, <2>3 DEF Load, ActiveRows, KMInv, KMTypeOK
      <3> QED
        BY <1>4, <2>1, <3>1 DEF rotVars
    <2> QED
      BY <2>2, <2>3
  <1>6. CASE GotNone(c)
    <2>1. phase[c] = "scan" /\ stage[c] = "picking" /\ DOMAIN snap[c] \subseteq inFlight
      BY <1>6 DEF GotNone, PickNothing
    <2>2. inFlight = {} /\ DOMAIN snap[c] = Active
      BY <1>1, <2>1, AloneIsFree DEF Covers
    <2> QED
      BY <1>1, <2>1, <2>2
  <1>7. CASE WaitOver(c)
    <2>1. UNCHANGED kmVars /\ stage[c] = "waiting" /\ stage'[c] = "loop" /\ req' = req
          /\ reply' = reply
      BY <1>1, <1>7 DEF WaitOver, Continue, Conclude, Answer, RotTypeOK
    <2>2. phase'[c] \notin InLock \union Reserving
      BY <1>1, <2>1 DEF InStep
    <2> QED
      BY <1>4, <2>1, <2>2 DEF kmVars, InLock, Reserving
  <1>8. CASE Released(c)
    <2>1. /\ stage[c] = "calling" /\ stage'[c] = "loop" /\ req' = req /\ reply' = reply
          /\ phase'[c] = "idle" /\ nextIdx' = nextIdx
      BY <1>1, <1>8 DEF Released, Release, Continue, Conclude, Answer, RotTypeOK, KMInv, KMTypeOK
    <2> QED
      BY <1>4, <2>1
  <1>9. CASE Succeeded(c) \/ Refused(c) \/ Unusable(c) \/ PassedThrough(c) \/ Refreshed(c)
    <2>1. /\ stage[c] = "calling" /\ stage' = stage /\ nextIdx' = nextIdx
          /\ phase'[c] \in {"refresh", "recorded"}
      BY <1>1, <1>9 DEF Succeeded, Refused, Unusable, PassedThrough, Refreshed, Record, RecordUsage,
                  NoRecord, Refresh, Rotate, Reply, rotVars, KMInv, KMTypeOK
    <2>2. ASSUME NEW hint404 \in BOOLEAN, Rotate(c, hint404)
          PROVE  /\ req'[c].initial = req[c].initial /\ req'[c].left = req[c].left
                 /\ req'[c].all404 => req[c].all404
                 /\ reply' = reply
      BY <1>1, <2>2 DEF Rotate, RotTypeOK, Locals
    <2>3. \/ req' = req /\ (reply' = reply \/ reply'[c] # "none")
          \/ \E hint404 \in BOOLEAN : Rotate(c, hint404)
      BY <1>1, <1>9 DEF Succeeded, Refused, Unusable, PassedThrough, Refreshed, Reply, rotVars,
                        RotTypeOK
    <2> QED
      BY <1>4, <2>1, <2>2, <2>3
  <1>10. CASE \/ StartChat(c) \/ StartRaises(c) \/ StartList(c) \/ Finish(c)
              \/ GotNoneToList(c) \/ PickFailed(c) \/ CallFailed(c)
    BY <1>1, <1>10 DEF StartChat, StartRaises, StartList, Finish, GotNoneToList, PickFailed,
                       CallFailed, Answer, RotTypeOK
  <1> QED
    BY <1>3, <1>5, <1>6, <1>7, <1>8, <1>9, <1>10 DEF Acts, Step

\* The outcome it records may take the key it uses out of service, and no other;
\* the list it goes round is then shorter, and it may miss one key more.
LEMMA OwnOutcomeCovers ==
  ASSUME HistoryInv, HistoryNext, RotInv', NEW c \in Chats, Covers(c), Acts(c),
         stage[c] \notin {"ready", "done"}, stage'[c] \notin {"ready", "done"},
         Active' # Active, undisturbed'[c]
  PROVE  along'[c] = {} \/ Covers(c)'
  <1> USE DEF HistoryInv, RotInv
  <1>1. /\ c \in Callers /\ req[c] \in Locals /\ ~Entering(c)
        /\ along'[c] = along[c] \cap Active' /\ Alone(c)' /\ Moves(c)
        /\ removed'[c] = removed[c] + Cardinality(Active \ Active')
    BY HistoryStep DEF Chats, Entering, RotTypeOK
  <1>2. Succeeded(c) \/ Refused(c)
    <2>1. ~UNCHANGED rows
      BY DEF Active
    <2>2. ~Picking(c)
      BY <2>1 DEF Picking, Load, Reactivate, Reload, Covers
    <2> QED
      BY <2>1, <2>2 DEF Acts, Step, StartChat, StartRaises, StartList, NextAttempt, GotKey, GotNone,
           GotNoneToList, PickFailed, WaitOver, Unusable, PassedThrough, Refreshed, Released,
           CallFailed, Finish, PickBegin, Reserve, PickNothing, PickRaises, NoRecord, Refresh,
           Release, RecordRaises, RecordFails, CloseSession, kmVars
  <1> DEFINE k == held[c].id
             rest == Active \ {k}
             n == Cardinality(Active)
  <1>3. /\ phase[c] = "using" /\ phase'[c] \in {"refresh", "recorded"}
        /\ stage[c] = "calling" /\ stage' = stage
        /\ nextIdx' = nextIdx
        /\ \E row : rows' = [rows EXCEPT ![k] = row]
    <2>1. stage[c] = "calling" /\ stage' = stage
      BY <1>2 DEF Succeeded, Refused, Rotate, Reply
    <2>2. RecordUsage(c) \/ \E verdict \in Verdicts : Record(c, verdict)
      BY <1>2 DEF Succeeded, Refused, Verdicts
    <2>3. /\ phase[c] = "using" /\ phase'[c] \in {"refresh", "recorded"}
          /\ nextIdx' = nextIdx
      BY <1>1, <2>2 DEF Record, RecordUsage, KMInv, KMTypeOK
    <2>4. \E row : rows' = [rows EXCEPT ![k] = row]
      <3>1. rows' # rows
        BY DEF Active
      <3>2. CASE RecordUsage(c)
        BY <3>1, <3>2 DEF RecordUsage
      <3>3. ASSUME NEW verdict \in Verdicts, Record(c, verdict)
            PROVE  \E row : rows' = [rows EXCEPT ![k] = row]
        BY <3>3 DEF Record
      <3> QED
        BY <2>2, <3>2, <3>3
    <2> QED
      BY <2>1, <2>3, <2>4
  <1>4. k \in Active /\ nextIdx = (Place(Active, k) + 1) % n
    BY <1>3 DEF Covers
  <1>5. Active' = rest
    BY <1>3, <1>4 DEF Active, KMInv, KMTypeOK
  <1>6. tried'[c] = tried[c]
    BY <1>1, <1>3, HistoryStep
  <1>7. /\ req'[c].initial = req[c].initial /\ req'[c].left = req[c].left
        /\ ~(req'[c].all404 /\ reply'[c] = "none")
    <2>1. CASE Succeeded(c)
      BY <1>1, <2>1 DEF Succeeded, Reply, RotTypeOK
    <2>2. CASE Refused(c)
      BY <1>1, <2>2 DEF Refused, Rotate, RotTypeOK, Locals, Chats
    <2> QED
      BY <1>2, <2>1, <2>2
  <1>8. Made(c)' = Made(c) /\ Made(c) \in Int
    <2>1. AtLeastOne(req[c].initial) \in Int /\ Margin \in Int /\ req[c].left \in Int
      BY <1>1, MaxIdAssumption, MarginAssumption DEF AtLeastOne, Locals
    <2> QED
      BY <1>3, <1>7, <2>1 DEF Made
  <1>9. PICK e : Missed(c)' \subseteq Missed(c) \union {e}
    <2> DEFINE from == (Place(Active, k) + 1) % Cardinality(Active)
    <2>1. Active \subseteq KeyIds
      BY DEF Active
    <2>2. PICK e \in KeyIds :
            {m \in rest : Distance(rest, from, m) >= Cardinality(rest) - Made(c)}
              \subseteq {m \in Active : Distance(Active, from, m) >= Cardinality(Active) - Made(c)}
                        \union {e}
      <3> HIDE DEF k
      <3> QED
        BY <1>4, <1>8, <2>1, OneMoreBehind
    <2>3. /\ \A m : Distance(Active, from, m) = Offset(Active, m)
          /\ \A m : Distance(rest, from, m) = Offset(Active, m)'
      <3>1. from = nextIdx /\ nextIdx' = nextIdx
        BY <1>3, <1>4
      <3> HIDE DEF from, k
      <3> QED
        BY <1>5, <3>1 DEF Distance, Offset
    <2> HIDE DEF from, k, rest
    <2>4. Last(c) = {m \in Active : Distance(Active, from, m) >= Cardinality(Active) - Made(c)}
      BY <2>3 DEF Last
    <2>5. Last(c)' = {m \in rest : Distance(rest, from, m) >= Cardinality(rest) - Made(c)}
      BY <1>5, <1>8, <2>3 DEF Last
    <2>6. Last(c)' \subseteq Last(c) \union {e}
      BY <2>2, <2>4, <2>5
    <2> QED
      BY <1>6, <2>6 DEF Missed
  <1>10. Cardinality(Missed(c)') <= removed'[c]
    <2>1. /\ IsFiniteSet(Missed(c)) /\ Cardinality(Missed(c)) \in Nat
          /\ Cardinality(Missed(c)) <= removed[c] /\ removed[c] \in Nat
      BY <1>1, MissedIsFinite DEF Covers
    <2>2. /\ IsFiniteSet(Missed(c) \union {e})
          /\ Cardinality(Missed(c) \union {e}) <= Cardinality(Missed(c)) + 1
          /\ Cardinality(Missed(c) \union {e}) \in Nat
      <3> DEFINE M == Missed(c)
      <3>1. IsFiniteSet(M) /\ Cardinality(M) \in Nat
        BY <2>1
      <3> HIDE DEF M
      <3>2. /\ IsFiniteSet(M \union {e})
            /\ Cardinality(M \union {e}) = Cardinality(M)
               \/ Cardinality(M \union {e}) = Cardinality(M) + 1
        BY <3>1, FS_AddElement
      <3>3. Cardinality(M \union {e}) <= Cardinality(M) + 1 /\ Cardinality(M \union {e}) \in Nat
        BY <3>1, <3>2
      <3> QED
        BY <3>2, <3>3 DEF M
    <2>3. /\ Cardinality(Missed(c)') <= Cardinality(Missed(c) \union {e})
          /\ Cardinality(Missed(c)') \in Nat
      BY <1>9, <2>2, FS_Subset, FS_CardinalityType
    <2>4. Cardinality(Active \ Active') = 1
      <3>1. Active \ Active' = {k}
        BY <1>4, <1>5
      <3> QED
        BY <3>1, FS_Singleton
    <2> QED
      BY <1>1, <2>1, <2>2, <2>3, <2>4
  <1>11. Cardinality(Active') <= req'[c].initial
    <2>1. Active \subseteq KeyIds
      BY DEF Active
    <2>2. IsFiniteSet(Active) /\ n \in Nat /\ Cardinality(rest) = n - 1
      BY <1>4, <2>1, PoolSize, FS_RemoveElement
    <2>3. n <= req[c].initial /\ req[c].initial \in Nat
      BY <1>1, MaxIdAssumption DEF Covers, Locals
    <2> QED
      BY <1>5, <1>7, <2>2, <2>3
  <1>12. along'[c] = Active'
    BY <1>1, <1>5 DEF Covers
  <1> HIDE DEF k, rest, n
  <1> QED
    BY <1>1, <1>3, <1>7, <1>10, <1>11, <1>12 DEF Covers

\* Another request that leaves this one undisturbed moves no pointer.
LEMMA CoversStep ==
  ASSUME HistoryInv, RotInv', HistoryNext
  PROVE  CoversBehind'
  <1> SUFFICES ASSUME NEW c \in Chats, undisturbed'[c], stage'[c] \notin {"ready", "done"}
               PROVE  along'[c] = {} \/ Covers(c)'
    BY DEF CoversBehind
  <1> USE DEF HistoryInv
  <1>1. c \in Callers
    BY DEF Chats
  <1>2. CASE Entering(c)
    BY <1>2, EnteringCovers
  <1>3. CASE ~Entering(c)
    <2>1. /\ undisturbed[c] /\ Alone(c)' /\ stage[c] # "ready"
          /\ Active' = Active \/ Moves(c)
          /\ along'[c] = along[c] \cap Active'
          /\ Active' = Active => removed'[c] = removed[c]
      BY <1>1, <1>3, HistoryStep DEF Entering
    <2>2. CASE along[c] = {}
      BY <2>1, <2>2
    <2>3. CASE Acts(c) /\ along[c] # {}
      <3>1. stage[c] # "done"
        BY <1>1, <2>3 DEF Acts, Step, StartChat, StartRaises, StartList, NextAttempt, Picking,
             GotKey, GotNone, GotNoneToList, PickFailed, WaitOver, Succeeded, Refused, Unusable,
             PassedThrough, Refreshed, Released, CallFailed, Finish, RotInv, RotTypeOK
      <3>2. Covers(c)
        BY <2>1, <2>3, <3>1 DEF CoversBehind
      <3>3. GotKey(c) => Active' = Active
        BY DEF GotKey, Reserve, Active
      <3> QED
        BY <2>1, <2>3, <3>1, <3>2, <3>3, GotKeyCovers, OwnStepCovers, OwnOutcomeCovers
    <2>4. ASSUME UNCHANGED nextIdx, stage'[c] = stage[c], req'[c] = req[c], reply'[c] = reply[c],
                 phase'[c] = phase[c], snap'[c] = snap[c], held'[c] = held[c], along[c] # {}
          PROVE  Covers(c)'
      <3>1. Covers(c)
        BY <2>1, <2>4 DEF CoversBehind
      <3>2. tried'[c] = tried[c] /\ Active' = Active
        BY <1>1, <1>3, <2>1, <2>4, HistoryStep DEF Moves
      <3>3. Made(c)' = Made(c)
        BY <2>4 DEF Made
      <3>4. /\ phase'[c] = "scan" => DOMAIN snap'[c] = Active
            /\ phase'[c] \notin {"reactivate", "reload"}
        BY <2>4, <3>1 DEF Covers
      <3> QED
        BY <1>1, <2>1, <2>4, <3>1, <3>2, <3>3, <3>4, CoversStays
    <2>5. ASSUME NEW d \in Callers, d # c, Acts(d)
          PROVE  along'[c] = {} \/ Covers(c)'
      <3>1. phase'[d] # "using"
        BY <2>1, <2>5 DEF Alone
      <3> QED
        BY <1>1, <2>2, <2>4, <2>5, <3>1, OtherActs
    <2>6. CASE Others
      BY <2>2, <2>4, <2>6, OthersAct
    <2> QED
      BY <2>2, <2>3, <2>5, <2>6 DEF HistoryNext, Next, Acts
  <1> QED
    BY <1>2, <1>3

\* The number of keys put out of service is a number.
LEMMA RemovedType ==
  ASSUME removed \in [Callers -> Nat], HistoryNext
  PROVE  removed' \in [Callers -> Nat]
  <1>1. Cardinality(Active \ Active') \in Nat
    <2>1. Active \ Active' \subseteq KeyIds
      BY DEF Active
    <2> QED
      BY <2>1, PoolSize
  <1>2. ASSUME NEW c \in Callers
        PROVE  (IF Entering(c) \/ Over(c) THEN 0
                ELSE removed[c] + IF Moves(c) THEN Cardinality(Active \ Active') ELSE 0) \in Nat
    BY <1>1
  <1> QED
    BY <1>2 DEF HistoryNext

\* The reservations, the coverage and the history, after each step.
LEMMA HistoryInvStep ==
  ASSUME "delete" \notin AdminOps, ~DbMayFail, HistoryInv,
         [HistoryNext]_<<vars, histVars>>
  PROVE  HistoryInv'
  <1> USE DEF HistoryInv
  <1>1. RotInv'
    BY RotInvStep DEF HistoryNext, histVars
  <1>2. CASE HistoryNext
    <2>1. [KMNext]_kmVars
      BY <1>2, ManagerStep DEF HistoryNext
    <2>2. SeenIsStored' /\ NoLeak'
      <3>1. CASE KMNext
        BY <3>1, SeenStep, KeptStep DEF RotInv
      <3>2. CASE UNCHANGED kmVars
        BY <3>2 DEF kmVars, SeenIsStored, NoLeak
      <3> QED
        BY <2>1, <3>1, <3>2
    <2>3. CoversBehind'
      BY <1>1, <1>2, CoversStep
    <2>4. removed' \in [Callers -> Nat]
      BY <1>2, RemovedType
    <2> QED
      BY <1>1, <1>2, <2>2, <2>3, <2>4 DEF HistoryNext
  <1>3. CASE UNCHANGED <<vars, histVars>>
    <2>1. UNCHANGED <<rows, nextIdx, inFlight, phase, snap, held, stage, req, reply,
                      tried, along, removed, undisturbed>>
      BY <1>3 DEF vars, histVars, kmVars, rotVars
    <2>2. Active' = Active
      BY <2>1 DEF Active
    <2>3. ASSUME NEW c \in Callers, Covers(c)
          PROVE  Covers(c)'
      <3>1. Made(c)' = Made(c)
        BY <2>1 DEF Made
      <3>2. Alone(c)' = Alone(c)
        BY <2>1 DEF Alone
      <3>3. along'[c] = along[c] \cap Active'
        BY <2>1, <2>2, <2>3 DEF Covers
      <3> QED
        BY <2>1, <2>2, <2>3, <3>1, <3>2, <3>3, CoversStays DEF Covers
    <2>4. CoversBehind'
      BY <2>1, <2>3 DEF CoversBehind, Chats
    <2> QED
      BY <1>1, <2>1, <2>4 DEF SeenIsStored, NoLeak
  <1> QED
    BY <1>2, <1>3

\* Only a request whose attempts are spent, or that found no key at the start,
\* gives up; "not available" it says only when all its keys answered 404.
LEMMA GivingUp ==
  ASSUME HistoryInv, HistoryNext, NEW c \in Chats, undisturbed[c],
         Answers(c, "failed") \/ Answers(c, "noModel")
  PROVE  /\ Cardinality(along[c] \ tried[c]) <= removed[c]
         /\ Answers(c, "noModel") => along[c] \subseteq tried[c]
  <1> USE DEF HistoryInv, RotInv
  <1>1. c \in Callers /\ reply[c] = "none" /\ reply'[c] \in {"failed", "noModel"}
    BY DEF Chats, Answers
  <1>2. Acts(c)
    <2>1. ASSUME NEW d \in Callers, d # c, Acts(d)
          PROVE  FALSE
      BY <1>1, <2>1, OtherActs
    <2>2. ASSUME Others
          PROVE  FALSE
      BY <1>1, <2>2, OthersAct
    <2> QED
      BY <2>1, <2>2 DEF HistoryNext, Next, Acts
  <1>3. /\ \/ stage[c] = "picking" /\ req[c].initial = 0
           \/ stage[c] \in {"waiting", "calling"} /\ req[c].left = 0
        /\ Conclude(c)
    <2>1. CASE StartChat(c) \/ StartRaises(c) \/ StartList(c) \/ Finish(c)
      BY <1>1, <2>1 DEF StartChat, StartRaises, StartList, Finish, Answer, RotTypeOK
    <2>2. CASE NextAttempt(c) \/ Picking(c) \/ GotKey(c)
      BY <1>1, <2>2 DEF NextAttempt, Picking, GotKey, rotVars
    <2>3. CASE GotNone(c) \/ GotNoneToList(c) \/ PickFailed(c)
      BY <1>1, <2>3 DEF GotNone, GotNoneToList, PickFailed, Answer, RotTypeOK
    <2>4. CASE WaitOver(c) \/ Released(c) \/ CallFailed(c)
      BY <1>1, <2>4 DEF WaitOver, Released, CallFailed, Continue, Answer, RotTypeOK
    <2>5. CASE Succeeded(c) \/ Refused(c) \/ Unusable(c) \/ PassedThrough(c) \/ Refreshed(c)
      BY <1>1, <2>5 DEF Succeeded, Refused, Unusable, PassedThrough, Refreshed, Reply, Rotate,
                        rotVars, RotTypeOK
    <2> QED
      BY <1>2, <2>1, <2>2, <2>3, <2>4, <2>5 DEF Acts, Step
  <1>4. CASE along[c] = {}
    <2>1. along[c] \ tried[c] = {} /\ removed[c] \in Nat
      BY <1>1, <1>4
    <2>2. Cardinality(along[c] \ tried[c]) = 0
      BY <2>1, FS_EmptySet
    <2> QED
      BY <1>4, <2>1, <2>2
  <1>5. CASE along[c] # {}
    <2> DEFINE n == Cardinality(Active)
    <2>1. Covers(c)
      BY <1>3, <1>5 DEF CoversBehind
    <2>2. n \in Nat /\ req[c].initial \in Nat /\ n <= req[c].initial /\ n # 0
      <3>1. n \in Nat /\ req[c].initial \in Nat
        BY <1>1, ActiveCount, MaxIdAssumption DEF RotTypeOK, Locals
      <3>2. IsFiniteSet(Active) /\ Active # {}
        BY <1>5, <2>1, PoolSize DEF Covers, Active
      <3> QED
        BY <2>1, <3>1, <3>2, FS_EmptySet DEF Covers
    <2>3. stage[c] \in {"waiting", "calling"} /\ req[c].left = 0
      BY <1>3, <2>2
    <2>4. Made(c) \in Int /\ Made(c) >= n
      <3>1. AtLeastOne(req[c].initial) \in Nat /\ AtLeastOne(req[c].initial) >= req[c].initial
        BY <2>2 DEF AtLeastOne
      <3>2. Margin \in Nat
        BY MarginAssumption
      <3>3. Made(c) = AtLeastOne(req[c].initial) + Margin
        BY <2>3, <3>1, <3>2 DEF Made
      <3> HIDE DEF n
      <3> QED
        BY <2>2, <3>1, <3>2, <3>3
    <2>5. Missed(c) = along[c] \ tried[c]
      <3>1. ASSUME NEW k \in Active
            PROVE  Offset(Active, k) >= n - Made(c)
        BY <2>2, <2>4, <3>1, OffsetRange
      <3>2. Last(c) = Active
        BY <3>1 DEF Last
      <3> QED
        BY <2>1, <3>2 DEF Missed, Covers
    <2>6. Cardinality(along[c] \ tried[c]) <= removed[c]
      BY <2>1, <2>5 DEF Covers
    <2>7. ASSUME Answers(c, "noModel")
          PROVE  along[c] \subseteq tried[c]
      <3>1. req[c].all404
        BY <1>1, <1>3, <2>7 DEF Conclude, Answer, Answers, RotTypeOK, Locals
      <3>2. removed[c] = 0
        BY <1>1, <2>1, <3>1 DEF Covers
      <3>3. /\ IsFiniteSet(Missed(c)) /\ Cardinality(Missed(c)) \in Nat
            /\ Cardinality(Missed(c)) <= 0
        BY <1>1, <2>1, <3>2, MissedIsFinite DEF Covers
      <3>4. Missed(c) = {}
        BY <3>3, FS_EmptySet
      <3> QED
        BY <2>5, <3>4
    <2> QED
      BY <2>6, <2>7
  <1> QED
    BY <1>4, <1>5

\* A request nobody disturbs gives up only when it has called every key that was in
\* service all along, but for one at most for each key its own outcomes (401, 403,
\* 429) took from the ring under the pointer; and says that the model is not
\* available only when it has called them all: for any number of keys, wherever the
\* pointer stands, and whatever spare attempts are configured.
THEOREM EveryKeyIsTried ==
  ASSUME "delete" \notin AdminOps, ~DbMayFail
  PROVE  HistorySpec => GivesUpAfterAll
  <1>1. HistoryInit => HistoryInv
    BY RotInitInv DEF HistoryInit, HistoryInv, CoversBehind, Init, KMInit, SeenIsStored, NoLeak,
                      NoSnap, Reserving, Chats
  <1>2. HistoryInv /\ [HistoryNext]_<<vars, histVars>> => HistoryInv'
    BY HistoryInvStep
  <1>3. HistoryInv /\ [HistoryNext]_<<vars, histVars>>
          => [\A c \in Chats : undisturbed[c] =>
                /\ Answers(c, "noModel") => along[c] \subseteq tried[c]
                /\ Answers(c, "failed") => Cardinality(along[c] \ tried[c]) <= removed[c]]_<<vars, histVars>>
    BY GivingUp
  <1> QED
    BY <1>1, <1>2, <1>3, PTL DEF HistorySpec, GivesUpAfterAll

(***************************************************************************)
(* Every step of a request brings its answer nearer                        *)
(***************************************************************************)

\* Between its picks and calls a request is nowhere in the key manager.
LEMMA IdleBetween ==
  ASSUME RotInv, NEW c \in Callers, stage[c] \notin {"picking", "calling"}
  PROVE  phase[c] = "idle"
  BY DEF RotInv, KMInv, KMTypeOK, InStep, InLock, Reserving, Phases

\* An answer leaves nothing to do.
LEMMA AnsweredIsLess ==
  ASSUME RotInv, RotInv', NEW c \in Callers, stage'[c] = "done", req'[c].left = 0,
         \/ StepsLeft[phase[c]] > 0
         \/ stage[c] = "waiting"
  PROVE  Remaining(c)' < Remaining(c)
  <1>1. phase'[c] = "idle"
    <2>1. stage'[c] \notin {"picking", "calling"}
      OBVIOUS
    <2> QED
      BY <2>1 DEF RotInv, KMInv, KMTypeOK, InStep, InLock, Reserving, Phases
  <1>2. req[c].left \in Nat
    BY MaxIdAssumption, MarginAssumption DEF RotInv, RotTypeOK, Locals
  <1>3. StepsLeft[phase[c]] \in Nat
    BY DEF RotInv, KMInv, KMTypeOK, StepsLeft, Phases
  <1>4. Remaining(c)' = 0
    BY <1>1 DEF Remaining, StepsLeft
  <1> QED
    BY <1>2, <1>3, <1>4 DEF Remaining

\* The end of an attempt, with an answer or without.
LEMMA ContinueIsLess ==
  ASSUME RotInv, RotInv', NEW c \in Callers, Continue(c),
         StepsLeft[phase[c]] > 0 \/ stage[c] = "waiting"
  PROVE  Remaining(c)' < Remaining(c)
  <1> USE DEF RotInv, RotTypeOK
  <1>1. CASE req[c].left = 0
    <2>1. stage'[c] = "done" /\ req'[c].left = 0
      BY <1>1 DEF Continue, Conclude, Answer, NoLocals
    <2> QED
      BY <2>1, AnsweredIsLess
  <1>2. CASE req[c].left # 0
    <2>1. stage'[c] = "loop" /\ req'[c].left = req[c].left
      BY <1>2 DEF Continue
    <2>2. phase'[c] = "idle"
      BY <2>1 DEF KMInv, KMTypeOK, InStep, InLock, Reserving, Phases
    <2>3. req[c].left \in Nat /\ StepsLeft[phase[c]] \in Nat
      BY MaxIdAssumption, MarginAssumption DEF Locals, KMInv, KMTypeOK, StepsLeft, Phases
    <2>4. Remaining(c)' = 8 * req[c].left
      BY <2>1, <2>2, <2>3 DEF Remaining, StepsLeft
    <2> QED
      BY <2>3, <2>4 DEF Remaining
  <1> QED
    BY <1>1, <1>2

\* One step of a request that is under way.
LEMMA StepIsLess ==
  ASSUME RotInv, RotInv', NEW c \in Callers, Step(c)
  PROVE  Remaining(c)' < Remaining(c)
  <1> USE DEF RotInv, RotTypeOK, KMInv, KMTypeOK
  <1>1. req[c].left \in Nat
    BY MaxIdAssumption, MarginAssumption DEF Locals
  <1>2. ASSUME req'[c].left = req[c].left, stage'[c] # "waiting",
               stage[c] # "waiting", StepsLeft[phase'[c]] < StepsLeft[phase[c]]
        PROVE  Remaining(c)' < Remaining(c)
    <2>1. StepsLeft[phase[c]] \in Nat /\ StepsLeft[phase'[c]] \in Nat
      BY DEF StepsLeft, Phases
    <2> QED
      BY <1>1, <1>2, <2>1 DEF Remaining
  <1>3. CASE NextAttempt(c)
    <2>1. /\ stage[c] = "loop" /\ stage'[c] = "picking"
          /\ phase[c] = "idle" /\ phase'[c] = "load"
          /\ req[c].left > 0 /\ req'[c].left = req[c].left - 1
      BY <1>3 DEF NextAttempt, PickBegin, Locals
    <2>2. Remaining(c)' = 8 * (req[c].left - 1) + 7 /\ Remaining(c) = 8 * req[c].left + 0
      BY <2>1 DEF Remaining, StepsLeft
    <2> QED
      BY <1>1, <2>2
  <1>4. CASE Picking(c)
    <2>1. stage[c] = "picking" /\ stage'[c] = "picking" /\ req'[c] = req[c]
      BY <1>4 DEF Picking, rotVars
    <2>2. StepsLeft[phase'[c]] < StepsLeft[phase[c]]
      BY <1>4 DEF Picking, Load, Reactivate, Reload, StepsLeft
    <2> QED
      BY <1>2, <2>1, <2>2
  <1>5. CASE GotKey(c)
    <2>1. stage[c] = "picking" /\ stage'[c] = "calling" /\ req'[c].left = req[c].left
      BY <1>5 DEF GotKey, Locals
    <2>2. StepsLeft[phase'[c]] < StepsLeft[phase[c]]
      BY <1>5 DEF GotKey, Reserve, StepsLeft
    <2> QED
      BY <1>2, <2>1, <2>2
  <1>6. CASE GotNone(c)
    <2>1. phase[c] = "scan" /\ phase'[c] = "idle" /\ stage[c] = "picking"
      BY <1>6 DEF GotNone, PickNothing
    <2>2. CASE req[c].initial = 0
      <3>1. stage'[c] = "done" /\ req'[c].left = 0
        BY <1>6, <2>2 DEF GotNone, Conclude, Answer, NoLocals
      <3> QED
        BY <2>1, <3>1, AnsweredIsLess DEF StepsLeft
    <2>3. CASE req[c].initial # 0
      <3>1. stage'[c] = "waiting" /\ req'[c] = req[c]
        BY <1>6, <2>3 DEF GotNone
      <3> QED
        BY <1>1, <2>1, <3>1 DEF Remaining, StepsLeft
    <2> QED
      BY <2>2, <2>3
  <1>7. CASE GotNoneToList(c) \/ PickFailed(c)
    <2>1. stage'[c] = "done" /\ req'[c].left = 0
      BY <1>7 DEF GotNoneToList, PickFailed, Answer, NoLocals
    <2>2. StepsLeft[phase[c]] > 0
      BY <1>7 DEF GotNoneToList, PickFailed, PickNothing, PickRaises, InLock, StepsLeft
    <2> QED
      BY <2>1, <2>2, AnsweredIsLess
  <1>8. CASE WaitOver(c)
    BY <1>8, ContinueIsLess DEF WaitOver
  <1>9. CASE Succeeded(c) \/ Refused(c) \/ Unusable(c) \/ PassedThrough(c) \/ Refreshed(c)
    <2>1. stage[c] = "calling" /\ stage'[c] = "calling" /\ req'[c].left = req[c].left
      BY <1>9 DEF Succeeded, Refused, Unusable, PassedThrough, Refreshed, Rotate, Reply,
                  Locals, rotVars
    <2>2. StepsLeft[phase'[c]] < StepsLeft[phase[c]]
      <3>1. CASE Succeeded(c) \/ Refused(c)
        <4>1. phase[c] = "using" /\ phase' \in {[phase EXCEPT ![c] = "refresh"],
                                               [phase EXCEPT ![c] = "recorded"]}
          BY <3>1 DEF Succeeded, Refused, Record, RecordUsage
        <4> QED
          BY <4>1 DEF StepsLeft
      <3>2. CASE Unusable(c) \/ PassedThrough(c)
        BY <3>2 DEF Unusable, PassedThrough, NoRecord, StepsLeft
      <3>3. CASE Refreshed(c)
        BY <3>3 DEF Refreshed, Refresh, StepsLeft
      <3> QED
        BY <1>9, <3>1, <3>2, <3>3
    <2> QED
      BY <1>2, <2>1, <2>2
  <1>10. CASE Released(c)
    <2>1. phase[c] = "recorded"
      BY <1>10 DEF Released, Release
    <2>2. CASE reply[c] = "none"
      BY <1>10, <2>1, <2>2, ContinueIsLess DEF Released, StepsLeft
    <2>3. CASE reply[c] # "none"
      <3>1. stage'[c] = "done" /\ req'[c].left = 0
        BY <1>10, <2>3 DEF Released, Answer, NoLocals
      <3> QED
        BY <2>1, <3>1, AnsweredIsLess DEF StepsLeft
    <2> QED
      BY <2>2, <2>3
  <1>11. CASE CallFailed(c)
    <2>1. stage'[c] = "done" /\ req'[c].left = 0
      BY <1>11 DEF CallFailed, Answer, NoLocals
    <2>2. StepsLeft[phase[c]] > 0
      BY <1>11 DEF CallFailed, RecordRaises, RecordFails, StepsLeft
    <2> QED
      BY <2>1, <2>2, AnsweredIsLess
  <1> QED
    BY <1>3, <1>4, <1>5, <1>6, <1>7, <1>8, <1>9, <1>10, <1>11 DEF Step

\* A request under way answers after a number of steps that is fixed when it starts,
\* eight for each attempt it is given, whatever the upstream, the database and the
\* others do: no wait, refusal or failure starts it anew, and nobody else moves it.
THEOREM RequestsCountDown == Spec => CountsDown
  <1>1. RotInv /\ [Next]_vars =>
          [\A c \in Callers :
             stage[c] \notin {"ready", "done"} =>
               \/ UNCHANGED <<stage[c], req[c], reply[c], phase[c], snap[c], held[c]>>
               \/ Remaining(c)' < Remaining(c)]_vars
    <2> SUFFICES ASSUME RotInv, [Next]_vars, NEW c \in Callers, stage[c] \notin {"ready", "done"}
                 PROVE  \/ UNCHANGED <<stage[c], req[c], reply[c], phase[c], snap[c], held[c]>>
                        \/ Remaining(c)' < Remaining(c)
      OBVIOUS
    <2>1. RotInv'
      BY RotInvStep
    <2>2. CASE Others \/ UNCHANGED vars
      BY <2>2, OthersAct
    <2>3. ASSUME NEW d \in Callers, d # c, Acts(d)
          PROVE  UNCHANGED <<stage[c], req[c], reply[c], phase[c], snap[c], held[c]>>
      BY <2>3, OtherActs
    <2>4. CASE Step(c)
      BY <2>1, <2>4, StepIsLess
    <2>5. ~(StartChat(c) \/ StartRaises(c) \/ StartList(c) \/ Finish(c))
      BY DEF StartChat, StartRaises, StartList, Finish
    <2> QED
      BY <2>2, <2>3, <2>4, <2>5 DEF Next, Acts
  <1> QED
    BY <1>1, RotInitInv, RotInvStep, PTL DEF Spec, CountsDown
=============================================================================
