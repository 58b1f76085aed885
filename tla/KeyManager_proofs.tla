-------------------------- MODULE KeyManager_proofs --------------------------
(***************************************************************************)
(* The reservations of KeyManager, for any number of callers, probers and  *)
(* keys and any behaviour of the administrator and the database, the       *)
(* cooldown of depleted keys, and the pointer of RoundRobin.               *)
(***************************************************************************)
EXTENDS RoundRobin, FiniteSetTheorems, TLAPS

(***************************************************************************)
(* Rows stay rows.                                                         *)
(***************************************************************************)

\* Whatever copy the writer holds, recording an outcome on a stored row gives a
\* row: no column is ever left without a value by the ORM's partial UPDATE.
LEMMA RecordedType ==
  ASSUME NEW row \in Row, NEW copy \in Row \union {NoRow}, NEW verdict \in Verdicts
  PROVE  Recorded(verdict, row, copy) \in Row
  BY DEF Recorded, Verdicts, Row, Statuses, Cooldowns, Success, SuccessWithUsage,
         Unauthorized, RateLimited, ServerError, NewRow, Flush, ClearCooldown

\* The sweep keeps rows rows and absent rows absent.
LEMMA ReactivatedType ==
  ASSUME NEW row \in Row \union {NoRow}
  PROVE  /\ Reactivated(row) \in Row \union {NoRow}
         /\ row = NoRow => Reactivated(row) = NoRow
  BY DEF Reactivated, Row, Statuses, Cooldowns, NewRow, NoRow

\* A loaded object is a row with the cooldown reduced to NULL or not.
LEMMA RememberType ==
  ASSUME NEW row \in Row
  PROVE  Remember(row) \in Row
  BY DEF Remember, Row, Cooldowns

\* NoRow is no row, so "the row exists" can be read from its value.
LEMMA NoRowIsNoRow == NoRow \notin Row
  BY DEF NoRow, Row, Statuses

\* The administrator and the clock leave a table of rows.
LEMMA EnvironmentType ==
  ASSUME rows \in [KeyIds -> Row \union {NoRow}], Environment
  PROVE  rows' \in [KeyIds -> Row \union {NoRow}]
  <1>1. NewRow \in Row
    BY DEF NewRow, Row, Statuses, Cooldowns
  <1>2. ASSUME NEW k \in KeyIds, CreateKey(k) \/ DeleteKey(k)
        PROVE  rows' \in [KeyIds -> Row \union {NoRow}]
    BY <1>1, <1>2 DEF CreateKey, DeleteKey
  <1>3. ASSUME NEW k \in KeyIds, NEW s \in Statuses, PatchStatus(k, s)
        PROVE  rows' \in [KeyIds -> Row \union {NoRow}]
    <2>1. rows[k] \in Row
      BY <1>3 DEF PatchStatus
    <2>2. [rows[k] EXCEPT !.status = s] \in Row
      BY <2>1 DEF Row
    <2> QED
      BY <1>3, <2>2 DEF PatchStatus
  <1>4. CASE ResetStates
    BY <1>1, <1>4 DEF ResetStates
  <1>5. ASSUME NEW k \in KeyIds, CooldownElapses(k)
        PROVE  rows' \in [KeyIds -> Row \union {NoRow}]
    <2>1. rows[k] \in Row
      BY <1>5 DEF CooldownElapses, NoRow
    <2>2. [rows[k] EXCEPT !.cooldown = "elapsed"] \in Row
      BY <2>1 DEF Row, Cooldowns
    <2> QED
      BY <1>5, <2>2 DEF CooldownElapses
  <1> QED
    BY <1>2, <1>3, <1>4, <1>5 DEF Environment, Admin

(***************************************************************************)
(* The pointer stays inside the list it was computed for.                  *)
(***************************************************************************)
LEMMA PointerInRange ==
  ASSUME NEW pool, pool \subseteq KeyIds, NEW k \in pool
  PROVE  (Place(pool, k) + 1) % Cardinality(pool) \in 0..MaxId
  <1> DEFINE before == {j \in pool : j < k}
             n == Cardinality(pool)
  <1>1. IsFiniteSet(KeyIds) /\ Cardinality(KeyIds) = MaxId
    BY MaxIdAssumption, FS_Interval DEF KeyIds
  <1>2. IsFiniteSet(pool) /\ n <= MaxId
    BY <1>1, FS_Subset
  <1>3. n \in Nat /\ n # 0
    BY <1>2, FS_CardinalityType, FS_EmptySet
  <1>4. Cardinality(before) \in Nat
    BY <1>2, FS_Subset, FS_CardinalityType
  <1>5. (Cardinality(before) + 1) % n \in 0..(n - 1)
    BY <1>3, <1>4
  <1> QED
    BY <1>2, <1>3, <1>5, MaxIdAssumption DEF Place

\* Leaving the lock hands it to the next waiter.
LEMMA TailType ==
  ASSUME NEW q \in Seq(Callers), q # <<>>
  PROVE  Tail(q) \in Seq(Callers)
  OBVIOUS

(***************************************************************************)
(* Type correctness                                                        *)
(***************************************************************************)

\* Every caller action, probe and outside write keeps the types.
LEMMA TypeStep ==
  ASSUME KMTypeOK, PickSerialized, KMNext
  PROVE  KMTypeOK'
  <1> USE DEF KMTypeOK, Phases, Reserving, InLock
  <1>1. ASSUME NEW c \in Callers, PickBegin(c)
        PROVE  KMTypeOK'
    BY <1>1 DEF PickBegin
  <1>2. ASSUME NEW c \in Callers, Load(c) \/ Reload(c)
        PROVE  KMTypeOK'
    <2>1. DOMAIN ActiveRows \subseteq KeyIds
          /\ \A k \in DOMAIN ActiveRows : ActiveRows[k] \in Row
      BY RememberType DEF ActiveRows, Active, NoRow
    <2> QED
      BY <1>2, <2>1 DEF Load, Reload
  <1>3. ASSUME NEW c \in Callers, Reactivate(c)
        PROVE  KMTypeOK'
    <2>1. rows' \in [KeyIds -> Row \union {NoRow}]
      BY <1>3, ReactivatedType DEF Reactivate
    <2> QED
      BY <1>3, <2>1 DEF Reactivate
  <1>4. ASSUME NEW c \in Callers, Reserve(c)
        PROVE  KMTypeOK'
    <2> DEFINE pool == DOMAIN snap[c]
    <2>1. PICK k \in pool :
            /\ inFlight' = inFlight \union {k}
            /\ nextIdx' = (Place(pool, k) + 1) % Cardinality(pool)
            /\ held' = [held EXCEPT ![c] = Loaded(c, k)]
      BY <1>4 DEF Reserve
    <2>2. nextIdx' \in 0..MaxId
      BY <2>1, PointerInRange
    <2>3. Loaded(c, k) \in Copy /\ Loaded(c, k) # NoCopy
      BY MaxIdAssumption DEF Loaded, Copy, NoCopy, KeyIds
    <2>4. lockQueue' \in Seq(Callers)
      BY <1>4, TailType DEF Reserve, PickSerialized, HoldsLock
    <2>5. /\ held' \in [Callers -> Copy \union {NoCopy}]
          /\ \A d \in Callers : phase'[d] \in Reserving => held'[d] # NoCopy
      BY <1>4, <2>1, <2>3 DEF Reserve
    <2>6. /\ DOMAIN snap' = Callers
          /\ \A d \in Callers : /\ DOMAIN snap'[d] \subseteq KeyIds
                                /\ \A j \in DOMAIN snap'[d] : snap'[d][j] \in Row
      BY <1>4 DEF Reserve, NoSnap
    <2>7. /\ rows' \in [KeyIds -> Row \union {NoRow}]
          /\ inFlight' \subseteq KeyIds
          /\ phase' \in [Callers -> Phases]
          /\ probe' \in [Probers -> Copy \union {NoCopy}]
      BY <1>4, <2>1 DEF Reserve
    <2> QED
      BY <2>2, <2>4, <2>5, <2>6, <2>7
  <1>5. ASSUME NEW c \in Callers, PickNothing(c) \/ PickRaises(c)
        PROVE  KMTypeOK'
    <2>1. lockQueue' \in Seq(Callers)
      BY <1>5, TailType DEF PickNothing, PickRaises, PickSerialized, HoldsLock
    <2>2. /\ DOMAIN snap' = Callers
          /\ \A d \in Callers : /\ DOMAIN snap'[d] \subseteq KeyIds
                                /\ \A j \in DOMAIN snap'[d] : snap'[d][j] \in Row
      BY <1>5 DEF PickNothing, PickRaises, NoSnap
    <2>3. /\ held' \in [Callers -> Copy \union {NoCopy}]
          /\ \A d \in Callers : phase'[d] \in Reserving => held'[d] # NoCopy
          /\ phase' \in [Callers -> Phases]
      BY <1>5 DEF PickNothing, PickRaises
    <2> QED
      BY <1>5, <2>1, <2>2, <2>3 DEF PickNothing, PickRaises
  <1>6. ASSUME NEW c \in Callers, NEW verdict \in Verdicts, Record(c, verdict)
        PROVE  KMTypeOK'
    <2>1. held[c] \in Copy
      BY <1>6 DEF Record
    <2>2. rows[held[c].id] \in Row /\ held[c].row \in Row
      BY <1>6, <2>1 DEF Record, Copy
    <2>3. Recorded(verdict, rows[held[c].id], held[c].row) \in Row
      BY <2>2, RecordedType
    <2> QED
      BY <1>6, <2>3 DEF Record
  <1>7. ASSUME NEW c \in Callers, Refresh(c)
        PROVE  KMTypeOK'
    <2>1. held[c] \in Copy
      BY <1>7 DEF Refresh
    <2>2. Remember(rows[held[c].id]) \in Row
      BY <1>7, <2>1, RememberType DEF Refresh, Copy
    <2> DEFINE reread == [held[c] EXCEPT !.row = Remember(rows[held[c].id])]
    <2>3. held' = [held EXCEPT ![c] = reread]
      BY <1>7 DEF Refresh
    <2>4. reread \in Copy /\ reread # NoCopy
      BY <2>1, <2>2, MaxIdAssumption DEF Copy, NoCopy, KeyIds
    <2> QED
      BY <1>7, <2>3, <2>4 DEF Refresh
  <1>8. ASSUME NEW c \in Callers, RecordUsage(c)
        PROVE  KMTypeOK'
    <2>1. NewRow \in Row
      BY DEF NewRow, Row, Statuses, Cooldowns
    <2>2. rows' \in [KeyIds -> Row \union {NoRow}]
      BY <1>8, <2>1 DEF RecordUsage, Recorded, SuccessWithUsage
    <2> QED
      BY <1>8, <2>2 DEF RecordUsage
  <1>9. ASSUME NEW c \in Callers,
               NoRecord(c) \/ RecordRaises(c) \/ RecordFails(c)
                 \/ Release(c) \/ CloseSession(c)
        PROVE  KMTypeOK'
    BY <1>9 DEF NoRecord, RecordRaises, RecordFails, Release, CloseSession
  <1>10. ASSUME NEW p \in Probers, NEW k \in KeyIds, ProbeBegin(p, k)
         PROVE  KMTypeOK'
    <2>1. [id |-> k, row |-> Remember(rows[k])] \in Copy
      BY <1>10, RememberType DEF ProbeBegin, Copy
    <2> QED
      BY <1>10, <2>1 DEF ProbeBegin
  <1>11. ASSUME NEW p \in Probers, NEW verdict \in Verdicts, ProbeEnd(p, verdict)
         PROVE  KMTypeOK'
    <2>1. probe[p] \in Copy
      BY <1>11 DEF ProbeEnd
    <2>2. ASSUME rows[probe[p].id] # NoRow
          PROVE  Recorded(verdict, rows[probe[p].id], probe[p].row) \in Row
      BY <2>1, <2>2, RecordedType DEF Copy
    <2>3. rows' \in [KeyIds -> Row \union {NoRow}]
      BY <1>11, <2>2 DEF ProbeEnd
    <2> QED
      BY <1>11, <2>3 DEF ProbeEnd
  <1>12. CASE Environment
    <2>1. rows' \in [KeyIds -> Row \union {NoRow}]
      BY <1>12, EnvironmentType
    <2> QED
      BY <1>12, <2>1 DEF Environment
  <1> QED
    BY <1>1, <1>2, <1>3, <1>4, <1>5, <1>6, <1>7, <1>8, <1>9, <1>10, <1>11, <1>12
       DEF KMNext, PickStep, RecordStep, ProbeStep

(***************************************************************************)
(* The lock                                                                *)
(***************************************************************************)

\* Joining the queue never displaces the holder.
LEMMA AppendKeepsHead ==
  ASSUME NEW q \in Seq(Callers), q # <<>>, NEW c \in Callers
  PROVE  Append(q, c) # <<>> /\ Head(Append(q, c)) = Head(q)
  OBVIOUS

\* Only the holder moves between the first SELECT and the exit of the lock.
LEMMA LockStep ==
  ASSUME KMTypeOK, PickSerialized, KMNext
  PROVE  PickSerialized'
  <1> SUFFICES ASSUME NEW d \in Callers, phase'[d] \in InLock \ {"load"}
               PROVE  HoldsLock(d)'
    BY DEF PickSerialized
  <1> USE DEF InLock
  <1>1. ASSUME NEW c \in Callers, PickBegin(c)
        PROVE  HoldsLock(d)'
    <2>1. HoldsLock(d)
      BY <1>1 DEF PickBegin, PickSerialized, KMTypeOK
    <2> QED
      BY <1>1, <2>1, AppendKeepsHead DEF PickBegin, HoldsLock, KMTypeOK
  <1>2. ASSUME NEW c \in Callers, Load(c) \/ Reactivate(c) \/ Reload(c)
        PROVE  HoldsLock(d)'
    BY <1>2 DEF Load, Reactivate, Reload, PickSerialized, HoldsLock, KMTypeOK
  <1>3. ASSUME NEW c \in Callers, Reserve(c) \/ PickNothing(c) \/ PickRaises(c)
        PROVE  HoldsLock(d)'
    <2>1. HoldsLock(c)
      BY <1>3 DEF Reserve, PickNothing, PickRaises, PickSerialized
    <2>2. d # c /\ phase[d] = phase'[d]
      BY <1>3 DEF Reserve, PickNothing, PickRaises, KMTypeOK
    <2>3. HoldsLock(d)
      BY <2>2 DEF PickSerialized
    <2> QED
      BY <2>1, <2>2, <2>3 DEF HoldsLock
  <1>4. ASSUME NEW c \in Callers,
               RecordStep(c) \/ Release(c) \/ CloseSession(c)
        PROVE  HoldsLock(d)'
    BY <1>4 DEF RecordStep, Record, Refresh, RecordUsage, NoRecord, RecordRaises,
                RecordFails, Release, CloseSession, PickSerialized, HoldsLock, KMTypeOK
  <1>5. CASE (\E p \in Probers : ProbeStep(p)) \/ Environment
    BY <1>5 DEF ProbeStep, ProbeBegin, ProbeEnd, Environment, PickSerialized, HoldsLock
  <1> QED
    BY <1>1, <1>2, <1>3, <1>4, <1>5 DEF KMNext, PickStep

(***************************************************************************)
(* Reservations                                                            *)
(***************************************************************************)

\* A key is added by the caller that found it free and removed by the caller
\* that holds it; every other step leaves held keys and reservations alone.
LEMMA ReservationStep ==
  ASSUME KMTypeOK, HeldIsReserved, AntiStacking, KMNext
  PROVE  HeldIsReserved' /\ AntiStacking'
  <1> USE DEF Reserving, InLock
  <1>1. ASSUME UNCHANGED inFlight,
               \A d \in Callers : phase'[d] \in Reserving =>
                 phase[d] \in Reserving /\ held'[d].id = held[d].id
        PROVE  HeldIsReserved' /\ AntiStacking'
    BY <1>1 DEF HeldIsReserved, AntiStacking
  <1>2. ASSUME NEW c \in Callers, Reserve(c)
        PROVE  HeldIsReserved' /\ AntiStacking'
    <2>1. PICK k \in DOMAIN snap[c] :
            /\ k \notin inFlight
            /\ inFlight' = inFlight \union {k}
            /\ held' = [held EXCEPT ![c] = Loaded(c, k)]
      BY <1>2 DEF Reserve, IsFirstFree
    <2>2. held'[c].id = k
      BY <2>1 DEF Loaded, KMTypeOK
    <2>3. \A d \in Callers \ {c} : phase'[d] = phase[d] /\ held'[d] = held[d]
      BY <1>2, <2>1 DEF Reserve, KMTypeOK
    <2>4. HeldIsReserved'
      BY <2>1, <2>2, <2>3 DEF HeldIsReserved
    <2>5. AntiStacking'
      BY <2>1, <2>2, <2>3 DEF AntiStacking, HeldIsReserved
    <2> QED
      BY <2>4, <2>5
  <1>3. ASSUME NEW c \in Callers, RecordFails(c) \/ Release(c)
        PROVE  HeldIsReserved' /\ AntiStacking'
    <2>1. phase[c] \in Reserving /\ phase'[c] = "idle"
      BY <1>3 DEF RecordFails, Release, KMTypeOK
    <2>2. \A d \in Callers \ {c} : phase'[d] = phase[d] /\ held'[d] = held[d]
      BY <1>3 DEF RecordFails, Release, KMTypeOK
    <2>3. inFlight' = inFlight \ {held[c].id}
      BY <1>3 DEF RecordFails, Release
    <2>4. AntiStacking'
      BY <2>1, <2>2 DEF AntiStacking
    <2>5. HeldIsReserved'
      BY <2>1, <2>2, <2>3 DEF AntiStacking, HeldIsReserved
    <2> QED
      BY <2>4, <2>5
  <1>4. ASSUME NEW c \in Callers,
               PickBegin(c) \/ Load(c) \/ Reactivate(c) \/ Reload(c)
                 \/ PickNothing(c) \/ PickRaises(c)
        PROVE  HeldIsReserved' /\ AntiStacking'
    BY <1>1, <1>4 DEF PickBegin, Load, Reactivate, Reload, PickNothing, PickRaises, KMTypeOK
  <1>5. ASSUME NEW c \in Callers, NEW verdict \in Verdicts, Record(c, verdict)
        PROVE  HeldIsReserved' /\ AntiStacking'
    BY <1>1, <1>5 DEF Record, KMTypeOK
  <1>6. ASSUME NEW c \in Callers, Refresh(c)
        PROVE  HeldIsReserved' /\ AntiStacking'
    <2>1. held[c] \in Copy
      BY <1>6 DEF Refresh, KMTypeOK
    <2>2. \A d \in Callers : held'[d].id = held[d].id
      BY <1>6, <2>1 DEF Refresh, KMTypeOK, Copy
    <2> QED
      BY <1>1, <1>6, <2>2 DEF Refresh, KMTypeOK
  <1>7. ASSUME NEW c \in Callers,
               RecordUsage(c) \/ NoRecord(c) \/ RecordRaises(c) \/ CloseSession(c)
        PROVE  HeldIsReserved' /\ AntiStacking'
    BY <1>1, <1>7 DEF RecordUsage, NoRecord, RecordRaises, CloseSession, KMTypeOK
  <1>8. CASE (\E p \in Probers : ProbeStep(p)) \/ Environment
    BY <1>1, <1>8 DEF ProbeStep, ProbeBegin, ProbeEnd, Environment
  <1> QED
    BY <1>2, <1>3, <1>4, <1>5, <1>6, <1>7, <1>8 DEF KMNext, PickStep, RecordStep

(***************************************************************************)
(* The theorems                                                            *)
(***************************************************************************)

\* The initial state has no reservation and a free lock.
LEMMA KMInitInv == KMInit => KMInv
  BY MaxIdAssumption
     DEF KMInit, StartRows, KMInv, KMTypeOK, PickSerialized, HeldIsReserved, AntiStacking,
         Row, Statuses, Cooldowns, NewRow, NoRow, NoSnap, NoCopy, Phases, Reserving, InLock

\* KMInv is inductive, stuttering included.
LEMMA KMInvStep == KMInv /\ [KMNext]_kmVars => KMInv'
  <1> SUFFICES ASSUME KMInv, [KMNext]_kmVars
               PROVE  KMInv'
    OBVIOUS
  <1>1. CASE KMNext
    BY <1>1, TypeStep, LockStep, ReservationStep DEF KMInv
  <1>2. CASE UNCHANGED kmVars
    BY <1>2 DEF kmVars, KMInv, KMTypeOK, PickSerialized, HoldsLock, HeldIsReserved, AntiStacking
  <1> QED
    BY <1>1, <1>2

\* The inductive invariant holds of every behaviour of the key manager.
THEOREM KMInvariant == KMSpec => []KMInv
  BY KMInitInv, KMInvStep, PTL DEF KMSpec

\* Types, for any number of callers and keys.
THEOREM KMTypeCorrect == KMSpec => []KMTypeOK
  <1>1. KMInv => KMTypeOK
    BY DEF KMInv
  <1> QED
    BY <1>1, KMInvariant, PTL

\* Two concurrent calls never use the same key.
THEOREM NoStacking == KMSpec => []AntiStacking
  <1>1. KMInv => AntiStacking
    BY DEF KMInv
  <1> QED
    BY <1>1, KMInvariant, PTL

\* The whole of pick_next_key after its first SELECT runs under the lock.
THEOREM PicksAreSerialized == KMSpec => []PickSerialized
  <1>1. KMInv => PickSerialized
    BY DEF KMInv
  <1> QED
    BY <1>1, KMInvariant, PTL

\* What a caller has reserved stays reserved until its call is over.
THEOREM HeldKeysReserved == KMSpec => []HeldIsReserved
  <1>1. KMInv => HeldIsReserved
    BY DEF KMInv
  <1> QED
    BY <1>1, KMInvariant, PTL

(***************************************************************************)
(* The lock is given back                                                  *)
(***************************************************************************)

\* What joining and leaving a queue do to the places in it.
LEMMA AppendPlaces ==
  ASSUME NEW S, NEW queue \in Seq(S), NEW e \in S
  PROVE  /\ DOMAIN Append(queue, e) = DOMAIN queue \union {Len(queue) + 1}
         /\ Len(queue) + 1 \notin DOMAIN queue
         /\ Append(queue, e)[Len(queue) + 1] = e
         /\ \A i \in DOMAIN queue : Append(queue, e)[i] = queue[i]
  OBVIOUS

LEMMA TailPlaces ==
  ASSUME NEW S, NEW queue \in Seq(S), queue # <<>>
  PROVE  /\ 1 \in DOMAIN queue /\ Head(queue) = queue[1]
         /\ \A i \in DOMAIN Tail(queue) :
              i + 1 \in DOMAIN queue \ {1} /\ Tail(queue)[i] = queue[i + 1]
         /\ \A i \in DOMAIN queue \ {1} : i - 1 \in DOMAIN Tail(queue) /\ (i - 1) + 1 = i
         /\ \A i, j \in DOMAIN Tail(queue) : i # j => i + 1 # j + 1
  OBVIOUS

\* A request joins the queue with its first step and leaves it with its last.
LEMMA LockUsedStep ==
  ASSUME KMInv, LockIsUsed, [KMNext]_kmVars
  PROVE  LockIsUsed'
  <1> USE DEF KMInv, KMTypeOK
  <1>1. ASSUME UNCHANGED lockQueue,
               \A d \in Callers : phase'[d] \in InLock <=> phase[d] \in InLock
        PROVE  LockIsUsed'
    BY <1>1 DEF LockIsUsed
  <1>2. ASSUME NEW c \in Callers, PickBegin(c)
        PROVE  LockIsUsed'
    <2>1. /\ phase[c] = "idle" /\ phase' = [phase EXCEPT ![c] = "load"]
          /\ lockQueue' = Append(lockQueue, c)
      BY <1>2 DEF PickBegin
    <2>2. \A i \in DOMAIN lockQueue : lockQueue[i] # c
      BY <2>1 DEF LockIsUsed, InLock
    <2> DEFINE last == Len(lockQueue) + 1
    <2>3. /\ DOMAIN lockQueue' = DOMAIN lockQueue \union {last}
          /\ last \notin DOMAIN lockQueue /\ lockQueue'[last] = c
          /\ \A i \in DOMAIN lockQueue : lockQueue'[i] = lockQueue[i]
      BY <2>1, AppendPlaces
    <2> HIDE DEF last
    <2>4. \A i, j \in DOMAIN lockQueue' : i # j => lockQueue'[i] # lockQueue'[j]
      BY <2>2, <2>3 DEF LockIsUsed
    <2>5. ASSUME NEW d \in Callers
          PROVE  phase'[d] \in InLock <=> \E i \in DOMAIN lockQueue' : lockQueue'[i] = d
      <3>1. CASE d = c
        BY <2>1, <2>3, <3>1 DEF InLock
      <3>2. CASE d # c
        BY <2>1, <2>3, <3>2 DEF LockIsUsed
      <3> QED
        BY <3>1, <3>2
    <2> QED
      BY <2>4, <2>5 DEF LockIsUsed
  <1>3. ASSUME NEW c \in Callers, Load(c) \/ Reactivate(c) \/ Reload(c)
        PROVE  LockIsUsed'
    BY <1>1, <1>3 DEF Load, Reactivate, Reload, InLock
  <1>4. ASSUME NEW c \in Callers, Reserve(c) \/ PickNothing(c) \/ PickRaises(c)
        PROVE  LockIsUsed'
    <2>1. HoldsLock(c) /\ lockQueue' = Tail(lockQueue)
      BY <1>4 DEF Reserve, PickNothing, PickRaises, PickSerialized, InLock
    <2>2. phase'[c] \notin InLock /\ \A d \in Callers \ {c} : phase'[d] = phase[d]
      BY <1>4 DEF Reserve, PickNothing, PickRaises, InLock
    <2>3. lockQueue # <<>> /\ lockQueue \in Seq(Callers) /\ Head(lockQueue) = c
      BY <2>1 DEF HoldsLock
    <2>4. /\ 1 \in DOMAIN lockQueue /\ lockQueue[1] = c
          /\ \A i \in DOMAIN lockQueue' :
               i + 1 \in DOMAIN lockQueue \ {1} /\ lockQueue'[i] = lockQueue[i + 1]
          /\ \A i \in DOMAIN lockQueue \ {1} : i - 1 \in DOMAIN lockQueue' /\ (i - 1) + 1 = i
          /\ \A i, j \in DOMAIN lockQueue' : i # j => i + 1 # j + 1
      BY <2>1, <2>3, TailPlaces
    <2>5. \A i, j \in DOMAIN lockQueue' : i # j => lockQueue'[i] # lockQueue'[j]
      BY <2>4 DEF LockIsUsed
    <2>6. ASSUME NEW d \in Callers
          PROVE  phase'[d] \in InLock <=> \E i \in DOMAIN lockQueue' : lockQueue'[i] = d
      <3>1. CASE d = c
        BY <2>2, <2>4, <3>1 DEF LockIsUsed
      <3>2. CASE d # c
        <4>1. (\E i \in DOMAIN lockQueue : lockQueue[i] = d)
                <=> \E i \in DOMAIN lockQueue' : lockQueue'[i] = d
          BY <2>4, <3>2
        <4> QED
          BY <2>2, <3>2, <4>1 DEF LockIsUsed
      <3> QED
        BY <3>1, <3>2
    <2> QED
      BY <2>5, <2>6 DEF LockIsUsed
  <1>5. ASSUME NEW c \in Callers, RecordStep(c) \/ Release(c) \/ CloseSession(c)
        PROVE  LockIsUsed'
    BY <1>1, <1>5 DEF RecordStep, Record, Refresh, RecordUsage, NoRecord, RecordRaises,
                      RecordFails, Release, CloseSession, InLock
  <1>6. CASE (\E p \in Probers : ProbeStep(p)) \/ Environment \/ UNCHANGED kmVars
    BY <1>1, <1>6 DEF ProbeStep, ProbeBegin, ProbeEnd, Environment, kmVars
  <1> QED
    BY <1>2, <1>3, <1>4, <1>5, <1>6 DEF KMNext, PickStep

\* Whoever holds or awaits the lock is inside pick_next_key, once, whatever the
\* database and the administrator do: nobody keeps the lock, and no place in its
\* queue belongs to a request that is elsewhere.
THEOREM LockComesBack == KMSpec => []LockIsUsed
  <1>1. KMInit => LockIsUsed
    BY DEF KMInit, LockIsUsed, InLock
  <1> QED
    BY <1>1, LockUsedStep, KMInvariant, PTL DEF KMSpec

(***************************************************************************)
(* Who may change the status of a row                                      *)
(***************************************************************************)

\* Only a creation makes an absent row appear.
LEMMA AppearStep ==
  ASSUME KMInv, KMNext, NEW k \in KeyIds, rows[k] = NoRow, rows'[k] # NoRow
  PROVE  rows'[k] = NewRow /\ phase' = phase /\ probe' = probe /\ "create" \in AdminOps
  <1> USE DEF KMInv, KMTypeOK, Reserving
  <1>1. ASSUME NEW c \in Callers, Reactivate(c)
        PROVE  FALSE
    BY <1>1 DEF Reactivate, Reactivated, NoRow
  <1>2. ASSUME NEW c \in Callers,
               (\E verdict \in Verdicts : Record(c, verdict)) \/ RecordUsage(c)
        PROVE  FALSE
    BY <1>2 DEF Record, RecordUsage
  <1>3. ASSUME NEW p \in Probers, NEW verdict \in Verdicts, ProbeEnd(p, verdict)
        PROVE  FALSE
    BY <1>3 DEF ProbeEnd
  <1>4. ASSUME UNCHANGED rows
        PROVE  FALSE
    BY <1>4
  <1>5. CASE Environment
    <2>1. ~ResetStates
      BY DEF ResetStates
    <2>2. \A j \in KeyIds : ~DeleteKey(j) /\ ~CooldownElapses(j)
      BY DEF DeleteKey, CooldownElapses, NoRow
    <2>3. \A j \in KeyIds, s \in Statuses : ~PatchStatus(j, s)
      BY DEF PatchStatus
    <2>4. PICK j \in KeyIds : CreateKey(j)
      BY <1>5, <2>1, <2>2, <2>3 DEF Environment, Admin
    <2>5. rows'[k] = NewRow /\ "create" \in AdminOps
      BY <2>4 DEF CreateKey
    <2> QED
      BY <1>5, <2>5 DEF Environment
  <1>6. ASSUME NEW p \in Probers, NEW j \in KeyIds, ProbeBegin(p, j)
        PROVE  FALSE
    BY <1>6 DEF ProbeBegin
  <1> QED
    BY <1>1, <1>2, <1>3, <1>4, <1>5, <1>6
       DEF KMNext, PickStep, RecordStep, ProbeStep, PickBegin, Load, Reload, Reserve,
           PickNothing, PickRaises, Refresh, NoRecord, RecordRaises, RecordFails,
           Release, CloseSession

\* No outcome of a call or a probe that was under way when its key was deleted
\* brings the row back.
THEOREM DeletedKeysStay == KMSpec => DeletedStays
  <1> DEFINE Stays == \A k \in KeyIds :
                        rows[k] = NoRow /\ rows'[k] # NoRow
                          => rows'[k] = NewRow /\ phase' = phase /\ probe' = probe
  <1>1. KMInv /\ [KMNext]_kmVars => [Stays]_kmVars
    BY AppearStep
  <1> QED
    BY <1>1, KMInvariant, PTL DEF KMSpec, DeletedStays

\* A row goes back to active by an expired cooldown or by the success of a call
\* or a probe with its key, if not by the administrator.
LEMMA BackStep ==
  ASSUME AdminOps \cap {"activate", "reset"} = {}, KMInv, KMNext, NEW k \in KeyIds,
         rows[k].status \in {"depleted", "disabled"}, rows'[k].status = "active"
  PROVE  \/ rows[k] = [status |-> "depleted", cooldown |-> "elapsed"]
         \/ \E c \in Callers :
              phase[c] = "using" /\ phase'[c] # "using" /\ held[c].id = k
         \/ \E p \in Probers : probe[p].id = k /\ probe'[p] = NoCopy
  <1> USE DEF KMInv, KMTypeOK, Reserving
  <1>0. rows[k] \in Row /\ rows[k].status # "active"
    BY DEF NoRow
  <1>1. ASSUME NEW c \in Callers, Reactivate(c)
        PROVE  rows[k] = [status |-> "depleted", cooldown |-> "elapsed"]
    BY <1>0, <1>1 DEF Reactivate, Reactivated, Row
  <1>2. ASSUME NEW c \in Callers,
               (\E verdict \in Verdicts : Record(c, verdict)) \/ RecordUsage(c)
        PROVE  phase[c] = "using" /\ phase'[c] # "using" /\ held[c].id = k
    BY <1>0, <1>2 DEF Record, RecordUsage
  <1>3. ASSUME NEW p \in Probers, NEW verdict \in Verdicts, ProbeEnd(p, verdict)
        PROVE  probe[p].id = k /\ probe'[p] = NoCopy
    BY <1>0, <1>3 DEF ProbeEnd
  <1>4. ASSUME UNCHANGED rows
        PROVE  FALSE
    BY <1>0, <1>4
  <1>5. ASSUME Environment
        PROVE  FALSE
    <2>1. \A j \in KeyIds : ~CreateKey(j) /\ ~DeleteKey(j)
      BY <1>0 DEF CreateKey, DeleteKey, NewRow, NoRow
    <2>2. \A j \in KeyIds : ~CooldownElapses(j)
      BY <1>0 DEF CooldownElapses, Row, NoRow
    <2>3. ASSUME NEW j \in KeyIds, NEW s \in Statuses, PatchStatus(j, s)
          PROVE  FALSE
      <3>1. s # "active"
        BY <2>3 DEF PatchStatus, PatchOp
      <3> QED
        BY <1>0, <2>3, <3>1 DEF PatchStatus, Row
    <2> QED
      BY <1>5, <2>1, <2>2, <2>3 DEF Environment, Admin, ResetStates
  <1>6. ASSUME NEW p \in Probers, NEW j \in KeyIds, ProbeBegin(p, j)
        PROVE  FALSE
    BY <1>4, <1>6 DEF ProbeBegin
  <1> QED
    BY <1>1, <1>2, <1>3, <1>4, <1>5, <1>6
       DEF KMNext, PickStep, RecordStep, ProbeStep, PickBegin, Load, Reload, Reserve,
           PickNothing, PickRaises, Refresh, NoRecord, RecordRaises, RecordFails,
           Release, CloseSession

\* Unless the administrator activates or resets keys, no cooldown is cut short
\* and no disabled key is swept back.
THEOREM OutOfServiceStays ==
  ASSUME AdminOps \cap {"activate", "reset"} = {}
  PROVE  KMSpec => BackInService
  <1> DEFINE Back == \A k \in KeyIds :
                       /\ rows[k].status \in {"depleted", "disabled"}
                       /\ rows'[k].status = "active"
                       => \/ rows[k] = [status |-> "depleted", cooldown |-> "elapsed"]
                          \/ \E c \in Callers :
                               phase[c] = "using" /\ phase'[c] # "using" /\ held[c].id = k
                          \/ \E p \in Probers : probe[p].id = k /\ probe'[p] = NoCopy
  <1>1. KMInv /\ [KMNext]_kmVars => [Back]_kmVars
    BY BackStep
  <1> QED
    BY <1>1, KMInvariant, PTL DEF KMSpec, BackInService

(***************************************************************************)
(* The key manager implements exclusive leases                             *)
(***************************************************************************)

\* A step that keeps the reservations and what each caller holds is a stutter
\* of the leases.
LEMMA SameLeases ==
  ASSUME UNCHANGED inFlight,
         \A d \in Callers :
           /\ phase'[d] \in Reserving <=> phase[d] \in Reserving
           /\ phase[d] \in Reserving => held'[d].id = held[d].id
  PROVE  UNCHANGED Leases!leaseVars
  <1>1. Lease' = Lease
    BY DEF Lease
  <1>2. Lost' = Lost
    BY <1>1 DEF Lost
  <1> QED
    BY <1>1, <1>2 DEF Leases!leaseVars

\* Lost, one id at a time, in a state and in the next one.
LEMMA LostMembers ==
  /\ \A k : k \in Lost <=> k \in inFlight /\ \A d \in Callers : Lease[d] # k
  /\ \A k : k \in Lost' <=> k \in inFlight' /\ \A d \in Callers : Lease'[d] # k
  BY DEF Lost

\* What Lease and Lost say of one caller and one key.
LEMMA LeaseOf ==
  ASSUME KMInv, NEW c \in Callers, phase[c] \in Reserving
  PROVE  /\ Lease[c] = held[c].id
         /\ Lease[c] \in KeyIds /\ Lease[c] # 0
         /\ Lease[c] \in inFlight
         /\ \A d \in Callers \ {c} : Lease[d] # Lease[c]
  <1>1. held[c] \in Copy
    BY DEF KMInv, KMTypeOK
  <1>2. Lease[c] = held[c].id /\ held[c].id \in KeyIds /\ held[c].id # 0
    BY <1>1, MaxIdAssumption DEF Lease, Copy, KeyIds
  <1>3. held[c].id \in inFlight
    BY DEF KMInv, HeldIsReserved
  <1>4. \A d \in Callers \ {c} : Lease[d] # held[c].id
    BY <1>2 DEF Lease, KMInv, AntiStacking
  <1> QED
    BY <1>2, <1>3, <1>4

\* Reserving a key that is not in flight acquires a free lease.
LEMMA ReserveAcquires ==
  ASSUME KMInv, KMInv', NEW c \in Callers, Reserve(c)
  PROVE  Leases!LeaseNext
  <1>1. PICK k \in DOMAIN snap[c] :
          /\ k \notin inFlight
          /\ inFlight' = inFlight \union {k}
          /\ held' = [held EXCEPT ![c] = Loaded(c, k)]
    BY DEF Reserve, IsFirstFree
  <1>2. k \in KeyIds
    BY DEF KMInv, KMTypeOK
  <1>3. held'[c].id = k
    BY <1>1 DEF Loaded, KMInv, KMTypeOK
  <1>4. \A d \in Callers \ {c} : phase'[d] = phase[d] /\ held'[d] = held[d]
    BY <1>1 DEF Reserve, KMInv, KMTypeOK
  <1>5. phase[c] \notin Reserving /\ phase'[c] \in Reserving
    BY DEF Reserve, KMInv, KMTypeOK, Reserving
  <1>6. Lease[c] = 0
    BY <1>5 DEF Lease
  <1>7. Lease' = [Lease EXCEPT ![c] = k]
    BY <1>3, <1>4, <1>5 DEF Lease
  <1>8. \A d \in Callers : Lease[d] # k
    BY <1>1, <1>2, LeaseOf, MaxIdAssumption DEF Lease, KeyIds
  <1>9. Lost' = Lost
    <2>1. \A d \in Callers : Lease'[d] = IF d = c THEN k ELSE Lease[d]
      BY <1>7 DEF Lease
    <2>2. \A j \in inFlight : j # 0
      BY MaxIdAssumption DEF KMInv, KMTypeOK, KeyIds
    <2> QED
      BY <1>1, <1>6, <1>8, <2>1, <2>2, LostMembers
  <1>10. Leases!Acquire(c, k)
    BY <1>1, <1>6, <1>7, <1>8, <1>9 DEF Leases!Acquire, Leases!Free, Lost
  <1> QED
    BY <1>2, <1>10 DEF Leases!LeaseNext

\* A caller that releases its key gives its lease back.
LEMMA ReleaseGivesBack ==
  ASSUME KMInv, NEW c \in Callers, RecordFails(c) \/ Release(c)
  PROVE  Leases!LeaseNext
  <1>1. phase[c] \in Reserving /\ phase'[c] \notin Reserving
    BY DEF RecordFails, Release, KMInv, KMTypeOK, Reserving
  <1>2. \A d \in Callers \ {c} : phase'[d] = phase[d] /\ held'[d] = held[d]
    BY DEF RecordFails, Release, KMInv, KMTypeOK
  <1>3. inFlight' = inFlight \ {Lease[c]}
    BY <1>1, LeaseOf DEF RecordFails, Release
  <1>4. Lease' = [Lease EXCEPT ![c] = 0]
    BY <1>1, <1>2 DEF Lease
  <1>5. Lost' = Lost
    <2>1. \A d \in Callers : Lease'[d] = IF d = c THEN 0 ELSE Lease[d]
      BY <1>4 DEF Lease
    <2>2. \A k \in inFlight : k # 0
      BY MaxIdAssumption DEF KMInv, KMTypeOK, KeyIds
    <2>3. ASSUME NEW k
          PROVE  k \in Lost' <=> k \in Lost
      BY <1>3, <2>1, <2>2, LostMembers
    <2> QED
      BY <2>3
  <1> QED
    BY <1>1, <1>4, <1>5, LeaseOf DEF Leases!LeaseNext, Leases!GiveBack

\* A caller whose record raises loses its lease for good.
LEMMA RaisingLoses ==
  ASSUME KMInv, NEW c \in Callers, RecordRaises(c)
  PROVE  Leases!LeaseNext
  <1>1. phase[c] \in Reserving /\ phase'[c] \notin Reserving
    BY DEF RecordRaises, KMInv, KMTypeOK, Reserving
  <1>2. \A d \in Callers \ {c} : phase'[d] = phase[d] /\ held'[d] = held[d]
    BY DEF RecordRaises, KMInv, KMTypeOK
  <1>3. inFlight' = inFlight
    BY DEF RecordRaises
  <1>4. Lease' = [Lease EXCEPT ![c] = 0]
    BY <1>1, <1>2 DEF Lease
  <1>5. Lost' = Lost \union {Lease[c]}
    <2>1. \A d \in Callers : Lease'[d] = IF d = c THEN 0 ELSE Lease[d]
      BY <1>4 DEF Lease
    <2>2. \A k \in inFlight : k # 0
      BY MaxIdAssumption DEF KMInv, KMTypeOK, KeyIds
    <2> QED
      BY <1>1, <1>3, <2>1, <2>2, LeaseOf, LostMembers
  <1> QED
    BY <1>1, <1>4, <1>5, LeaseOf DEF Leases!LeaseNext, Leases!Lose

\* Every step of the key manager is a step of the leases or leaves them alone.
LEMMA LeaseStep ==
  ASSUME KMInv, KMInv', [KMNext]_kmVars
  PROVE  [Leases!LeaseNext]_Leases!leaseVars
  <1> USE DEF Reserving
  <1>1. CASE \E c \in Callers : Reserve(c)
    BY <1>1, ReserveAcquires
  <1>2. CASE \E c \in Callers : RecordFails(c) \/ Release(c)
    BY <1>2, ReleaseGivesBack
  <1>3. CASE \E c \in Callers : RecordRaises(c)
    BY <1>3, RaisingLoses
  <1>4. ASSUME NEW c \in Callers,
               PickBegin(c) \/ Load(c) \/ Reactivate(c) \/ Reload(c)
                 \/ PickNothing(c) \/ PickRaises(c)
        PROVE  UNCHANGED Leases!leaseVars
    BY <1>4, SameLeases
       DEF PickBegin, Load, Reactivate, Reload, PickNothing, PickRaises, KMInv, KMTypeOK, InLock
  <1>5. ASSUME NEW c \in Callers, NEW verdict \in Verdicts, Record(c, verdict)
        PROVE  UNCHANGED Leases!leaseVars
    BY <1>5, SameLeases DEF Record, KMInv, KMTypeOK
  <1>6. ASSUME NEW c \in Callers, Refresh(c)
        PROVE  UNCHANGED Leases!leaseVars
    <2>1. held[c] \in Copy
      BY <1>6 DEF Refresh, KMInv, KMTypeOK
    <2>2. \A d \in Callers : held'[d].id = held[d].id
      BY <1>6, <2>1 DEF Refresh, KMInv, KMTypeOK, Copy
    <2> QED
      BY <1>6, <2>2, SameLeases DEF Refresh, KMInv, KMTypeOK
  <1>7. ASSUME NEW c \in Callers, RecordUsage(c) \/ NoRecord(c) \/ CloseSession(c)
        PROVE  UNCHANGED Leases!leaseVars
    BY <1>7, SameLeases DEF RecordUsage, NoRecord, CloseSession, KMInv, KMTypeOK
  <1>8. CASE (\E p \in Probers : ProbeStep(p)) \/ Environment \/ UNCHANGED kmVars
    BY <1>8, SameLeases DEF ProbeStep, ProbeBegin, ProbeEnd, Environment, kmVars
  <1> QED
    BY <1>1, <1>2, <1>3, <1>4, <1>5, <1>6, <1>7, <1>8 DEF KMNext, PickStep, RecordStep

\* The key manager hands out exclusive leases, whatever the table, the
\* administrator and the database do.
THEOREM ImplementsExclusiveLeases == KMSpec => ImplementsLeases
  <1>1. KMInit => Leases!LeaseInit
    BY DEF KMInit, Leases!LeaseInit, Lease, Lost, Reserving
  <1>2. KMInv /\ KMInv' /\ [KMNext]_kmVars => [Leases!LeaseNext]_Leases!leaseVars
    BY LeaseStep
  <1> QED
    BY <1>1, <1>2, KMInvariant, PTL DEF KMSpec, ImplementsLeases, Leases!LeaseSpec

(***************************************************************************)
(* Nothing is lost as long as no key is deleted and no statement fails     *)
(***************************************************************************)

\* Without deletions a key that was seen once stays in the table, so a record
\* always finds its row.
SeenIsStored ==
  \A c \in Callers :
    /\ \A k \in DOMAIN snap[c] : rows[k] # NoRow
    /\ phase[c] \in Reserving => rows[held[c].id] # NoRow

\* Every reservation is some caller's, and that caller's key is in the table.
KeptInv == KMInv /\ SeenIsStored /\ NoLeak

\* Only a deletion makes a stored row absent.
LEMMA StoredStays ==
  ASSUME KMInv, "delete" \notin AdminOps, KMNext, NEW k \in KeyIds, rows[k] # NoRow
  PROVE  rows'[k] # NoRow
  <1>1. NewRow # NoRow /\ NoRow \notin Row
    BY NoRowIsNoRow DEF NewRow, NoRow
  <1>2. rows \in [KeyIds -> Row \union {NoRow}]
    BY DEF KMInv, KMTypeOK
  <1>3. ASSUME NEW c \in Callers, Reactivate(c)
        PROVE  rows'[k] # NoRow
    BY <1>1, <1>2, <1>3 DEF Reactivate, Reactivated
  <1>4. ASSUME NEW c \in Callers, NEW verdict \in Verdicts, Record(c, verdict)
        PROVE  rows'[k] # NoRow
    <2>1. held[c] \in Copy
      BY <1>4 DEF Record, KMInv, KMTypeOK, Reserving
    <2>2. Recorded(verdict, rows[held[c].id], held[c].row) \in Row
      BY <1>2, <1>4, <2>1, RecordedType DEF Record, Copy
    <2> QED
      BY <1>1, <1>2, <1>4, <2>2 DEF Record
  <1>5. ASSUME NEW c \in Callers, RecordUsage(c)
        PROVE  rows'[k] # NoRow
    BY <1>1, <1>2, <1>5 DEF RecordUsage, Recorded, SuccessWithUsage
  <1>6. ASSUME NEW p \in Probers, NEW verdict \in Verdicts, ProbeEnd(p, verdict)
        PROVE  rows'[k] # NoRow
    <2>1. probe[p] \in Copy
      BY <1>6 DEF ProbeEnd, KMInv, KMTypeOK
    <2>2. ASSUME rows[probe[p].id] # NoRow
          PROVE  Recorded(verdict, rows[probe[p].id], probe[p].row) \in Row
      BY <1>2, <2>1, <2>2, RecordedType DEF Copy
    <2> QED
      BY <1>1, <1>2, <1>6, <2>2 DEF ProbeEnd
  <1>7. CASE Environment
    <2>1. ASSUME NEW j \in KeyIds, NEW s \in Statuses, PatchStatus(j, s)
          PROVE  rows'[k] # NoRow
      <3>1. [rows[j] EXCEPT !.status = s] # NoRow
        BY <1>2, <2>1 DEF PatchStatus, Row, Statuses, NoRow
      <3> QED
        BY <1>2, <2>1, <3>1 DEF PatchStatus
    <2>2. ASSUME NEW j \in KeyIds, CooldownElapses(j)
          PROVE  rows'[k] # NoRow
      <3>1. [rows[j] EXCEPT !.cooldown = "elapsed"] # NoRow
        BY <1>2, <2>2 DEF CooldownElapses, Row, NoRow
      <3> QED
        BY <1>2, <2>2, <3>1 DEF CooldownElapses
    <2>3. ASSUME (\E j \in KeyIds : CreateKey(j)) \/ ResetStates
          PROVE  rows'[k] # NoRow
      BY <1>1, <1>2, <2>3 DEF CreateKey, ResetStates
    <2> QED
      BY <1>7, <2>1, <2>2, <2>3 DEF Environment, Admin, DeleteKey
  <1>8. ASSUME UNCHANGED rows
        PROVE  rows'[k] # NoRow
    BY <1>8
  <1> QED
    BY <1>3, <1>4, <1>5, <1>6, <1>7, <1>8
       DEF KMNext, PickStep, RecordStep, ProbeStep, PickBegin, Load, Reload, Reserve,
           PickNothing, PickRaises, Refresh, NoRecord, RecordRaises, RecordFails,
           Release, CloseSession, ProbeBegin

\* What a caller has seen or holds stays in the table.
LEMMA SeenStep ==
  ASSUME KMInv, SeenIsStored, "delete" \notin AdminOps, KMNext
  PROVE  SeenIsStored'
  <1> SUFFICES ASSUME NEW d \in Callers
               PROVE  /\ \A k \in DOMAIN snap'[d] : rows'[k] # NoRow
                      /\ phase'[d] \in Reserving => rows'[held'[d].id] # NoRow
    BY DEF SeenIsStored
  <1> USE DEF Reserving
  <1>1. ASSUME snap'[d] = snap[d] \/ DOMAIN snap'[d] = {} \/ DOMAIN snap'[d] = Active,
               phase'[d] \in Reserving => /\ phase[d] \in Reserving
                                          /\ held'[d].id = held[d].id
        PROVE  /\ \A k \in DOMAIN snap'[d] : rows'[k] # NoRow
               /\ phase'[d] \in Reserving => rows'[held'[d].id] # NoRow
    <2>1. \A k \in Active : rows[k] # NoRow
      BY DEF Active, NoRow
    <2>2. Active \subseteq KeyIds /\ DOMAIN snap[d] \subseteq KeyIds
      BY DEF Active, KMInv, KMTypeOK
    <2>3. phase[d] \in Reserving => held[d].id \in KeyIds
      BY DEF KMInv, KMTypeOK, Copy
    <2> QED
      BY <1>1, <2>1, <2>2, <2>3, StoredStays DEF SeenIsStored
  <1>2. ASSUME NEW c \in Callers, Reserve(c)
        PROVE  /\ \A k \in DOMAIN snap'[d] : rows'[k] # NoRow
               /\ phase'[d] \in Reserving => rows'[held'[d].id] # NoRow
    <2>1. CASE d = c
      BY <1>2, <2>1 DEF Reserve, NoSnap, Loaded, SeenIsStored, KMInv, KMTypeOK
    <2>2. CASE d # c
      <3>1. snap'[d] = snap[d] /\ phase'[d] = phase[d] /\ held'[d] = held[d]
        BY <1>2, <2>2 DEF Reserve, KMInv, KMTypeOK
      <3> QED
        BY <3>1, <1>1
    <2> QED
      BY <2>1, <2>2
  <1>3. ASSUME NEW c \in Callers, Load(c) \/ Reload(c)
        PROVE  /\ \A k \in DOMAIN snap'[d] : rows'[k] # NoRow
               /\ phase'[d] \in Reserving => rows'[held'[d].id] # NoRow
    BY <1>1, <1>3 DEF Load, Reload, ActiveRows, KMInv, KMTypeOK
  <1>4. ASSUME NEW c \in Callers,
               PickBegin(c) \/ Reactivate(c) \/ PickNothing(c) \/ PickRaises(c)
        PROVE  /\ \A k \in DOMAIN snap'[d] : rows'[k] # NoRow
               /\ phase'[d] \in Reserving => rows'[held'[d].id] # NoRow
    BY <1>1, <1>4 DEF PickBegin, Reactivate, PickNothing, PickRaises, NoSnap, KMInv, KMTypeOK
  <1>5. ASSUME NEW c \in Callers, NEW verdict \in Verdicts, Record(c, verdict)
        PROVE  /\ \A k \in DOMAIN snap'[d] : rows'[k] # NoRow
               /\ phase'[d] \in Reserving => rows'[held'[d].id] # NoRow
    BY <1>1, <1>5 DEF Record, KMInv, KMTypeOK
  <1>6. ASSUME NEW c \in Callers, Refresh(c)
        PROVE  /\ \A k \in DOMAIN snap'[d] : rows'[k] # NoRow
               /\ phase'[d] \in Reserving => rows'[held'[d].id] # NoRow
    <2>1. held[c] \in Copy
      BY <1>6 DEF Refresh, KMInv, KMTypeOK
    <2>2. held'[d].id = held[d].id
      BY <1>6, <2>1 DEF Refresh, KMInv, KMTypeOK, Copy
    <2> QED
      BY <1>1, <1>6, <2>2 DEF Refresh, KMInv, KMTypeOK
  <1>7. ASSUME NEW c \in Callers,
               RecordUsage(c) \/ NoRecord(c) \/ RecordRaises(c) \/ RecordFails(c)
                 \/ Release(c) \/ CloseSession(c)
        PROVE  /\ \A k \in DOMAIN snap'[d] : rows'[k] # NoRow
               /\ phase'[d] \in Reserving => rows'[held'[d].id] # NoRow
    BY <1>1, <1>7 DEF RecordUsage, NoRecord, RecordRaises, RecordFails, Release,
                      CloseSession, KMInv, KMTypeOK
  <1>8. CASE (\E p \in Probers : ProbeStep(p)) \/ Environment
    BY <1>1, <1>8 DEF ProbeStep, ProbeBegin, ProbeEnd, Environment
  <1> QED
    BY <1>2, <1>3, <1>4, <1>5, <1>6, <1>7, <1>8 DEF KMNext, PickStep, RecordStep

\* A reservation ends with the call it was made for, unless a record raises.
LEMMA KeptStep ==
  ASSUME KMInv, SeenIsStored, NoLeak, ~DbMayFail, KMNext
  PROVE  NoLeak'
  <1> USE DEF Reserving
  <1>1. ASSUME inFlight' \subseteq inFlight,
               \A d \in Callers : phase[d] \in Reserving =>
                 \/ phase'[d] \in Reserving /\ held'[d].id = held[d].id
                 \/ held[d].id \notin inFlight'
        PROVE  NoLeak'
    BY <1>1 DEF NoLeak
  <1>2. ASSUME NEW c \in Callers, Reserve(c)
        PROVE  NoLeak'
    <2>1. PICK k \in DOMAIN snap[c] :
            /\ inFlight' = inFlight \union {k}
            /\ held' = [held EXCEPT ![c] = Loaded(c, k)]
      BY <1>2 DEF Reserve
    <2>2. held'[c].id = k /\ phase'[c] \in Reserving /\ phase[c] \notin Reserving
      BY <1>2, <2>1 DEF Reserve, Loaded, KMInv, KMTypeOK
    <2>3. \A d \in Callers \ {c} : phase'[d] = phase[d] /\ held'[d] = held[d]
      BY <1>2, <2>1 DEF Reserve, KMInv, KMTypeOK
    <2> QED
      BY <2>1, <2>2, <2>3 DEF NoLeak
  <1>3. ASSUME NEW c \in Callers, Release(c)
        PROVE  NoLeak'
    BY <1>1, <1>3 DEF Release, KMInv, KMTypeOK
  <1>4. ASSUME NEW c \in Callers,
               PickBegin(c) \/ Load(c) \/ Reactivate(c) \/ Reload(c) \/ PickNothing(c)
        PROVE  NoLeak'
    BY <1>1, <1>4 DEF PickBegin, Load, Reactivate, Reload, PickNothing, KMInv, KMTypeOK
  <1>5. ASSUME NEW c \in Callers, NEW verdict \in Verdicts, Record(c, verdict)
        PROVE  NoLeak'
    BY <1>1, <1>5 DEF Record, KMInv, KMTypeOK
  <1>6. ASSUME NEW c \in Callers, Refresh(c)
        PROVE  NoLeak'
    <2>1. held[c] \in Copy
      BY <1>6 DEF Refresh, KMInv, KMTypeOK
    <2>2. \A d \in Callers : held'[d].id = held[d].id
      BY <1>6, <2>1 DEF Refresh, KMInv, KMTypeOK, Copy
    <2> QED
      BY <1>1, <1>6, <2>2 DEF Refresh, KMInv, KMTypeOK
  <1>7. ASSUME NEW c \in Callers, RecordUsage(c) \/ NoRecord(c) \/ CloseSession(c)
        PROVE  NoLeak'
    BY <1>1, <1>7 DEF RecordUsage, NoRecord, CloseSession, KMInv, KMTypeOK
  <1>8. ASSUME NEW c \in Callers, RecordRaises(c) \/ RecordFails(c) \/ PickRaises(c)
        PROVE  FALSE
    BY <1>8 DEF RecordRaises, RecordFails, PickRaises, SeenIsStored
  <1>9. CASE (\E p \in Probers : ProbeStep(p)) \/ Environment
    BY <1>1, <1>9 DEF ProbeStep, ProbeBegin, ProbeEnd, Environment
  <1> QED
    BY <1>2, <1>3, <1>4, <1>5, <1>6, <1>7, <1>8, <1>9 DEF KMNext, PickStep, RecordStep

\* If no key is deleted and no statement fails, no reservation is ever left
\* behind: these are the only two ways to lose one.
THEOREM NothingLost ==
  ASSUME "delete" \notin AdminOps, ~DbMayFail
  PROVE  KMSpec => []NoLeak
  <1>1. KMInit => KeptInv
    BY KMInitInv DEF KMInit, KeptInv, SeenIsStored, NoLeak, NoSnap, Reserving
  <1>2. KeptInv /\ [KMNext]_kmVars => KeptInv'
    <2> SUFFICES ASSUME KeptInv, [KMNext]_kmVars
                 PROVE  KeptInv'
      OBVIOUS
    <2>1. CASE KMNext
      BY <2>1, KMInvStep, SeenStep, KeptStep DEF KeptInv
    <2>2. CASE UNCHANGED kmVars
      BY <2>2, KMInvStep DEF kmVars, KeptInv, SeenIsStored, NoLeak
    <2> QED
      BY <2>1, <2>2
  <1>3. KeptInv => NoLeak
    BY DEF KeptInv
  <1> QED
    BY <1>1, <1>2, <1>3, PTL DEF KMSpec

(***************************************************************************)
(* For one request at a time a depleted key comes back                     *)
(***************************************************************************)

\* The copy a request holds says "depleted" whenever the row does, and its list
\* has no depleted key: so a write through the copy never leaves out a status
\* that has to change with the cooldown it clears.
CopyTellsDepleted ==
  \A c \in Callers :
    /\ phase[c] = "scan" => \A k \in DOMAIN snap[c] : rows[k].status # "depleted"
    /\ held[c] # NoCopy /\ phase[c] # "refresh" /\ rows[held[c].id].status = "depleted"
         => held[c].row.status = "depleted"

LoneInv == KMInv /\ CopyTellsDepleted /\ DepletedComesBack

\* An outcome recorded through a copy that tells a depleted row from others
\* leaves no depleted row without a cooldown, and only a rate limit depletes.
LEMMA RecordedComesBack ==
  ASSUME NEW row \in Row, NEW copy \in Row, NEW verdict \in Verdicts,
         row.status = "depleted" => row.cooldown # "none" /\ copy.status = "depleted"
  PROVE  Recorded(verdict, row, copy).status = "depleted"
           => Recorded(verdict, row, copy).cooldown # "none"
  BY DEF Recorded, Verdicts, Row, Success, SuccessWithUsage, Unauthorized,
         RateLimited, ServerError, NewRow, Flush, ClearCooldown

\* What comes from elsewhere than a recorded outcome leaves a row depleted or
\* makes it something else, and keeps its cooldown if it stays.
NoneDepleted ==
  \A k \in KeyIds : rows'[k].status = "depleted" =>
                      /\ rows[k].status = "depleted"
                      /\ rows[k].cooldown # "none" => rows'[k].cooldown # "none"

LEMMA OthersDepleteNone ==
  ASSUME KMInv, "deplete" \notin AdminOps,
         Environment \/ \E c \in Callers : Reactivate(c)
  PROVE  NoneDepleted
  <1> USE DEF NoneDepleted
  <1>1. rows \in [KeyIds -> Row \union {NoRow}]
    BY DEF KMInv, KMTypeOK
  <1>2. ASSUME NEW c \in Callers, Reactivate(c)
        PROVE  NoneDepleted
    BY <1>1, <1>2 DEF Reactivate, Reactivated, NewRow
  <1>3. ASSUME NEW k \in KeyIds, CreateKey(k) \/ DeleteKey(k)
        PROVE  NoneDepleted
    BY <1>1, <1>3 DEF CreateKey, DeleteKey, NewRow, NoRow
  <1>4. ASSUME NEW k \in KeyIds, NEW s \in Statuses, PatchStatus(k, s)
        PROVE  NoneDepleted
    <2>1. s # "depleted"
      BY <1>4 DEF PatchStatus, PatchOp
    <2>2. rows[k] \in Row
      BY <1>1, <1>4 DEF PatchStatus
    <2>3. [rows[k] EXCEPT !.status = s].status = s
      BY <2>2 DEF Row
    <2>4. rows' = [rows EXCEPT ![k] = [rows[k] EXCEPT !.status = s]]
      BY <1>4 DEF PatchStatus
    <2> QED
      BY <1>1, <2>1, <2>3, <2>4
  <1>5. CASE ResetStates
    BY <1>1, <1>5 DEF ResetStates, NewRow, NoRow
  <1>6. ASSUME NEW k \in KeyIds, CooldownElapses(k)
        PROVE  NoneDepleted
    <2>1. rows[k] \in Row
      BY <1>1, <1>6 DEF CooldownElapses, NoRow
    <2> DEFINE elapsed == [rows[k] EXCEPT !.cooldown = "elapsed"]
    <2>2. elapsed.status = rows[k].status /\ elapsed.cooldown = "elapsed"
      BY <2>1 DEF Row
    <2>3. rows' = [rows EXCEPT ![k] = elapsed]
      BY <1>6 DEF CooldownElapses
    <2> QED
      BY <1>1, <2>2, <2>3
  <1> QED
    BY <1>2, <1>3, <1>4, <1>5, <1>6 DEF Environment, Admin

\* Rows, list and copy of the one request, after each of its steps and of the
\* administrator's.
LEMMA LoneStep ==
  ASSUME LoneInv, KMNext, "deplete" \notin AdminOps, Probers = {},
         \A c, d \in Callers : c = d
  PROVE  CopyTellsDepleted' /\ DepletedComesBack'
  <1> USE DEF LoneInv, KMInv, KMTypeOK
  <1>1. ASSUME NoneDepleted,
               \A c \in Callers :
                 /\ phase'[c] = "scan" => phase[c] = "scan" /\ snap'[c] = snap[c]
                 /\ held'[c] # NoCopy => held'[c] = held[c]
                 /\ phase'[c] # "refresh" => phase[c] # "refresh" \/ held'[c] = NoCopy
        PROVE  CopyTellsDepleted' /\ DepletedComesBack'
    <2>1. DepletedComesBack'
      BY <1>1 DEF DepletedComesBack, NoneDepleted
    <2>2. ASSUME NEW c \in Callers
          PROVE  /\ phase'[c] = "scan" => \A k \in DOMAIN snap'[c] : rows'[k].status # "depleted"
                 /\ held'[c] # NoCopy /\ phase'[c] # "refresh" /\ rows'[held'[c].id].status = "depleted"
                      => held'[c].row.status = "depleted"
      <3>1. DOMAIN snap[c] \subseteq KeyIds /\ (held[c] # NoCopy => held[c].id \in KeyIds)
        BY DEF Copy
      <3> QED
        BY <1>1, <3>1 DEF CopyTellsDepleted, NoneDepleted
    <2> QED
      BY <2>1, <2>2 DEF CopyTellsDepleted
  <1>2. UNCHANGED rows => NoneDepleted
    BY DEF NoneDepleted
  <1>3. ASSUME NEW c \in Callers,
               \/ PickBegin(c) \/ PickNothing(c) \/ PickRaises(c) \/ NoRecord(c)
               \/ RecordRaises(c) \/ RecordFails(c) \/ Release(c) \/ CloseSession(c)
        PROVE  CopyTellsDepleted' /\ DepletedComesBack'
    BY <1>1, <1>2, <1>3 DEF PickBegin, PickNothing, PickRaises, NoRecord, RecordRaises,
                            RecordFails, Release, CloseSession
  <1>4. ASSUME NEW c \in Callers, Reactivate(c)
        PROVE  CopyTellsDepleted' /\ DepletedComesBack'
    BY <1>1, <1>4, OthersDepleteNone DEF Reactivate
  <1>5. ASSUME NEW c \in Callers, Load(c) \/ Reload(c)
        PROVE  CopyTellsDepleted' /\ DepletedComesBack'
    <2>1. \A k \in DOMAIN ActiveRows : rows[k].status # "depleted"
      BY DEF ActiveRows, Active
    <2>2. UNCHANGED <<rows, held>> /\ snap'[c] = ActiveRows /\ phase[c] # "refresh"
      BY <1>5 DEF Load, Reload
    <2> QED
      BY <2>1, <2>2 DEF CopyTellsDepleted, DepletedComesBack
  <1>6. ASSUME NEW c \in Callers, Reserve(c)
        PROVE  CopyTellsDepleted' /\ DepletedComesBack'
    <2>1. PICK k \in DOMAIN snap[c] : held'[c] = Loaded(c, k)
      BY <1>6 DEF Reserve
    <2>2. UNCHANGED rows /\ phase[c] = "scan" /\ phase'[c] = "using"
      BY <1>6 DEF Reserve
    <2>3. rows[k].status # "depleted"
      BY <2>2 DEF CopyTellsDepleted
    <2>4. held'[c].id = k
      BY <2>1 DEF Loaded
    <2> QED
      BY <2>2, <2>3, <2>4 DEF CopyTellsDepleted, DepletedComesBack
  <1>7. ASSUME NEW c \in Callers, NEW verdict \in Verdicts, Record(c, verdict)
        PROVE  CopyTellsDepleted' /\ DepletedComesBack'
    <2> DEFINE k == held[c].id
               row == Recorded(verdict, rows[k], held[c].row)
    <2>1. held[c] \in Copy /\ held[c] # NoCopy /\ phase[c] = "using"
      BY <1>7 DEF Record, Reserving
    <2>2. k \in KeyIds /\ rows[k] \in Row /\ held[c].row \in Row
      BY <1>7, <2>1 DEF Record, Copy
    <2>3. row.status = "depleted" => row.cooldown # "none"
      BY <2>1, <2>2, RecordedComesBack DEF CopyTellsDepleted, DepletedComesBack
    <2>4. rows' = [rows EXCEPT ![k] = row] /\ phase'[c] = "refresh"
      BY <1>7 DEF Record
    <2> QED
      BY <2>2, <2>3, <2>4 DEF CopyTellsDepleted, DepletedComesBack
  <1>8. ASSUME NEW c \in Callers, Refresh(c)
        PROVE  CopyTellsDepleted' /\ DepletedComesBack'
    <2>1. held[c] \in Copy /\ rows[held[c].id] \in Row
      BY <1>8 DEF Refresh, Reserving, Copy
    <2>2. Remember(rows[held[c].id]).status = rows[held[c].id].status
      BY <2>1 DEF Remember, Row
    <2>3. /\ held'[c].id = held[c].id
          /\ held'[c].row = Remember(rows[held[c].id])
          /\ UNCHANGED rows /\ phase'[c] = "recorded"
      BY <1>8, <2>1 DEF Refresh, Copy
    <2> QED
      BY <2>2, <2>3 DEF CopyTellsDepleted, DepletedComesBack
  <1>9. ASSUME NEW c \in Callers, RecordUsage(c)
        PROVE  CopyTellsDepleted' /\ DepletedComesBack'
    <2>1. NoneDepleted
      BY <1>9 DEF RecordUsage, Recorded, SuccessWithUsage, NewRow, NoneDepleted
    <2> QED
      BY <1>1, <1>9, <2>1 DEF RecordUsage
  <1>10. CASE Environment
    BY <1>1, <1>10, OthersDepleteNone DEF Environment
  <1> QED
    BY <1>3, <1>4, <1>5, <1>6, <1>7, <1>8, <1>9, <1>10 DEF KMNext, PickStep, RecordStep

\* For one request at a time, and no probe and no PATCH to "depleted" beside it,
\* a depleted key carries the cooldown that brings it back, whatever else the
\* administrator does and whatever statements fail.
THEOREM DepletedKeysComeBack ==
  ASSUME "deplete" \notin AdminOps, Probers = {}, \A c, d \in Callers : c = d
  PROVE  KMSpec => []DepletedComesBack
  <1>1. KMInit => LoneInv
    <2> SUFFICES ASSUME KMInit
                 PROVE  LoneInv
      OBVIOUS
    <2>1. DepletedComesBack
      BY DEF KMInit, StartRows, NoRow, NewRow, DepletedComesBack
    <2> QED
      BY <2>1, KMInitInv DEF KMInit, LoneInv, CopyTellsDepleted
  <1>2. LoneInv /\ [KMNext]_kmVars => LoneInv'
    <2> SUFFICES ASSUME LoneInv, [KMNext]_kmVars
                 PROVE  LoneInv'
      OBVIOUS
    <2>1. CASE KMNext
      BY <2>1, KMInvStep, LoneStep DEF LoneInv
    <2>2. CASE UNCHANGED kmVars
      BY <2>2, KMInvStep DEF kmVars, LoneInv, CopyTellsDepleted, DepletedComesBack
    <2> QED
      BY <2>1, <2>2
  <1>3. LoneInv => DepletedComesBack
    BY DEF LoneInv
  <1> QED
    BY <1>1, <1>2, <1>3, PTL DEF KMSpec

(***************************************************************************)
(* The ring of keys: places, distances from the pointer, and what moving   *)
(* the pointer does to them                                                *)
(***************************************************************************)

\* A remainder is smaller than the divisor.
LEMMA RemainderType ==
  ASSUME NEW n \in Nat \ {0}, NEW a \in Int
  PROVE  a % n \in 0..(n - 1)
  OBVIOUS

\* There is one way to divide with remainder ...
LEMMA DivisionUnique ==
  ASSUME NEW n \in Nat \ {0}, NEW a \in Int, NEW q \in Int, NEW r \in 0..(n - 1), a = n * q + r
  PROVE  a % n = r
  OBVIOUS

\* ... and there is one.
LEMMA DivisionExists ==
  ASSUME NEW n \in Nat \ {0}, NEW a \in Int
  PROVE  \E q \in Int : a = n * q + (a % n)
  <1>1. (a \div n) \in Int
    OBVIOUS
  <1>2. a = n * (a \div n) + (a % n)
    OBVIOUS
  <1> QED BY <1>1, <1>2

\* Turning a ring of n places by x keeps different places different.
LEMMA RemainderInjective ==
  ASSUME NEW n \in Nat \ {0}, NEW a \in 0..(n - 1), NEW b \in 0..(n - 1), NEW x \in Int, a # b
  PROVE  (a - x) % n # (b - x) % n
  <1> DEFINE r == (a - x) % n
             s == (b - x) % n
  <1>1. r \in Int /\ s \in Int
    BY RemainderType
  <1>0. a - x \in Int /\ b - x \in Int /\ a + 1 \in Int
    OBVIOUS
  <1>2. PICK p \in Int : a - x = n * p + r
    BY <1>0, DivisionExists, Zenon
  <1>3. PICK q \in Int : b - x = n * q + s
    BY <1>0, DivisionExists, Zenon
  <1> HIDE DEF r, s
  <1> SUFFICES ASSUME r = s
               PROVE  FALSE
    BY DEF r, s
  <1>4. a - b = n * (p - q)
    BY <1>1, <1>2, <1>3
  <1>5. CASE p - q >= 1
    <2>1. n * (p - q) >= n
      BY <1>5
    <2> QED
      BY <1>4, <2>1
  <1>6. CASE p - q <= -1
    <2>1. n * (p - q) <= -n
      BY <1>6
    <2> QED
      BY <1>4, <2>1
  <1>7. CASE p - q = 0
    BY <1>4, <1>7
  <1> QED
    BY <1>5, <1>6, <1>7

\* Let a be no further from x than b.  Counted from the place after a, the
\* place a is the last of the ring and every other b has come nearer by the
\* distance up to and including a.
LEMMA RemainderAdvances ==
  ASSUME NEW n \in Nat \ {0}, NEW a \in 0..(n - 1), NEW b \in 0..(n - 1), NEW x \in Int,
         (a - x) % n <= (b - x) % n
  PROVE  (b - ((a + 1) % n)) % n = IF a = b THEN n - 1
                                   ELSE ((b - x) % n) - ((a - x) % n) - 1
  <1> DEFINE r == (a - x) % n
             s == (b - x) % n
             y == (a + 1) % n
             d == IF a = b THEN n - 1 ELSE s - r - 1
  <1>1. r \in 0..(n - 1) /\ s \in 0..(n - 1) /\ y \in 0..(n - 1)
    BY RemainderType
  <1>0. a - x \in Int /\ b - x \in Int /\ a + 1 \in Int
    OBVIOUS
  <1>2. PICK p \in Int : a - x = n * p + r
    BY <1>0, DivisionExists, Zenon
  <1>3. PICK q \in Int : b - x = n * q + s
    BY <1>0, DivisionExists, Zenon
  <1>4. PICK t \in Int : a + 1 = n * t + y
    BY <1>0, DivisionExists, Zenon
  <1>5. d \in 0..(n - 1)
    <2>1. a # b => r # s
      BY RemainderInjective
    <2> QED
      BY <1>1, <2>1
  <1>6. (b - y) % n = d
    <2> HIDE DEF r, s, y
    <2>1. CASE a = b
      <3>1. b - y = n * (t - 1) + d
        <4>1. n * (t - 1) = n * t - n
          OBVIOUS
        <4> QED
          BY <1>1, <1>4, <2>1, <4>1
      <3> QED
        <4> HIDE DEF d
        <4> QED BY <1>1, <1>5, <3>1, DivisionUnique
    <2>2. CASE a # b
      <3>1. b - y = n * (q - p + t) + d
        <4>1. n * (q - p + t) = n * q - n * p + n * t
          OBVIOUS
        <4>2. n * q \in Int /\ n * p \in Int /\ n * t \in Int
          OBVIOUS
        <4> QED
          BY <1>1, <1>2, <1>3, <1>4, <2>2, <4>1, <4>2
      <3> QED
        <4> HIDE DEF d
        <4> QED BY <1>1, <1>5, <3>1, DivisionUnique
    <2> QED
      BY <2>1, <2>2
  <1> QED
    BY <1>6, Zenon

\* A list of keys is finite; it has a place for the pointer if it has a key.
LEMMA PoolSize ==
  ASSUME NEW pool, pool \subseteq KeyIds
  PROVE  /\ IsFiniteSet(pool) /\ Cardinality(pool) \in 0..MaxId
         /\ pool # {} => Cardinality(pool) \in Nat \ {0}
  <1>1. IsFiniteSet(KeyIds) /\ Cardinality(KeyIds) = MaxId
    BY MaxIdAssumption, FS_Interval DEF KeyIds
  <1>2. IsFiniteSet(pool) /\ Cardinality(pool) <= MaxId
    BY <1>1, FS_Subset
  <1> QED
    BY <1>2, FS_CardinalityType, FS_EmptySet, MaxIdAssumption

\* The place of a key in a list is an index into it.
LEMMA PlaceRange ==
  ASSUME NEW pool, pool \subseteq KeyIds, NEW k \in pool
  PROVE  Place(pool, k) \in 0..(Cardinality(pool) - 1)
  <1> DEFINE before == {j \in pool : j < k}
  <1>1. before \in SUBSET pool /\ k \notin before
    BY DEF KeyIds
  <1>2. Cardinality(before) <= Cardinality(pool) /\ Cardinality(before) # Cardinality(pool)
    BY <1>1, PoolSize, FS_Subset
  <1>3. Cardinality(before) \in Nat /\ Cardinality(pool) \in Nat
    BY <1>1, PoolSize, FS_Subset, FS_CardinalityType
  <1> QED
    BY <1>2, <1>3 DEF Place

\* Different keys of a list have different places: ids are compared, and the
\* list is ordered by them.
LEMMA PlaceInjective ==
  ASSUME NEW pool, pool \subseteq KeyIds, NEW j \in pool, NEW k \in pool, j # k
  PROVE  Place(pool, j) # Place(pool, k)
  <1>1. pool \subseteq Int
    BY DEF KeyIds
  <1>2. ASSUME NEW a \in pool, NEW b \in pool, a < b
        PROVE  Place(pool, a) # Place(pool, b)
    <2> DEFINE A == {i \in pool : i < a}
               B == {i \in pool : i < b}
    <2>1. A \subseteq B /\ a \in B /\ a \notin A
      <3>1. a \in Int /\ b \in Int /\ ~(a < a) /\ \A i \in pool : i \in Int
        BY <1>1
      <3>2. \A i \in pool : i < a => i < b
        BY <1>2, <3>1
      <3> QED
        BY <1>2, <3>1, <3>2
    <2>2. IsFiniteSet(B)
      BY PoolSize, FS_Subset
    <2>3. Cardinality(A) # Cardinality(B)
      <3> HIDE DEF A, B
      <3> QED
        BY <2>1, <2>2, FS_Subset
    <2> QED
      BY <2>3 DEF Place
  <1>3. j < k \/ k < j
    BY <1>1
  <1> QED
    BY <1>2, <1>3

\* Of two keys the one with the smaller id comes first.
LEMMA PlaceMonotone ==
  ASSUME NEW pool, pool \subseteq KeyIds, NEW j \in pool, NEW k \in pool, j < k
  PROVE  Place(pool, j) < Place(pool, k)
  <1> DEFINE A == {i \in pool : i < j}
             B == {i \in pool : i < k}
  <1>0. j \in Int /\ k \in Int /\ j # k /\ \A i \in pool : i \in Int
    BY DEF KeyIds
  <1>1. A \subseteq B /\ A \in SUBSET pool /\ B \in SUBSET pool
    <2>1. \A i \in pool : i < j => i < k
      BY <1>0
    <2> QED
      BY <2>1
  <1>2. Cardinality(A) <= Cardinality(B) /\ Cardinality(A) \in Nat /\ Cardinality(B) \in Nat
    <2>1. IsFiniteSet(A) /\ IsFiniteSet(B)
      BY <1>1, PoolSize, FS_Subset
    <2> HIDE DEF A, B
    <2> QED
      BY <1>1, <2>1, FS_Subset, FS_CardinalityType
  <1>3. Cardinality(A) # Cardinality(B)
    BY <1>0, PlaceInjective DEF Place
  <1> QED
    BY <1>2, <1>3 DEF Place

\* The number of places from a pointer to key k, going round the list.
Distance(pool, from, k) == (Place(pool, k) - from) % Cardinality(pool)

\* A distance is an index into the list.
LEMMA DistanceRange ==
  ASSUME NEW pool, pool \subseteq KeyIds, NEW k \in pool, NEW from \in Int
  PROVE  Distance(pool, from, k) \in 0..(Cardinality(pool) - 1)
  <1>1. Cardinality(pool) \in Nat \ {0} /\ Place(pool, k) - from \in Int
    BY PoolSize, PlaceRange
  <1> QED
    BY <1>1, RemainderType DEF Distance

\* Different keys are at different distances.
LEMMA DistanceInjective ==
  ASSUME NEW pool, pool \subseteq KeyIds, NEW j \in pool, NEW k \in pool, j # k, NEW from \in Int
  PROVE  Distance(pool, from, j) # Distance(pool, from, k)
  BY PoolSize, PlaceRange, PlaceInjective, RemainderInjective DEF Distance

\* When the pointer moves to the place after key m, which was no further than
\* key k, then m is at the far end and any other k is nearer by as much as the
\* pointer moved.
LEMMA PointerAdvances ==
  ASSUME NEW pool, pool \subseteq KeyIds, NEW m \in pool, NEW k \in pool, NEW from \in Int,
         Distance(pool, from, m) <= Distance(pool, from, k)
  PROVE  Distance(pool, (Place(pool, m) + 1) % Cardinality(pool), k)
           = IF k = m THEN Cardinality(pool) - 1
             ELSE Distance(pool, from, k) - Distance(pool, from, m) - 1
  <1> DEFINE n == Cardinality(pool)
             a == Place(pool, m)
             b == Place(pool, k)
  <1>1. n \in Nat \ {0} /\ a \in 0..(n - 1) /\ b \in 0..(n - 1)
    BY PoolSize, PlaceRange
  <1>2. (a - from) % n <= (b - from) % n
    BY DEF Distance
  <1>3. a = b <=> k = m
    BY PlaceInjective
  <1>4. (b - ((a + 1) % n)) % n = IF a = b THEN n - 1
                                   ELSE ((b - from) % n) - ((a - from) % n) - 1
    <2> HIDE DEF n, a, b
    <2> QED
      BY <1>1, <1>2, RemainderAdvances
  <1> QED
    BY <1>3, <1>4, Zenon DEF Distance

(***************************************************************************)
(* A key leaves the ring                                                   *)
(***************************************************************************)

\* The keys behind the one that leaves move up by one place.
LEMMA PlacesMoveUp ==
  ASSUME NEW pool, pool \subseteq KeyIds, NEW k \in pool, NEW m \in pool \ {k}
  PROVE  /\ Cardinality(pool \ {k}) = Cardinality(pool) - 1
         /\ Place(pool \ {k}, m) = IF Place(pool, k) < Place(pool, m)
                                   THEN Place(pool, m) - 1 ELSE Place(pool, m)
  <1>1. IsFiniteSet(pool) /\ Cardinality(pool \ {k}) = Cardinality(pool) - 1
    BY PoolSize, FS_RemoveElement
  <1> DEFINE before == {j \in pool : j < m}
             left   == {j \in pool \ {k} : j < m}
  <1>2. IsFiniteSet(before)
    BY <1>1, FS_Subset
  <1>3. CASE k < m
    <2>1. Place(pool, k) < Place(pool, m)
      BY <1>3, PlaceMonotone
    <2>2. k \in before /\ left = before \ {k}
      BY <1>3
    <2>3. Cardinality(left) = Cardinality(before) - 1
      <3> HIDE DEF before, left
      <3> QED
        BY <1>2, <2>2, FS_RemoveElement
    <2> QED
      BY <1>1, <2>1, <2>3 DEF Place
  <1>4. CASE m < k
    <2>1. Place(pool, m) < Place(pool, k)
      BY <1>4, PlaceMonotone
    <2>2. ~(Place(pool, k) < Place(pool, m))
      BY <2>1, PlaceRange, PoolSize
    <2>3. left = before
      BY <1>4 DEF KeyIds
    <2> QED
      BY <1>1, <2>2, <2>3 DEF Place
  <1> QED
    BY <1>3, <1>4 DEF KeyIds

\* Counted from the place after a, whose key leaves a ring of n: every other place
\* b comes one nearer, but for the next one, which goes to the far end; unless a
\* was the last place, when all stay where they are.
LEMMA RemainderShrinks ==
  ASSUME NEW n \in Nat, n >= 2, NEW a \in 0..(n - 1), NEW b \in 0..(n - 1), a # b
  PROVE  ((IF a < b THEN b - 1 ELSE b) - ((a + 1) % n)) % (n - 1)
           = IF a = n - 1 THEN (b - ((a + 1) % n)) % n
             ELSE IF (b - ((a + 1) % n)) % n = 0 THEN n - 2
             ELSE ((b - ((a + 1) % n)) % n) - 1
  <1>1. n \in Nat \ {0} /\ n - 1 \in Nat \ {0}
    OBVIOUS
  <1>2. CASE a = n - 1
    <2>1. (a + 1) % n = 0
      <3>1. a + 1 = n * 1 + 0 /\ 0 \in 0..(n - 1)
        BY <1>2
      <3> QED
        BY <1>1, <3>1, DivisionUnique
    <2>2. b % n = b /\ b % (n - 1) = b
      <3>1. b = n * 0 + b /\ b = (n - 1) * 0 + b /\ b \in 0..((n - 1) - 1)
        BY <1>2
      <3> QED
        BY <1>1, <3>1, DivisionUnique
    <2> QED
      BY <1>2, <2>1, <2>2
  <1>3. CASE a < n - 1
    <2>1. (a + 1) % n = a + 1
      <3>1. a + 1 = n * 0 + (a + 1) /\ a + 1 \in 0..(n - 1)
        BY <1>3
      <3> QED
        BY <1>1, <3>1, DivisionUnique
    <2>2. CASE b = a + 1
      <3>1. (b - (a + 1)) % n = 0
        <4>1. b - (a + 1) = n * 0 + 0 /\ 0 \in 0..(n - 1)
          BY <2>2
        <4> QED
          BY <1>1, <4>1, DivisionUnique
      <3>2. ((b - 1) - (a + 1)) % (n - 1) = n - 2
        <4>1. /\ (b - 1) - (a + 1) = (n - 1) * (-1) + (n - 2)
              /\ n - 2 \in 0..((n - 1) - 1)
          BY <2>2
        <4> QED
          BY <1>1, <4>1, DivisionUnique
      <3> QED
        BY <1>3, <2>1, <2>2, <3>1, <3>2
    <2>3. CASE b > a + 1
      <3>1. (b - (a + 1)) % n = b - a - 1
        <4>1. b - (a + 1) = n * 0 + (b - a - 1) /\ b - a - 1 \in 0..(n - 1)
          BY <2>3
        <4> QED
          BY <1>1, <4>1, DivisionUnique
      <3>2. ((b - 1) - (a + 1)) % (n - 1) = b - a - 2
        <4>1. /\ (b - 1) - (a + 1) = (n - 1) * 0 + (b - a - 2)
              /\ b - a - 2 \in 0..((n - 1) - 1)
          BY <2>3
        <4> QED
          BY <1>1, <4>1, DivisionUnique
      <3> QED
        BY <1>3, <2>1, <2>3, <3>1, <3>2
    <2>4. CASE b < a
      <3>1. (b - (a + 1)) % n = b - a - 1 + n
        <4>1. b - (a + 1) = n * (-1) + (b - a - 1 + n) /\ b - a - 1 + n \in 0..(n - 1)
          BY <1>3, <2>4
        <4> QED
          BY <1>1, <4>1, DivisionUnique
      <3>2. (b - (a + 1)) % (n - 1) = b - a - 2 + n
        <4>1. /\ b - (a + 1) = (n - 1) * (-1) + (b - a - 2 + n)
              /\ b - a - 2 + n \in 0..((n - 1) - 1)
          BY <1>3, <2>4
        <4> QED
          BY <1>1, <4>1, DivisionUnique
      <3> QED
        BY <1>3, <2>1, <2>4, <3>1, <3>2
    <2> QED
      BY <2>2, <2>3, <2>4
  <1> QED
    BY <1>2, <1>3

\* The keys among the last t of the ring when the key just picked leaves it: those
\* that were, and one more at most.
LEMMA OneMoreBehind ==
  ASSUME NEW pool, pool \subseteq KeyIds, NEW k \in pool, NEW t \in Int
  PROVE  LET from == (Place(pool, k) + 1) % Cardinality(pool)
             rest == pool \ {k}
         IN  \E e \in KeyIds :
               {m \in rest : Distance(rest, from, m) >= Cardinality(rest) - t}
                 \subseteq {m \in pool : Distance(pool, from, m) >= Cardinality(pool) - t} \union {e}
  <1> DEFINE n == Cardinality(pool)
             from == (Place(pool, k) + 1) % n
             rest == pool \ {k}
  <1>1. n \in Nat \ {0} /\ Place(pool, k) \in 0..(n - 1) /\ from \in Int /\ rest \subseteq KeyIds
    <2>1. n \in Nat \ {0} /\ Place(pool, k) \in 0..(n - 1)
      BY PoolSize, PlaceRange
    <2>2. from \in 0..(n - 1)
      <3>1. Place(pool, k) + 1 \in Int
        BY <2>1
      <3> HIDE DEF n
      <3> QED
        BY <2>1, <3>1, RemainderType
    <2> QED
      BY <2>1, <2>2
  <1>2. ASSUME NEW m \in rest
        PROVE  /\ Distance(pool, from, m) \in Int /\ Cardinality(rest) = n - 1
               /\ Distance(rest, from, m)
                    = IF Place(pool, k) = n - 1 THEN Distance(pool, from, m)
                      ELSE IF Distance(pool, from, m) = 0 THEN n - 2
                      ELSE Distance(pool, from, m) - 1
    <2>1. /\ Place(pool, m) \in 0..(n - 1) /\ Place(pool, k) # Place(pool, m)
          /\ Distance(pool, from, m) \in 0..(n - 1)
      BY <1>1, PlaceRange, PlaceInjective, DistanceRange
    <2>2. Cardinality(rest) = n - 1
          /\ Place(rest, m) = IF Place(pool, k) < Place(pool, m)
                              THEN Place(pool, m) - 1 ELSE Place(pool, m)
      BY PlacesMoveUp
    <2>3. n >= 2
      BY <1>1, <2>1
    <2> DEFINE a == Place(pool, k)
               b == Place(pool, m)
    <2>4. ((IF a < b THEN b - 1 ELSE b) - ((a + 1) % n)) % (n - 1)
            = IF a = n - 1 THEN (b - ((a + 1) % n)) % n
              ELSE IF (b - ((a + 1) % n)) % n = 0 THEN n - 2
              ELSE ((b - ((a + 1) % n)) % n) - 1
      <3> HIDE DEF n, a, b
      <3>1. n \in Nat /\ a \in 0..(n - 1) /\ b \in 0..(n - 1) /\ a # b
        BY <1>1, <2>1 DEF a, b
      <3> QED
        BY <2>3, <3>1, RemainderShrinks
    <2>5. Distance(rest, from, m) = ((IF a < b THEN b - 1 ELSE b) - ((a + 1) % n)) % (n - 1)
      BY <2>2, Zenon DEF Distance
    <2>6. Distance(pool, from, m) = (b - ((a + 1) % n)) % n
      BY Zenon DEF Distance
    <2> HIDE DEF n, a, b, from, rest
    <2>7. a = Place(pool, k)
      BY DEF a
    <2> QED
      BY <2>1, <2>2, <2>4, <2>5, <2>6, <2>7
  <1>3. \A x, y \in rest : Distance(pool, from, x) = Distance(pool, from, y) => x = y
    BY <1>1, DistanceInjective
  <1> DEFINE last == IF Place(pool, k) = n - 1 THEN (n - 1) - t ELSE 0
  <1>4. ASSUME NEW m \in rest, Distance(rest, from, m) >= Cardinality(rest) - t,
               Distance(pool, from, m) # last
        PROVE  Distance(pool, from, m) >= n - t
    <2> HIDE DEF from, rest, n
    <2>1. CASE Place(pool, k) = n - 1
      BY <1>1, <1>2, <1>4, <2>1
    <2>2. CASE Place(pool, k) # n - 1
      BY <1>1, <1>2, <1>4, <2>2
    <2> QED
      BY <2>1, <2>2
  <1>5. CASE \E x \in rest : Distance(pool, from, x) = last
    <2>1. PICK x \in rest : Distance(pool, from, x) = last
      BY <1>5
    <2>2. {m \in rest : Distance(rest, from, m) >= Cardinality(rest) - t}
            \subseteq {m \in pool : Distance(pool, from, m) >= n - t} \union {x}
      <3> HIDE DEF from, last, n
      <3> QED
        BY <1>3, <1>4, <2>1
    <2>3. x \in KeyIds
      OBVIOUS
    <2> QED
      BY <2>2, <2>3
  <1>6. CASE ~\E x \in rest : Distance(pool, from, x) = last
    <2>1. {m \in rest : Distance(rest, from, m) >= Cardinality(rest) - t}
            \subseteq {m \in pool : Distance(pool, from, m) >= n - t} \union {k}
      <3> HIDE DEF from, last, n
      <3> QED
        BY <1>4, <1>6
    <2>2. k \in KeyIds
      OBVIOUS
    <2> QED
      BY <2>1, <2>2
  <1> QED
    BY <1>5, <1>6

(***************************************************************************)
(* The pointer is fair (RoundRobin)                                        *)
(***************************************************************************)

\* The keys reserved past a waiting key lie behind it on the ring: the pointer
\* reaches the waiting key before it reaches any of them again.
PassedBehind ==
  \A k \in KeyIds : \A j \in passed[k] :
    /\ k \in Active \ inFlight
    /\ j \in Active
    /\ Offset(Active, k) < Offset(Active, j)

RRInv == KMInv /\ DOMAIN passed = KeyIds /\ PassedBehind

\* A place counted from the pointer is one of the places of the ring.
LEMMA OffsetRange ==
  ASSUME KMInv, NEW k \in Active
  PROVE  /\ Cardinality(Active) \in Nat
         /\ Offset(Active, k) \in 0..(Cardinality(Active) - 1)
  <1>1. Active \subseteq KeyIds /\ nextIdx \in Int
    BY MaxIdAssumption DEF Active, KMInv, KMTypeOK
  <1>2. Offset(Active, k) = Distance(Active, nextIdx, k)
    BY DEF Offset, Distance
  <1> QED
    BY <1>1, <1>2, PoolSize, DistanceRange

\* Only a reservation moves the pointer or adds a reservation.
LEMMA OnlyReserveAdvances ==
  ASSUME KMInv, KMNext, ~\E c \in Callers : Reserve(c)
  PROVE  /\ UNCHANGED nextIdx
         /\ inFlight' \subseteq inFlight
         /\ \A c \in Callers : phase'[c] = "using" => phase[c] = "using"
  <1> USE DEF KMInv, KMTypeOK
  <1>1. ASSUME NEW c \in Callers, PickBegin(c) \/ Release(c) \/ CloseSession(c)
        PROVE  /\ UNCHANGED nextIdx
               /\ inFlight' \subseteq inFlight
               /\ \A d \in Callers : phase'[d] = "using" => phase[d] = "using"
    BY <1>1 DEF PickBegin, Release, CloseSession
  <1>2. ASSUME NEW c \in Callers, PickStep(c)
        PROVE  /\ UNCHANGED nextIdx
               /\ inFlight' \subseteq inFlight
               /\ \A d \in Callers : phase'[d] = "using" => phase[d] = "using"
    BY <1>2 DEF PickStep, Load, Reactivate, Reload, PickNothing, PickRaises
  <1>3. ASSUME NEW c \in Callers, RecordStep(c)
        PROVE  /\ UNCHANGED nextIdx
               /\ inFlight' \subseteq inFlight
               /\ \A d \in Callers : phase'[d] = "using" => phase[d] = "using"
    BY <1>3 DEF RecordStep, Record, Refresh, RecordUsage, NoRecord, RecordRaises, RecordFails
  <1>4. CASE (\E p \in Probers : ProbeStep(p)) \/ Environment
    BY <1>4 DEF ProbeStep, ProbeBegin, ProbeEnd, Environment
  <1> QED
    BY <1>1, <1>2, <1>3, <1>4 DEF KMNext

\* A reservation from a list that is still the pool takes the nearest free key
\* and sets the pointer behind it.
LEMMA ReserveAdvances ==
  ASSUME KMInv, NEW c \in Callers, Reserve(c), ~OutdatedPick
  PROVE  /\ Active' = Active
         /\ \E m \in Active \ inFlight :
              /\ inFlight' = inFlight \union {m}
              /\ nextIdx' = (Place(Active, m) + 1) % Cardinality(Active)
              /\ \A k \in Active \ inFlight : Offset(Active, m) <= Offset(Active, k)
  <1>1. DOMAIN snap[c] = Active
    BY DEF OutdatedPick, Reserve, KMInv, KMTypeOK
  <1>2. Active' = Active
    BY DEF Reserve, Active
  <1> QED
    BY <1>1, <1>2 DEF Reserve, IsFirstFree

\* What such a reservation does to the place of a key no nearer than the one
\* it takes: that one goes to the far end, the others move up.
LEMMA OffsetsAfterReserve ==
  ASSUME KMInv, NEW m \in Active, NEW k \in Active, Active' = Active,
         nextIdx' = (Place(Active, m) + 1) % Cardinality(Active),
         Offset(Active, m) <= Offset(Active, k)
  PROVE  Offset(Active, k)' = IF k = m THEN Cardinality(Active) - 1
                              ELSE Offset(Active, k) - Offset(Active, m) - 1
  <1>1. Active \subseteq KeyIds /\ nextIdx \in Int
    BY MaxIdAssumption DEF Active, KMInv, KMTypeOK
  <1>2. Offset(Active, k)' = Distance(Active, nextIdx', k)
    BY DEF Offset, Distance
  <1>3. Offset(Active, k) = Distance(Active, nextIdx, k)
        /\ Offset(Active, m) = Distance(Active, nextIdx, m)
    BY DEF Offset, Distance
  <1> QED
    BY <1>1, <1>2, <1>3, PointerAdvances

\* No two keys have the same place.
LEMMA OffsetInjective ==
  ASSUME KMInv, NEW j \in Active, NEW k \in Active, j # k
  PROVE  Offset(Active, j) # Offset(Active, k)
  <1>1. Active \subseteq KeyIds /\ nextIdx \in Int
    BY MaxIdAssumption DEF Active, KMInv, KMTypeOK
  <1> QED
    BY <1>1, DistanceInjective DEF Offset, Distance

\* The step keeps the keys passed behind the key they passed.
LEMMA PassedStep ==
  ASSUME RRInv, RRNext
  PROVE  PassedBehind'
  <1> SUFFICES ASSUME NEW k \in KeyIds, NEW j \in passed'[k]
               PROVE  /\ k \in Active' \ inFlight'
                      /\ j \in Active'
                      /\ Offset(Active, k)' < Offset(Active, j)'
    BY DEF PassedBehind
  <1>1. /\ Active' = Active /\ ~OutdatedPick /\ k \notin inFlight' /\ k \in Active
        /\ j \in passed[k] \union (inFlight' \ inFlight)
    BY DEF RRNext
  <1>2. CASE ~\E c \in Callers : Reserve(c)
    <2>1. nextIdx' = nextIdx /\ inFlight' \subseteq inFlight
      BY <1>2, OnlyReserveAdvances DEF RRNext, RRInv
    <2>2. j \in passed[k]
      BY <1>1, <2>1
    <2>3. Offset(Active, k)' = Offset(Active, k) /\ Offset(Active, j)' = Offset(Active, j)
      BY <1>1, <2>1 DEF Offset
    <2> QED
      BY <1>1, <2>2, <2>3 DEF RRInv, PassedBehind
  <1>3. ASSUME NEW c \in Callers, Reserve(c)
        PROVE  /\ k \in Active' \ inFlight'
               /\ j \in Active'
               /\ Offset(Active, k)' < Offset(Active, j)'
    <2>1. PICK m \in Active \ inFlight :
            /\ inFlight' = inFlight \union {m}
            /\ nextIdx' = (Place(Active, m) + 1) % Cardinality(Active)
            /\ \A i \in Active \ inFlight : Offset(Active, m) <= Offset(Active, i)
      BY <1>1, <1>3, ReserveAdvances DEF RRInv
    <2>2. k \in Active \ inFlight /\ k # m
      BY <1>1, <2>1
    <2>3. /\ Cardinality(Active) \in Nat
          /\ Offset(Active, m) \in 0..(Cardinality(Active) - 1)
          /\ Offset(Active, k) \in 0..(Cardinality(Active) - 1)
          /\ Offset(Active, m) < Offset(Active, k)
      BY <2>1, <2>2, OffsetRange, OffsetInjective DEF RRInv
    <2>4. /\ Offset(Active, k)' = Offset(Active, k) - Offset(Active, m) - 1
          /\ Offset(Active, m)' = Cardinality(Active) - 1
      BY <1>1, <2>1, <2>2, <2>3, OffsetsAfterReserve DEF RRInv
    <2>5. CASE j = m
      BY <1>1, <2>1, <2>2, <2>3, <2>4, <2>5
    <2>6. CASE j \in passed[k]
      <3>1. j \in Active /\ Offset(Active, k) < Offset(Active, j) /\ j # m
        BY <2>3, <2>6 DEF RRInv, PassedBehind
      <3>2. Offset(Active, j) \in 0..(Cardinality(Active) - 1)
        BY <3>1, OffsetRange DEF RRInv
      <3>3. Offset(Active, m) <= Offset(Active, j)
        BY <2>3, <3>1, <3>2
      <3>4. Offset(Active, j)' = Offset(Active, j) - Offset(Active, m) - 1
        BY <1>1, <2>1, <3>1, <3>3, OffsetsAfterReserve DEF RRInv
      <3> QED
        BY <1>1, <2>3, <2>4, <2>6, <3>1, <3>2, <3>4
    <2> QED
      BY <1>1, <2>1, <2>5, <2>6
  <1> QED
    BY <1>2, <1>3

LEMMA RRInvStep == RRInv /\ [RRNext]_rrVars => RRInv'
  <1> SUFFICES ASSUME RRInv, [RRNext]_rrVars
               PROVE  RRInv'
    OBVIOUS
  <1>1. KMInv'
    BY KMInvStep DEF RRInv, RRNext, rrVars
  <1>2. CASE RRNext
    BY <1>1, <1>2, PassedStep DEF RRInv, RRNext
  <1>3. CASE UNCHANGED rrVars
    BY <1>1, <1>3 DEF RRInv, PassedBehind, Offset, Active, rrVars, kmVars
  <1> QED
    BY <1>2, <1>3

\* The reservation that is made now goes to the nearest free key, so not to one
\* that lies behind another free key.
LEMMA NoneBehind ==
  ASSUME RRInv, [RRNext]_rrVars, NEW k \in Active \ inFlight, ~OutdatedPick
  PROVE  (inFlight' \ inFlight) \cap passed[k] = {}
  <1>1. CASE RRNext /\ ~\E c \in Callers : Reserve(c)
    BY <1>1, OnlyReserveAdvances DEF RRNext, RRInv
  <1>2. ASSUME NEW c \in Callers, Reserve(c)
        PROVE  (inFlight' \ inFlight) \cap passed[k] = {}
    <2>1. PICK m \in Active \ inFlight :
            /\ inFlight' = inFlight \union {m}
            /\ Offset(Active, m) <= Offset(Active, k)
      BY <1>2, ReserveAdvances DEF RRInv
    <2>2. ASSUME m \in passed[k]
          PROVE  FALSE
      <3>1. k \in KeyIds
        BY DEF Active
      <3>2. Offset(Active, k) < Offset(Active, m)
        BY <2>2, <3>1 DEF RRInv, PassedBehind
      <3> QED
        BY <2>1, <3>2, OffsetRange DEF RRInv
    <2> QED
      BY <2>1, <2>2
  <1>3. CASE UNCHANGED rrVars
    BY <1>3 DEF rrVars, kmVars
  <1> QED
    BY <1>1, <1>2, <1>3

\* The pointer goes round: while the pool stays as it is, no key is reserved
\* twice past another that is free all along, for any number of keys and
\* callers, whatever is in flight, recorded or fails meanwhile.
THEOREM PointerIsFair == RRSpec => NoBypass
  <1>1. RRInit => RRInv
    BY KMInitInv DEF RRInit, RRInv, PassedBehind
  <1>2. RRInv /\ [RRNext]_rrVars
          => [\A k \in Active \ inFlight :
                OutdatedPick \/ (inFlight' \ inFlight) \cap passed[k] = {}]_rrVars
    BY NoneBehind
  <1> QED
    BY <1>1, <1>2, RRInvStep, PTL DEF RRSpec, NoBypass
=============================================================================
