----------------------------- MODULE KeyManager -----------------------------
(***************************************************************************)
(* services/key_manager.py: reserving a key for one upstream call, the     *)
(* reactivation sweep and the recording of outcomes, with every other      *)
(* writer of the table.                                                    *)
(*                                                                         *)
(* The program runs on one event loop: what lies between two suspension    *)
(* points is one action here, and every database statement is a suspension *)
(* point.  A caller is one HTTP request with its own session; a prober is  *)
(* an admin probe, which reads a key without reserving it.                 *)
(***************************************************************************)
EXTENDS KeyTable, Sequences

CONSTANTS Callers,     \* requests that pick, use and release keys
          Probers,     \* admin probes under way at one time
          DbMayFail    \* TRUE: a statement may raise ("database is locked")

ASSUME CallersAssumption == Callers \cap Probers = {}
ASSUME DbMayFailAssumption == DbMayFail \in BOOLEAN

VARIABLES
  lockQueue,  \* asyncio.Lock: its waiters in arrival order, the holder first
  nextIdx,    \* _next_idx
  inFlight,   \* _in_flight
  phase,      \* where each caller stands in pick / use / record / release
  snap,       \* what a caller's last SELECT of the active keys returned
  held,       \* the ORM object a caller's `key` variable refers to
  probe       \* the ORM object a prober has loaded

kmVars == <<rows, lockQueue, nextIdx, inFlight, phase, snap, held, probe>>

Phases == {"idle", "load", "reactivate", "reload", "scan",
           "using", "refresh", "recorded"}

Copy    == [id : KeyIds, row : Row]
NoCopy  == [id |-> 0, row |-> NoRow]
NoSnap  == [k \in {} |-> NewRow]

Reserving == {"using", "refresh", "recorded"}
InLock    == {"load", "reactivate", "reload", "scan"}

\* The rows an earlier process may have left behind.
StartRows == {NoRow, NewRow, [status |-> "depleted", cooldown |-> "pending"],
              [status |-> "disabled", cooldown |-> "none"]}

KMInit ==
  /\ rows \in [KeyIds -> StartRows]
  /\ lockQueue = <<>>
  /\ nextIdx = 0
  /\ inFlight = {}
  /\ phase = [c \in Callers |-> "idle"]
  /\ snap = [c \in Callers |-> NoSnap]
  /\ held = [c \in Callers |-> NoCopy]
  /\ probe = [p \in Probers |-> NoCopy]

HoldsLock(c) == lockQueue # <<>> /\ Head(lockQueue) = c

(***************************************************************************)
(* pick_next_key                                                           *)
(***************************************************************************)

\* `async with self._lock`: at once when it is free, else in arrival order.
PickBegin(c) ==
  /\ phase[c] = "idle"
  /\ lockQueue' = Append(lockQueue, c)
  /\ phase' = [phase EXCEPT ![c] = "load"]
  /\ UNCHANGED <<rows, nextIdx, inFlight, snap, held, probe>>

\* An object keeps the attributes it was loaded with.  Of a cooldown_until all
\* that a later write compares is whether it was NULL.
Remember(row) ==
  [row EXCEPT !.cooldown = IF @ = "elapsed" THEN "pending" ELSE @]

ActiveRows == [k \in Active |-> Remember(rows[k])]

\* (Mutant of Load: the list is read before the lock is ours.)
LoadUnlocked(c) ==
  /\ phase[c] = "load"
  /\ snap' = [snap EXCEPT ![c] = ActiveRows]
  /\ phase' = [phase EXCEPT ![c] = IF Active = {} THEN "reactivate" ELSE "scan"]
  /\ UNCHANGED <<rows, lockQueue, nextIdx, inFlight, held, probe>>

\* _load_active, the first time: an empty pool sends the caller to the sweep.
Load(c) ==
  /\ phase[c] = "load" /\ HoldsLock(c)
  /\ snap' = [snap EXCEPT ![c] = ActiveRows]
  /\ phase' = [phase EXCEPT ![c] = IF Active = {} THEN "reactivate" ELSE "scan"]
  /\ UNCHANGED <<rows, lockQueue, nextIdx, inFlight, held, probe>>

\* _reactivate_locked: the UPDATE over the whole table and its commit.
Reactivate(c) ==
  /\ phase[c] = "reactivate"
  /\ rows' = [k \in KeyIds |-> Reactivated(rows[k])]
  /\ phase' = [phase EXCEPT ![c] = "reload"]
  /\ UNCHANGED <<lockQueue, nextIdx, inFlight, snap, held, probe>>

\* _load_active, after the sweep.
Reload(c) ==
  /\ phase[c] = "reload"
  /\ snap' = [snap EXCEPT ![c] = ActiveRows]
  /\ phase' = [phase EXCEPT ![c] = "scan"]
  /\ UNCHANGED <<rows, lockQueue, nextIdx, inFlight, held, probe>>

\* The place of key k in the list ordered by id, and its distance from the
\* pointer going round that list.
Place(pool, k)  == Cardinality({j \in pool : j < k})
OffsetFromStart(pool, k) == Place(pool, k)  \* (mutant of Offset: no rotation)
Offset(pool, k) == (Place(pool, k) - nextIdx) % Cardinality(pool)

\* (Mutant of IsFirstFree: the reservations are not looked at.)
IsFirst(pool, k) ==
  /\ k \in pool
  /\ \A j \in pool : Offset(pool, k) <= Offset(pool, j)

\* The key the scan stops at: the first one not in flight.
IsFirstFree(pool, k) ==
  /\ k \in pool \ inFlight
  /\ \A j \in pool \ inFlight : Offset(pool, k) <= Offset(pool, j)

\* The object for k in this session: the one already held if there is one (the
\* identity map keeps its attributes), else the one just loaded.
Loaded(c, k) == IF held[c].id = k THEN held[c] ELSE [id |-> k, row |-> snap[c][k]]

\* The scan and the reservation, one stretch without suspension, and the exit
\* from the lock.
Reserve(c) ==
  LET pool == DOMAIN snap[c] IN
  /\ phase[c] = "scan"
  /\ \E k \in pool :
       /\ IsFirstFree(pool, k)
       /\ inFlight' = inFlight \union {k}
       /\ nextIdx' = (Place(pool, k) + 1) % Cardinality(pool)
       /\ held' = [held EXCEPT ![c] = Loaded(c, k)]
  /\ lockQueue' = Tail(lockQueue)
  /\ snap' = [snap EXCEPT ![c] = NoSnap]
  /\ phase' = [phase EXCEPT ![c] = "using"]
  /\ UNCHANGED <<rows, probe>>

\* No active key, or all of them in flight: None, and the pointer stays.
PickNothing(c) ==
  /\ phase[c] = "scan"
  /\ DOMAIN snap[c] \subseteq inFlight
  /\ lockQueue' = Tail(lockQueue)
  /\ snap' = [snap EXCEPT ![c] = NoSnap]
  /\ held' = [held EXCEPT ![c] = NoCopy]
  /\ phase' = [phase EXCEPT ![c] = "idle"]
  /\ UNCHANGED <<rows, nextIdx, inFlight, probe>>

\* (Mutant of PickRaises: the lock is not given back.)
PickRaisesLocked(c) ==
  /\ DbMayFail
  /\ phase[c] \in InLock \ {"scan"} /\ HoldsLock(c)
  /\ snap' = [snap EXCEPT ![c] = NoSnap]
  /\ held' = [held EXCEPT ![c] = NoCopy]
  /\ phase' = [phase EXCEPT ![c] = "idle"]
  /\ UNCHANGED <<rows, lockQueue, nextIdx, inFlight, probe>>

\* A statement of pick_next_key raises: `async with` gives the lock back.
PickRaises(c) ==
  /\ DbMayFail
  /\ phase[c] \in InLock \ {"scan"} /\ HoldsLock(c)
  /\ lockQueue' = Tail(lockQueue)
  /\ snap' = [snap EXCEPT ![c] = NoSnap]
  /\ held' = [held EXCEPT ![c] = NoCopy]
  /\ phase' = [phase EXCEPT ![c] = "idle"]
  /\ UNCHANGED <<rows, nextIdx, inFlight, probe>>

(***************************************************************************)
(* record_*: the write through the held copy, then session.refresh.        *)
(***************************************************************************)

\* record_success, record_unauthorized, record_rate_limited and
\* record_server_error: _update_key writes and commits, then reads the row back.
Record(c, verdict) ==
  LET k == held[c].id IN
  /\ phase[c] = "using"
  /\ verdict # "usage"
  /\ rows[k] # NoRow
  /\ rows' = [rows EXCEPT ![k] = Recorded(verdict, @, held[c].row)]
  /\ phase' = [phase EXCEPT ![c] = "refresh"]
  /\ UNCHANGED <<lockQueue, nextIdx, inFlight, snap, held, probe>>

Refresh(c) ==
  LET k == held[c].id IN
  /\ phase[c] = "refresh"
  /\ rows[k] # NoRow
  /\ held' = [held EXCEPT ![c].row = Remember(rows[k])]
  /\ phase' = [phase EXCEPT ![c] = "recorded"]
  /\ UNCHANGED <<rows, lockQueue, nextIdx, inFlight, snap, probe>>

\* (Mutant of RecordUsage: the row is written back if it is gone.)
RecordUsageMerges(c) ==
  LET k == held[c].id IN
  /\ phase[c] = "using"
  /\ rows' = [rows EXCEPT ![k] = SuccessWithUsage(@, held[c].row)]
  /\ phase' = [phase EXCEPT ![c] = "recorded"]
  /\ UNCHANGED <<lockQueue, nextIdx, inFlight, snap, held, probe>>

\* record_success_with_usage: one explicit UPDATE, no refresh.  On a deleted
\* row it changes nothing, unless token columns have to be flushed (then it
\* raises: RecordRaises).
RecordUsage(c) ==
  LET k == held[c].id IN
  /\ phase[c] = "using"
  /\ rows' = IF rows[k] = NoRow THEN rows
             ELSE [rows EXCEPT ![k] = Recorded("usage", @, held[c].row)]
  /\ phase' = [phase EXCEPT ![c] = "recorded"]
  /\ UNCHANGED <<lockQueue, nextIdx, inFlight, snap, held, probe>>

\* (Mutant of NoRecord: this path gives the key back on its own.)
NoRecordReleases(c) ==
  /\ phase[c] = "using"
  /\ inFlight' = inFlight \ {held[c].id}
  /\ phase' = [phase EXCEPT ![c] = "recorded"]
  /\ UNCHANGED <<rows, lockQueue, nextIdx, snap, held, probe>>

\* The call ends without a record (404, another 4xx, an undecryptable key).
NoRecord(c) ==
  /\ phase[c] = "using"
  /\ phase' = [phase EXCEPT ![c] = "recorded"]
  /\ UNCHANGED <<rows, lockQueue, nextIdx, inFlight, snap, held, probe>>

\* (Mutant of RecordRaises: the request goes on without an object.)
RecordRaisesQuietly(c) ==
  /\ phase[c] \in {"using", "refresh"}
  /\ DbMayFail \/ rows[held[c].id] = NoRow
  /\ held' = [held EXCEPT ![c] = NoCopy]
  /\ phase' = [phase EXCEPT ![c] = "recorded"]
  /\ UNCHANGED <<rows, lockQueue, nextIdx, inFlight, snap, probe>>

\* The flush or the refresh raises: the row is gone, or the database refuses.
\* SQLAlchemy then expires every object of the session, so reading `key.id`
\* in the caller's `finally` raises too (an attribute of an expired object is
\* loaded from the database, which an async session cannot do implicitly) and
\* release is never reached.
RecordRaises(c) ==
  /\ phase[c] \in {"using", "refresh"}
  /\ DbMayFail \/ rows[held[c].id] = NoRow
  /\ held' = [held EXCEPT ![c] = NoCopy]
  /\ phase' = [phase EXCEPT ![c] = "idle"]
  /\ UNCHANGED <<rows, lockQueue, nextIdx, inFlight, snap, probe>>

\* An error that leaves the objects of the session alone (a statement outside
\* a flush, the COMMIT itself): `finally` gives the key back.
RecordFails(c) ==
  /\ DbMayFail
  /\ phase[c] = "using"
  /\ inFlight' = inFlight \ {held[c].id}
  /\ held' = [held EXCEPT ![c] = NoCopy]
  /\ phase' = [phase EXCEPT ![c] = "idle"]
  /\ UNCHANGED <<rows, lockQueue, nextIdx, snap, probe>>

(***************************************************************************)
(* release, and the end of the request's session                           *)
(***************************************************************************)

\* (Mutant of Release: nothing is given back.)
ReleaseNothing(c) ==
  /\ phase[c] = "recorded"
  /\ phase' = [phase EXCEPT ![c] = "idle"]
  /\ UNCHANGED <<rows, lockQueue, nextIdx, inFlight, snap, held, probe>>

Release(c) ==
  /\ phase[c] = "recorded"
  /\ inFlight' = inFlight \ {held[c].id}
  /\ phase' = [phase EXCEPT ![c] = "idle"]
  /\ UNCHANGED <<rows, lockQueue, nextIdx, snap, held, probe>>

\* The session is closed and its objects with it.
CloseSession(c) ==
  /\ phase[c] = "idle"
  /\ held' = [held EXCEPT ![c] = NoCopy]
  /\ UNCHANGED <<rows, lockQueue, nextIdx, inFlight, phase, snap, probe>>

(***************************************************************************)
(* Probes: a key is read, called upstream and classified, unreserved.      *)
(***************************************************************************)

ProbeBegin(p, k) ==
  /\ probe[p] = NoCopy
  /\ rows[k] # NoRow
  /\ probe' = [probe EXCEPT ![p] = [id |-> k, row |-> Remember(rows[k])]]
  /\ UNCHANGED <<rows, lockQueue, nextIdx, inFlight, phase, snap, held>>

\* ProbeClassifier.classify; a row deleted meanwhile makes the write raise.
ProbeEnd(p, verdict) ==
  LET k == probe[p].id IN
  /\ probe[p] # NoCopy
  /\ verdict # "usage"
  /\ rows' = IF rows[k] = NoRow THEN rows
             ELSE [rows EXCEPT ![k] = Recorded(verdict, @, probe[p].row)]
  /\ probe' = [probe EXCEPT ![p] = NoCopy]
  /\ UNCHANGED <<lockQueue, nextIdx, inFlight, phase, snap, held>>

(***************************************************************************)
(* The specification, with callers that pick, record and release freely.   *)
(***************************************************************************)

PickStep(c) == \/ Load(c) \/ Reactivate(c) \/ Reload(c)
               \/ Reserve(c) \/ PickNothing(c) \/ PickRaises(c)

RecordStep(c) == \/ \E verdict \in Verdicts : Record(c, verdict)
                 \/ Refresh(c) \/ RecordUsage(c) \/ NoRecord(c)
                 \/ RecordRaises(c) \/ RecordFails(c)

ProbeStep(p) == \/ \E k \in KeyIds : ProbeBegin(p, k)
                \/ \E verdict \in Verdicts : ProbeEnd(p, verdict)

\* Other writers of the table: the administrator and the clock.
Environment ==
  /\ Admin \/ \E k \in KeyIds : CooldownElapses(k)
  /\ UNCHANGED <<lockQueue, nextIdx, inFlight, phase, snap, held, probe>>

KMNext ==
  \/ \E c \in Callers : PickBegin(c) \/ PickStep(c) \/ RecordStep(c)
                        \/ Release(c) \/ CloseSession(c)
  \/ \E p \in Probers : ProbeStep(p)
  \/ Environment

KMSpec == KMInit /\ [][KMNext]_kmVars

(***************************************************************************)
(* Properties                                                              *)
(***************************************************************************)

\* Types of every variable; a caller that uses a key refers to an object.
KMTypeOK ==
  /\ rows \in [KeyIds -> Row \union {NoRow}]
  /\ lockQueue \in Seq(Callers)
  /\ nextIdx \in 0..MaxId
  /\ inFlight \subseteq KeyIds
  /\ phase \in [Callers -> Phases]
  /\ DOMAIN snap = Callers
  /\ \A c \in Callers : /\ DOMAIN snap[c] \subseteq KeyIds
                        /\ \A k \in DOMAIN snap[c] : snap[c][k] \in Row
  /\ held \in [Callers -> Copy \union {NoCopy}]
  /\ \A c \in Callers : phase[c] \in Reserving => held[c] # NoCopy
  /\ probe \in [Probers -> Copy \union {NoCopy}]

\* A caller past the first load of pick_next_key holds the lock, so the whole
\* path from the SELECT to the reservation belongs to one caller at a time.
PickSerialized ==
  \A c \in Callers : phase[c] \in InLock \ {"load"} => HoldsLock(c)

\* The lock is held and waited for inside pick_next_key only, by each request
\* once: none leaves with a key, with nothing or with an exception and keeps its
\* place, so whoever has the lock is about to give it back.
LockIsUsed ==
  /\ \A c \in Callers : phase[c] \in InLock <=> \E i \in DOMAIN lockQueue : lockQueue[i] = c
  /\ \A i, j \in DOMAIN lockQueue : i # j => lockQueue[i] # lockQueue[j]

\* What a caller reserved stays reserved until it lets go of it.
HeldIsReserved ==
  \A c \in Callers : phase[c] \in Reserving => held[c].id \in inFlight

\* Anti-stacking: two calls under way never use the same key id.
AntiStacking ==
  \A c, d \in Callers :
    /\ c # d
    /\ phase[c] \in Reserving /\ phase[d] \in Reserving
    => held[c].id # held[d].id

\* The inductive invariant of the reservations.
KMInv == KMTypeOK /\ PickSerialized /\ HeldIsReserved /\ AntiStacking

\* No reservation outlives the call it was made for.
NoLeak ==
  \A k \in inFlight :
    \E c \in Callers : phase[c] \in Reserving /\ held[c].id = k

\* For one request at a time, and no probe or PATCH beside it: a depleted key
\* carries the cooldown that will bring it back.  Copies from an earlier attempt
\* and columns left out of an UPDATE never leave it depleted with
\* cooldown_until NULL, where the sweep does not look.
DepletedComesBack ==
  \A k \in KeyIds : rows[k].status = "depleted" => rows[k].cooldown # "none"

\* Out of service a key stays, unless the administrator says otherwise, until
\* its cooldown has expired or a call that was under way with it succeeds: a
\* disabled key is never swept back, and no cooldown is cut short.
BackInService ==
  [][\A k \in KeyIds :
       /\ rows[k].status \in {"depleted", "disabled"}
       /\ rows'[k].status = "active"
       => \/ rows[k] = [status |-> "depleted", cooldown |-> "elapsed"]
          \/ \E c \in Callers :
               phase[c] = "using" /\ phase'[c] # "using" /\ held[c].id = k
          \/ \E p \in Probers : probe[p].id = k /\ probe'[p] = NoCopy]_kmVars

\* A row that is gone comes back by creation only: no outcome of a call or of
\* a probe that was under way when the key was deleted brings it back.
DeletedStays ==
  [][\A k \in KeyIds :
       rows[k] = NoRow /\ rows'[k] # NoRow
         => rows'[k] = NewRow /\ phase' = phase /\ probe' = probe]_kmVars

\* The key a caller holds, and the ids reserved by nobody.
Lease == [c \in Callers |-> IF phase[c] \in Reserving THEN held[c].id ELSE 0]
Lost  == inFlight \ {Lease[c] : c \in Callers}

Leases == INSTANCE KeyLease
            WITH Clients <- Callers, Keys <- KeyIds, NoKey <- 0,
                 lease <- Lease, lost <- Lost

\* The manager implements exclusive leases: stale lists, a shrinking pool and
\* failing statements never hand out a key that is held or lost.
ImplementsLeases == Leases!LeaseSpec
=============================================================================
