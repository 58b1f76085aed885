---------------------------- MODULE UsageRefresh ----------------------------
(***************************************************************************)
(* services/usage_service.py and its background loop in main.py: what each *)
(* key has used upstream, cached per key id, and written to the key's row  *)
(* by refreshes.                                                           *)
(*                                                                         *)
(* A job is one call of fetch_snapshot on one key, or of                   *)
(* refresh_all_active on all of them, with its own database session.  What *)
(* upstream says is numbered in the order it says it; it may say it        *)
(* without the fractions, which a row then keeps.  Ids are used again      *)
(* after a deletion.                                                       *)
(***************************************************************************)
EXTENDS Integers, Sequences

CONSTANTS MaxId,        \* bound on the number of ids
          Refreshers,   \* jobs on all active keys: the loop, requests to refresh all
          Visitors,     \* requests about one key
          Visited,      \* bound on the ids those ask about
          MaxUsage,     \* bound on what upstream has to say
          Whole         \* what of it comes with the fractions

ASSUME MaxIdAssumption == MaxId \in Nat \ {0}
ASSUME VisitedAssumption == Visited \subseteq Nat
ASSUME JobsAssumption == Refreshers \cap Visitors = {}
ASSUME MaxUsageAssumption == MaxUsage \in Nat
ASSUME WholeAssumption == Whole \subseteq Nat

VARIABLES
  rows,     \* the usage columns of each row
  usage,    \* what upstream says at the moment
  cache,    \* _cache: id -> the last snapshot fetched, 0 before the first
  fresh,    \* the ids whose snapshot is within its time to live
  queue,    \* _locks: id -> the jobs at its lock, the holder first
  force,    \* each job: TRUE for a refresh
  copy,     \* each job: the usage columns of the ORM objects it has loaded
  task,     \* each job: where its fetch_snapshot of each key stands
  got       \* each job: the snapshot each of them returned

vars == <<rows, usage, cache, fresh, queue, force, copy, task, got>>
jobVars == <<force, copy, task, got>>

KeyIds == 1..MaxId
Jobs   == Refreshers \union Visitors
Usages == 0..MaxUsage
Tasks  == {"queued", "calling", "done"}

\* The usage and the fraction columns: the answer of upstream that each is from. They
\* are NULL at first, which is taken for what upstream says before any use.
Row    == [used : Usages, fraction : Usages]
NewRow == [used |-> 0, fraction |-> 0]
NoRow  == [used |-> -1, fraction |-> -1]

\* None for a fraction. Written to a row it would be NULL again; it is no number here,
\* to see whether it gets there.
NoFraction == -1

Snap   == [ok : BOOLEAN, used : Usages, fraction : Usages \union {NoFraction}]
NoSnap == [ok |-> FALSE, used |-> 0, fraction |-> NoFraction]
Nothing == [k \in {} |-> NoSnap]

Init ==
  /\ rows = [k \in KeyIds |-> NoRow]
  /\ usage = 0
  /\ cache = [k \in KeyIds |-> 0]
  /\ fresh = {}
  /\ queue = [k \in KeyIds |-> <<>>]
  /\ force = [j \in Jobs |-> FALSE]
  /\ copy = [j \in Jobs |-> Nothing]
  /\ task = [j \in Jobs |-> Nothing]
  /\ got = [j \in Jobs |-> Nothing]

Idle(j) == DOMAIN task[j] = {}

\* (Mutant of HoldsLock: everybody at the lock may go on.)
IsQueued(j, k) == \E i \in DOMAIN queue[k] : queue[k][i] = j

HoldsLock(j, k) == queue[k] # <<>> /\ Head(queue[k]) = j

(***************************************************************************)
(* Loading                                                                 *)
(***************************************************************************)

\* The objects are loaded, and the fetches of all the keys run on to their locks
\* one right after the other.
Begin(j, keys, refresh) ==
  /\ Idle(j) /\ keys # {}
  /\ force' = [force EXCEPT ![j] = refresh]
  /\ copy' = [copy EXCEPT ![j] = [k \in keys |-> rows[k]]]
  /\ task' = [task EXCEPT ![j] = [k \in keys |-> "queued"]]
  /\ got' = [got EXCEPT ![j] = [k \in keys |-> NoSnap]]
  /\ queue' = [k \in KeyIds |-> IF k \in keys THEN Append(queue[k], j) ELSE queue[k]]
  /\ UNCHANGED <<rows, usage, cache, fresh>>

Stored == {k \in KeyIds : rows[k] # NoRow}

\* refresh_all_active, by the loop or on demand: the active keys of the moment,
\* any of those stored.  With none it returns.
RefreshAll(j, keys) == keys \subseteq Stored /\ Begin(j, keys, TRUE)
RefreshNone(j) == Idle(j) /\ UNCHANGED vars

\* GET .../usage, which a fresh snapshot answers without a step of its own, and
\* POST .../usage/refresh.
Ask(j, k) == k \in Stored \ fresh /\ Begin(j, {k}, FALSE)
RefreshOne(j, k) == k \in Stored /\ Begin(j, {k}, TRUE)

(***************************************************************************)
(* fetch_snapshot, from the lock on                                        *)
(***************************************************************************)

EndJob(j) ==
  /\ force' = [force EXCEPT ![j] = FALSE]
  /\ copy' = [copy EXCEPT ![j] = Nothing]
  /\ task' = [task EXCEPT ![j] = Nothing]
  /\ got' = [got EXCEPT ![j] = Nothing]

\* A question is answered with the snapshot there and then; a refresh keeps it.
Return(j, k, snap) ==
  IF force[j]
  THEN /\ task' = [task EXCEPT ![j][k] = "done"]
       /\ got' = [got EXCEPT ![j][k] = snap]
       /\ UNCHANGED <<force, copy>>
  ELSE EndJob(j)

Leave(k) == queue' = [queue EXCEPT ![k] = Tail(@)]

\* Somebody else's fetch has refreshed the cache meanwhile.
CachedInLock(j, k) ==
  /\ task[j][k] = "queued" /\ HoldsLock(j, k) /\ ~force[j] /\ k \in fresh
  /\ Return(j, k, [NoSnap EXCEPT !.ok = TRUE, !.used = cache[k]])
  /\ Leave(k)
  /\ UNCHANGED <<rows, usage, cache, fresh>>

\* _fetch_locked: upstream answers for the account of the key as it was loaded.
Call(j, k) ==
  /\ task[j][k] = "queued" /\ HoldsLock(j, k) /\ (force[j] \/ k \notin fresh)
  /\ task' = [task EXCEPT ![j][k] = "calling"]
  /\ got' = [got EXCEPT ![j][k] =
               [@ EXCEPT !.used = usage, !.fraction = IF usage \in Whole THEN usage ELSE NoFraction]]
  /\ UNCHANGED <<rows, usage, cache, fresh, queue, force, copy>>

\* The answer arrives.
Put(j, k) ==
  LET snap == [got[j][k] EXCEPT !.ok = TRUE] IN
  /\ task[j][k] = "calling"
  /\ cache' = [cache EXCEPT ![k] = snap.used]
  /\ fresh' = fresh \union {k}
  /\ Return(j, k, snap)
  /\ Leave(k)
  /\ UNCHANGED <<rows, usage>>

\* (Mutant of CallFails: the lock is kept.)
CallFailsLocked(j, k) ==
  /\ task[j][k] = "calling"
  /\ Return(j, k, NoSnap)
  /\ UNCHANGED <<rows, usage, cache, fresh, queue>>

\* No answer, a key that upstream rejects or that does not decrypt: what comes
\* back then, if only the cached snapshot, is not a success.
CallFails(j, k) ==
  /\ task[j][k] = "calling"
  /\ Return(j, k, NoSnap)
  /\ Leave(k)
  /\ UNCHANGED <<rows, usage, cache, fresh>>

(***************************************************************************)
(* persist and the end of the job                                          *)
(***************************************************************************)

AllDone(j) == ~Idle(j) /\ \A k \in DOMAIN task[j] : task[j][k] = "done"
Fetched(j) == {k \in DOMAIN got[j] : got[j][k].ok}

\* Columns whose value is the one the object was loaded with are left out of the
\* UPDATE.
Flush(stored, loaded, assigned) == IF assigned = loaded THEN stored ELSE assigned

\* (Mutant of Persist: a missing fraction is written like any other.)
PersistWhole(stored, loaded, snap) ==
  [used     |-> Flush(stored.used, loaded.used, snap.used),
   fraction |-> Flush(stored.fraction, loaded.fraction, snap.fraction)]

\* _persist: the fraction is assigned only if upstream sent one.
Persist(stored, loaded, snap) ==
  [used     |-> Flush(stored.used, loaded.used, snap.used),
   fraction |-> IF snap.fraction = NoFraction THEN stored.fraction
                ELSE Flush(stored.fraction, loaded.fraction, snap.fraction)]

\* One commit for all the snapshots of the job.
Commit(j) ==
  /\ AllDone(j)
  /\ Fetched(j) \subseteq Stored
  /\ rows' = [k \in KeyIds |-> IF k \in Fetched(j)
                               THEN Persist(rows[k], copy[j][k], got[j][k]) ELSE rows[k]]
  /\ EndJob(j)
  /\ UNCHANGED <<usage, cache, fresh, queue>>

\* (Mutant of CommitRaises: the exception ends the loop.)
CommitRaisesForGood(j) ==
  /\ AllDone(j)
  /\ ~(Fetched(j) \subseteq Stored)
  /\ force' = [force EXCEPT ![j] = FALSE]
  /\ task' = [task EXCEPT ![j] = [k \in DOMAIN @ |-> "queued"]]
  /\ UNCHANGED <<rows, usage, cache, fresh, queue, copy, got>>

\* A row that is gone makes the flush raise, and nothing of the job is written.
\* The loop logs it and sleeps until its next cycle.
CommitRaises(j) ==
  /\ AllDone(j)
  /\ ~(Fetched(j) \subseteq Stored)
  /\ EndJob(j)
  /\ UNCHANGED <<rows, usage, cache, fresh, queue>>

(***************************************************************************)
(* The administrator, upstream and the clock                               *)
(***************************************************************************)

\* The id after the largest stored.
Create(k) ==
  /\ \A i \in KeyIds : i >= k => rows[i] = NoRow
  /\ k > 1 => rows[k - 1] # NoRow
  /\ rows' = [rows EXCEPT ![k] = NewRow]
  /\ UNCHANGED <<usage, cache, fresh, queue, jobVars>>

\* The cache entry stays (_cache_drop has no caller).
Delete(k) ==
  /\ rows[k] # NoRow
  /\ rows' = [rows EXCEPT ![k] = NoRow]
  /\ UNCHANGED <<usage, cache, fresh, queue, jobVars>>

Use ==
  /\ usage < MaxUsage
  /\ usage' = usage + 1
  /\ UNCHANGED <<rows, cache, fresh, queue, jobVars>>

Expire(k) ==
  /\ k \in fresh
  /\ fresh' = fresh \ {k}
  /\ UNCHANGED <<rows, usage, cache, queue, jobVars>>

(***************************************************************************)
(* The specification                                                       *)
(***************************************************************************)

Fetch(j, k) == /\ k \in DOMAIN task[j]
               /\ CachedInLock(j, k) \/ Call(j, k) \/ Put(j, k) \/ CallFails(j, k)

JobStep(j) == \/ \E k \in KeyIds : Fetch(j, k)
              \/ Commit(j) \/ CommitRaises(j)

Next ==
  \/ \E j \in Refreshers : RefreshNone(j) \/ \E keys \in SUBSET KeyIds : RefreshAll(j, keys)
  \/ \E j \in Visitors, k \in KeyIds \cap Visited : Ask(j, k) \/ RefreshOne(j, k)
  \/ \E j \in Jobs : JobStep(j)
  \/ \E k \in KeyIds : Create(k) \/ Delete(k) \/ Expire(k)
  \/ Use

Spec == Init /\ [][Next]_vars

\* Calls time out, statements end, and the loop wakes up from every sleep.  Of
\* the environment: a key does not stay inactive, and upstream does not fail for
\* it, at each cycle for ever.
Cycle(j, k) == \E keys \in SUBSET KeyIds : k \in keys /\ RefreshAll(j, keys)
Success(j, k) == k \in DOMAIN task[j] /\ Put(j, k)

Fairness ==
  /\ \A j \in Jobs : WF_vars(JobStep(j))
  /\ \A j \in Refreshers, k \in KeyIds : SF_vars(Cycle(j, k)) /\ SF_vars(Success(j, k))

FairSpec == Spec /\ Fairness

(***************************************************************************)
(* Properties                                                              *)
(***************************************************************************)

\* With it, "the previously persisted fraction must NOT be overwritten" by an answer
\* without one.
TypeOK ==
  /\ rows \in [KeyIds -> Row \union {NoRow}] /\ usage \in Usages
  /\ cache \in [KeyIds -> Usages] /\ fresh \subseteq KeyIds
  /\ queue \in [KeyIds -> Seq(Jobs)]
  /\ force \in [Jobs -> BOOLEAN]
  /\ \A j \in Jobs :
       /\ DOMAIN copy[j] \subseteq KeyIds
       /\ DOMAIN task[j] = DOMAIN copy[j] /\ DOMAIN got[j] = DOMAIN copy[j]
       /\ \A k \in DOMAIN copy[j] :
            copy[j][k] \in Row /\ task[j][k] \in Tasks /\ got[j][k] \in Snap

\* The cache never goes back: a slow answer does not replace a later one, as the
\* calls for one key run one after the other.
CacheNeverOlder == [][\A k \in KeyIds : cache'[k] >= cache[k]]_vars

\* Once keys are neither created nor deleted, every row ends up with what
\* upstream says, and its fraction too if upstream says it with one: whatever
\* cycles failed as a whole for some deleted key, however refreshes with older
\* copies and older answers overlapped, and whichever key had the id before.
CatchesUp ==
  <>[][Stored' = Stored]_vars =>
    <>[](\A k \in Stored : rows[k].used = usage /\ (usage \in Whole => rows[k].fraction = usage))

\* Every question and every refresh is answered.
Answered == \A j \in Jobs : ~Idle(j) ~> Idle(j)
=============================================================================
