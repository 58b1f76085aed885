------------------------- MODULE UsageRefresh_proofs -------------------------
(***************************************************************************)
(* The usage service for any number of keys, refreshes, requests and       *)
(* answers of upstream.                                                    *)
(***************************************************************************)
EXTENDS UsageRefresh, SequenceTheorems, TLAPS

\* The part of TypeOK about the jobs, with what the type leaves open: that their
\* variables are functions on the jobs.
JobsOK ==
  /\ force \in [Jobs -> BOOLEAN]
  /\ DOMAIN copy = Jobs /\ DOMAIN task = Jobs /\ DOMAIN got = Jobs
  /\ \A j \in Jobs :
       /\ DOMAIN copy[j] \subseteq KeyIds
       /\ DOMAIN task[j] = DOMAIN copy[j] /\ DOMAIN got[j] = DOMAIN copy[j]
       /\ \A k \in DOMAIN copy[j] :
            copy[j][k] \in Row /\ task[j][k] \in Tasks /\ got[j][k] \in Snap

\* The calls for one key run one after the other, and what one of them brings is
\* no older than what the ones before it have left in the cache.
CallsInOrder ==
  \A j \in Jobs : \A k \in DOMAIN task[j] :
    task[j][k] = "calling" =>
      HoldsLock(j, k) /\ cache[k] <= got[j][k].used /\ got[j][k].used <= usage

\* Nobody knows more than upstream has said.
CacheKnown == \A k \in KeyIds : cache[k] <= usage

UsageInv == TypeOK /\ JobsOK /\ CallsInOrder /\ CacheKnown

\* Joining the queue never displaces its holder; leaving it leaves a queue.
LEMMA LockQueueFacts ==
  ASSUME NEW q \in Seq(Jobs), NEW j \in Jobs
  PROVE  /\ Append(q, j) \in Seq(Jobs) /\ Append(q, j) # <<>>
         /\ q # <<>> => Head(Append(q, j)) = Head(q) /\ Tail(q) \in Seq(Jobs)
  <1>1. Append(q, j) \in Seq(Jobs) /\ Append(q, j) # <<>>
    BY AppendProperties
  <1>2. ASSUME q # <<>>
        PROVE  Head(Append(q, j)) = Head(q)
    BY <1>2
  <1>3. ASSUME q # <<>>
        PROVE  Tail(q) \in Seq(Jobs)
    BY <1>3
  <1> QED
    BY <1>1, <1>2, <1>3

\* The end of a job leaves the others as they are, and has no call under way.
LEMMA EndJobType ==
  ASSUME JobsOK, NEW j \in Jobs, EndJob(j)
  PROVE  /\ JobsOK' /\ DOMAIN task'[j] = {}
         /\ \A i \in Jobs \ {j} : task'[i] = task[i] /\ got'[i] = got[i]
  BY DEF JobsOK, EndJob, Nothing

\* What a fetch returns ends the job, or its part for that key.
LEMMA ReturnType ==
  ASSUME JobsOK, NEW j \in Jobs, NEW k \in DOMAIN task[j], NEW snap \in Snap,
         Return(j, k, snap)
  PROVE  /\ JobsOK'
         /\ \A i \in Jobs : \A l \in DOMAIN task'[i] :
              task'[i][l] = "calling" =>
                /\ l \in DOMAIN task[i] /\ task[i][l] = "calling"
                /\ got'[i][l] = got[i][l] /\ (i # j \/ l # k)
  <1>1. CASE force[j]
    BY <1>1 DEF JobsOK, Return, Tasks
  <1>2. CASE ~force[j]
    BY <1>2, EndJobType DEF Return
  <1> QED
    BY <1>1, <1>2

\* A fetch that has returned hands the lock to the next one: no other call for
\* that key was under way.
LEMMA ReturnStep ==
  ASSUME UsageInv, NEW j \in Jobs, NEW k \in DOMAIN task[j], NEW snap \in Snap,
         HoldsLock(j, k), Return(j, k, snap), Leave(k), UNCHANGED <<rows, usage>>,
         \/ UNCHANGED <<cache, fresh>>
         \/ /\ cache' = [cache EXCEPT ![k] = snap.used] /\ snap.used <= usage
            /\ fresh' = fresh \union {k}
  PROVE  UsageInv'
  <1> USE DEF UsageInv, TypeOK
  <1>0. k \in KeyIds /\ snap.used \in Usages
    BY DEF JobsOK, Snap
  <1>1. JobsOK'
    BY ReturnType
  <1>2. queue' \in [KeyIds -> Seq(Jobs)] /\ \A l \in KeyIds \ {k} : queue'[l] = queue[l]
    BY <1>0, LockQueueFacts DEF Leave, HoldsLock
  <1>3. TypeOK'
    BY <1>0, <1>1, <1>2 DEF JobsOK
  <1>4. CallsInOrder'
    <2> SUFFICES ASSUME NEW i \in Jobs, NEW l \in DOMAIN task'[i], task'[i][l] = "calling"
                 PROVE  /\ HoldsLock(i, l)'
                        /\ cache'[l] <= got'[i][l].used /\ got'[i][l].used <= usage'
      BY DEF CallsInOrder
    <2>1. /\ l \in DOMAIN task[i] /\ task[i][l] = "calling"
          /\ got'[i][l] = got[i][l] /\ (i # j \/ l # k)
      BY ReturnType
    <2>2. HoldsLock(i, l) /\ cache[l] <= got[i][l].used /\ got[i][l].used <= usage
      BY <2>1 DEF CallsInOrder
    <2>3. l # k /\ l \in KeyIds
      BY <2>1, <2>2 DEF HoldsLock, JobsOK
    <2> QED
      BY <1>0, <1>2, <2>1, <2>2, <2>3 DEF HoldsLock
  <1>5. CacheKnown'
    BY <1>0 DEF CacheKnown
  <1> QED
    BY <1>1, <1>3, <1>4, <1>5

\* The steps of a fetch.
LEMMA FetchStep ==
  ASSUME UsageInv, NEW j \in Jobs, NEW k \in KeyIds, Fetch(j, k)
  PROVE  UsageInv'
  <1> USE DEF UsageInv, TypeOK
  <1>0. k \in DOMAIN task[j] /\ k \in DOMAIN got[j] /\ got[j][k] \in Snap
    BY DEF Fetch, JobsOK
  <1>1. CASE CachedInLock(j, k)
    <2>1. [NoSnap EXCEPT !.ok = TRUE, !.used = cache[k]] \in Snap
      BY DEF Snap, NoSnap
    <2> QED
      BY <1>0, <1>1, <2>1, ReturnStep DEF CachedInLock
  <1>2. CASE Call(j, k)
    <2> DEFINE asked == [got[j][k] EXCEPT !.used = usage,
                                           !.fraction = IF usage \in Whole THEN usage ELSE NoFraction]
    <2>0. asked \in Snap /\ asked.used = usage
      BY <1>0 DEF Snap
    <2> HIDE DEF asked
    <2>3. got' = [got EXCEPT ![j][k] = asked]
      BY <1>2 DEF Call, asked
    <2>1. JobsOK'
      BY <1>0, <1>2, <2>0, <2>3 DEF Call, JobsOK, Tasks
    <2>2. CallsInOrder'
      BY <1>0, <1>2, <2>0, <2>3 DEF Call, JobsOK, CallsInOrder, CacheKnown, HoldsLock, Usages
    <2> QED
      BY <1>2, <2>1, <2>2 DEF Call, JobsOK, CacheKnown
  <1>3. CASE Put(j, k)
    <2> DEFINE snap == [got[j][k] EXCEPT !.ok = TRUE]
    <2>1. snap \in Snap /\ snap.used = got[j][k].used
      BY <1>0 DEF Snap
    <2>2. HoldsLock(j, k) /\ snap.used <= usage
      BY <1>0, <1>3, <2>1 DEF Put, CallsInOrder
    <2> HIDE DEF snap
    <2>3. /\ Return(j, k, snap) /\ Leave(k) /\ UNCHANGED <<rows, usage>>
          /\ cache' = [cache EXCEPT ![k] = snap.used] /\ fresh' = fresh \union {k}
      BY <1>3 DEF Put, snap
    <2> QED
      BY <1>0, <2>1, <2>2, <2>3, ReturnStep
  <1>4. CASE CallFails(j, k)
    <2>1. NoSnap \in Snap
      BY MaxUsageAssumption DEF NoSnap, Snap, Usages
    <2>2. HoldsLock(j, k)
      BY <1>0, <1>4 DEF CallFails, CallsInOrder
    <2> QED
      BY <1>0, <1>4, <2>1, <2>2, ReturnStep DEF CallFails
  <1> QED
    BY <1>1, <1>2, <1>3, <1>4 DEF Fetch

\* A job begins with all its tasks at their locks, behind whoever is there.
LEMMA BeginStep ==
  ASSUME UsageInv, NEW j \in Jobs, NEW keys \in SUBSET KeyIds, NEW refresh \in BOOLEAN,
         keys \subseteq Stored, Begin(j, keys, refresh)
  PROVE  UsageInv'
  <1> USE DEF UsageInv, TypeOK
  <1>1. /\ queue' \in [KeyIds -> Seq(Jobs)]
        /\ \A k \in KeyIds : queue[k] # <<>> =>
             queue'[k] # <<>> /\ Head(queue'[k]) = Head(queue[k])
    BY LockQueueFacts DEF Begin
  <1>2. JobsOK'
    <2>1. \A k \in keys : rows[k] \in Row
      BY DEF Stored
    <2>2. NoSnap \in Snap
      BY MaxUsageAssumption DEF NoSnap, Snap, Usages
    <2> QED
      BY <2>1, <2>2 DEF Begin, JobsOK, Tasks
  <1>3. CallsInOrder'
    <2>1. \A i \in Jobs \ {j} : task'[i] = task[i] /\ got'[i] = got[i]
      BY DEF Begin, JobsOK
    <2>2. \A k \in DOMAIN task'[j] : task'[j][k] = "queued"
      BY DEF Begin, JobsOK
    <2>3. cache' = cache /\ usage' = usage
      BY DEF Begin
    <2> QED
      BY <1>1, <2>1, <2>2, <2>3 DEF CallsInOrder, HoldsLock, JobsOK
  <1>4. TypeOK' /\ CacheKnown'
    BY <1>1, <1>2 DEF Begin, JobsOK, CacheKnown
  <1> QED
    BY <1>2, <1>3, <1>4

\* A job writes what it fetched and ends.
LEMMA EndStep ==
  ASSUME UsageInv, NEW j \in Jobs, Commit(j) \/ CommitRaises(j)
  PROVE  UsageInv'
  <1> USE DEF UsageInv, TypeOK
  <1>1. EndJob(j) /\ UNCHANGED <<usage, cache, fresh, queue>>
    BY DEF Commit, CommitRaises
  <1>2. JobsOK'
    BY <1>1, EndJobType
  <1>3. CallsInOrder' /\ CacheKnown'
    BY <1>1, EndJobType DEF CallsInOrder, HoldsLock, CacheKnown
  <1>4. rows' \in [KeyIds -> Row \union {NoRow}]
    <2>1. CASE CommitRaises(j)
      BY <2>1 DEF CommitRaises
    <2>2. CASE Commit(j)
      <3>1. ASSUME NEW k \in Fetched(j)
            PROVE  Persist(rows[k], copy[j][k], got[j][k]) \in Row
        <4>1. k \in Stored /\ k \in DOMAIN got[j]
          BY <2>2 DEF Commit, Fetched
        <4>2. rows[k] \in Row /\ copy[j][k] \in Row /\ got[j][k] \in Snap
          BY <4>1 DEF Stored, JobsOK
        <4> QED
          BY <4>2 DEF Persist, Flush, Row, Snap
      <3> QED
        BY <2>2, <3>1 DEF Commit
    <2> QED
      BY <2>1, <2>2
  <1>5. TypeOK'
    BY <1>1, <1>2, <1>4 DEF JobsOK
  <1> QED
    BY <1>2, <1>3, <1>5

\* The administrator, upstream and the clock.
LEMMA EnvironmentStep ==
  ASSUME UsageInv, Use \/ \E k \in KeyIds : Create(k) \/ Delete(k) \/ Expire(k)
  PROVE  UsageInv'
  <1> USE DEF UsageInv, TypeOK, JobsOK, CallsInOrder, HoldsLock, CacheKnown, jobVars
  <1>1. CASE Use
    <2>1. usage' \in Usages /\ usage <= usage' /\ \A k \in KeyIds : cache[k] <= usage'
      BY <1>1, MaxUsageAssumption DEF Use, Usages
    <2>2. \A j \in Jobs : \A k \in DOMAIN task[j] :
            task[j][k] = "calling" => got[j][k].used <= usage'
      BY <1>1, MaxUsageAssumption DEF Use, Usages, Snap
    <2> QED
      BY <1>1, <2>1, <2>2 DEF Use
  <1>2. ASSUME NEW k \in KeyIds, Create(k) \/ Delete(k) \/ Expire(k)
        PROVE  UsageInv'
    <2>1. rows' \in [KeyIds -> Row \union {NoRow}] /\ fresh' \subseteq KeyIds
      <3>1. NewRow \in Row \union {NoRow} /\ NoRow \in Row \union {NoRow}
        BY MaxUsageAssumption DEF NewRow, Row, Usages
      <3>2. \/ UNCHANGED rows
            \/ rows' = [rows EXCEPT ![k] = NewRow]
            \/ rows' = [rows EXCEPT ![k] = NoRow]
        BY <1>2 DEF Create, Delete, Expire
      <3>3. fresh' = fresh \/ fresh' = fresh \ {k}
        BY <1>2 DEF Create, Delete, Expire
      <3> QED
        BY <3>1, <3>2, <3>3
    <2>2. UNCHANGED <<usage, cache, queue, force, copy, task, got>>
      BY <1>2 DEF Create, Delete, Expire
    <2> QED
      BY <2>1, <2>2
  <1> QED
    BY <1>1, <1>2

LEMMA UsageInvStep == UsageInv /\ [Next]_vars => UsageInv'
  <1> SUFFICES ASSUME UsageInv, [Next]_vars
               PROVE  UsageInv'
    OBVIOUS
  <1>1. CASE UNCHANGED vars
    BY <1>1 DEF UsageInv, TypeOK, JobsOK, CallsInOrder, HoldsLock, CacheKnown, vars
  <1>2. ASSUME NEW j \in Refreshers, NEW keys \in SUBSET KeyIds, RefreshAll(j, keys)
        PROVE  UsageInv'
    BY <1>2, BeginStep DEF RefreshAll, Jobs
  <1>3. ASSUME NEW j \in Refreshers, RefreshNone(j)
        PROVE  UsageInv'
    BY <1>1, <1>3 DEF RefreshNone
  <1>4. ASSUME NEW j \in Visitors, NEW k \in KeyIds, Ask(j, k) \/ RefreshOne(j, k)
        PROVE  UsageInv'
    <2>1. /\ {k} \in SUBSET KeyIds /\ {k} \subseteq Stored /\ j \in Jobs
          /\ Begin(j, {k}, FALSE) \/ Begin(j, {k}, TRUE)
      BY <1>4 DEF Ask, RefreshOne, Jobs
    <2> QED
      BY <2>1, BeginStep
  <1>5. ASSUME NEW j \in Jobs, JobStep(j)
        PROVE  UsageInv'
    BY <1>5, FetchStep, EndStep DEF JobStep
  <1> QED
    BY <1>1, <1>2, <1>3, <1>4, <1>5, EnvironmentStep DEF Next

LEMMA UsageInvInit == Init => UsageInv
  <1>1. 0 \in Usages /\ <<>> \in Seq(Jobs)
    BY MaxUsageAssumption, EmptySeq DEF Usages
  <1> QED
    BY <1>1 DEF Init, UsageInv, TypeOK, JobsOK, CallsInOrder, CacheKnown, Nothing

\* Per key the calls run one after the other, and what each will bring is between
\* what the cache holds and what upstream has said by now.
THEOREM UsageInvariant == Spec => []UsageInv
  <1>1. Init => UsageInv
    BY UsageInvInit
  <1>2. UsageInv /\ [Next]_vars => UsageInv'
    BY UsageInvStep
  <1> QED
    BY <1>1, <1>2, PTL DEF Spec

\* The types of the jobs and of what they share; no row's fraction is overwritten
\* by an answer without one.
THEOREM UsageTypes == Spec => []TypeOK
  <1>1. UsageInv => TypeOK
    BY DEF UsageInv
  <1> QED
    BY <1>1, UsageInvariant, PTL

LEMMA NeverOlderStep == UsageInv /\ [Next]_vars => \A k \in KeyIds : cache'[k] >= cache[k]
  <1> SUFFICES ASSUME UsageInv, [Next]_vars, NEW k \in KeyIds
               PROVE  cache'[k] >= cache[k]
    OBVIOUS
  <1> USE DEF UsageInv, TypeOK, Usages
  <1>1. ASSUME NEW j \in Jobs, NEW l \in DOMAIN task[j], Put(j, l)
        PROVE  cache'[k] >= cache[k]
    <2>1. /\ cache' = [cache EXCEPT ![l] = got[j][l].used]
          /\ cache[l] <= got[j][l].used /\ got[j][l].used \in Usages
      <3>1. got[j][l] \in Snap /\ [got[j][l] EXCEPT !.ok = TRUE].used = got[j][l].used
        BY DEF JobsOK, Snap
      <3> QED
        BY <1>1, <3>1 DEF Put, CallsInOrder, Snap
    <2> QED
      BY <2>1
  <1>2. CASE cache' = cache
    BY <1>2
  <1>3. CASE ~UNCHANGED cache
    <2>1. PICK j \in Jobs, l \in KeyIds : Fetch(j, l)
      BY <1>3 DEF Next, vars, RefreshAll, RefreshNone, Ask, RefreshOne, Begin, JobStep, Commit,
                  CommitRaises, Create, Delete, Expire, Use
    <2>2. Put(j, l) /\ l \in DOMAIN task[j]
      BY <1>3, <2>1 DEF Fetch, CachedInLock, Call, CallFails
    <2> QED
      BY <1>1, <2>2
  <1> QED
    BY <1>2, <1>3

\* A refresh that was slow never replaces a later snapshot in the cache.
THEOREM UsageNeverOlder == Spec => CacheNeverOlder
  <1>1. UsageInv /\ [Next]_vars => [\A k \in KeyIds : cache'[k] >= cache[k]]_vars
    BY NeverOlderStep
  <1> QED
    BY <1>1, UsageInvariant, PTL DEF Spec, CacheNeverOlder
=============================================================================
