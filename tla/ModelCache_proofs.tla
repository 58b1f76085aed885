-------------------------- MODULE ModelCache_proofs --------------------------
(***************************************************************************)
(* The model list cache for any number of requests, any time to live and   *)
(* any number of lists.                                                    *)
(***************************************************************************)
EXTENDS ModelCache, SequenceTheorems, TLAPS

\* Joining the queue never displaces its holder; leaving it leaves a queue.
LEMMA QueueFacts ==
  ASSUME NEW q \in Seq(Requests), NEW r \in Requests
  PROVE  /\ Append(q, r) \in Seq(Requests) /\ Append(q, r) # <<>>
         /\ q # <<>> => Head(Append(q, r)) = Head(q) /\ Tail(q) \in Seq(Requests)
  <1>1. Append(q, r) \in Seq(Requests) /\ Append(q, r) # <<>>
    BY AppendProperties
  <1>2. ASSUME q # <<>>
        PROVE  Head(Append(q, r)) = Head(q)
    BY <1>2
  <1>3. ASSUME q # <<>>
        PROVE  Tail(q) \in Seq(Requests)
    BY <1>3
  <1> QED
    BY <1>1, <1>2, <1>3

\* An answer from the cache, or with a list at least as new as the cache's.
LEMMA AnswerType ==
  ASSUME TypeOK, NEW r \in Requests, NEW list \in Lists, Answer(r, list)
  PROVE  /\ last' \in Lists /\ last' >= last /\ (last' = last \/ last' = list)
         /\ stage' \in [Requests -> Stages] /\ got' \in [Requests -> Lists]
         /\ stage'[r] = "done" /\ got'[r] = list
         /\ \A q \in Requests \ {r} : stage'[q] = stage[q] /\ got'[q] = got[q]
  BY DEF Answer, TypeOK, Lists, Stages

\* The stamps only grow up to where they stop mattering.
LEMMA OlderType ==
  ASSUME NEW time \in 0..(Ttl + 1)
  PROVE  Older(time) \in 0..(Ttl + 1) /\ time <= Older(time)
  BY TtlAssumption DEF Older

\* The list in the cache is stamped no earlier than it came from upstream.
StampHonest == age <= sinceStore

CacheInv == Inv /\ StampHonest

\* The steps that answer with what the cache holds, and end the fetch of the
\* holder of the lock if they leave the queue.
LEMMA FromCache ==
  ASSUME CacheInv, NEW r \in Requests, Answer(r, models),
         UNCHANGED <<offered, models, sinceStore>>,
         age' \in {age, 0},
         \/ UNCHANGED waiting
         \/ HoldsLock(r) /\ waiting' = Tail(waiting)
  PROVE  CacheInv'
  <1> USE DEF CacheInv, Inv, TypeOK
  <1>1. models \in Lists
    OBVIOUS
  <1>2. /\ last' \in Lists /\ (last' = last \/ last' = models)
        /\ stage' \in [Requests -> Stages] /\ got' \in [Requests -> Lists]
        /\ stage'[r] = "done"
        /\ \A q \in Requests \ {r} : stage'[q] = stage[q] /\ got'[q] = got[q]
    BY <1>1, AnswerType
  <1>3. waiting' \in Seq(Requests)
    BY QueueFacts DEF HoldsLock
  <1>4. TypeOK'
    BY <1>2, <1>3, TtlAssumption
  <1>5. OneFetch'
    BY <1>2 DEF OneFetch, HoldsLock
  <1>6. Newer' /\ Bounded'
    <2>1. \A q \in Requests : stage'[q] = "fetched" =>
            q # r /\ stage[q] = "fetched" /\ got'[q] = got[q]
      BY <1>2
    <2>2. last' <= models
      BY <1>2, MaxListAssumption DEF Bounded, Lists
    <2> QED
      BY <2>1, <2>2 DEF Newer, Bounded
  <1>7. StampHonest'
    BY TtlAssumption DEF StampHonest
  <1> QED
    BY <1>4, <1>5, <1>6, <1>7

\* A list from upstream is stored: it is at least as new as the one before.
LEMMA StoreStep ==
  ASSUME CacheInv, NEW r \in Requests, Store(r)
  PROVE  CacheInv'
  <1> USE DEF CacheInv, Inv, TypeOK
  <1>1. got[r] \in Lists /\ stage[r] = "fetched"
    BY DEF Store
  <1>2. /\ last' \in Lists /\ (last' = last \/ last' = got[r])
        /\ stage' \in [Requests -> Stages] /\ got' \in [Requests -> Lists]
        /\ stage'[r] = "done"
        /\ \A q \in Requests \ {r} : stage'[q] = stage[q] /\ got'[q] = got[q]
    BY <1>1, AnswerType DEF Store
  <1>3. HoldsLock(r)
    BY <1>1 DEF OneFetch, HoldsLock
  <1>4. \A q \in Requests \ {r} : stage[q] \notin {"fetching", "fetched"}
    BY <1>3 DEF OneFetch, HoldsLock
  <1>5. waiting' \in Seq(Requests)
    BY <1>3, QueueFacts DEF Store, HoldsLock
  <1>6. TypeOK'
    BY <1>1, <1>2, <1>5, TtlAssumption DEF Store
  <1>7. OneFetch' /\ Newer'
    BY <1>2, <1>4 DEF OneFetch, Newer
  <1>8. Bounded'
    <2>1. models' = got[r] /\ offered' = offered
      BY DEF Store
    <2>2. got[r] >= models /\ got[r] <= offered /\ last <= models
      BY <1>1 DEF Newer, Bounded
    <2>3. last' <= models' /\ models' <= offered'
      BY <1>1, <1>2, <2>1, <2>2 DEF Lists
    <2> QED
      BY <1>2, <1>4, <2>3 DEF Bounded
  <1>9. StampHonest'
    BY DEF Store, StampHonest
  <1> QED
    BY <1>6, <1>7, <1>8, <1>9

\* Every other step of a request.
LEMMA MoveStep ==
  ASSUME CacheInv, NEW r \in Requests,
         Miss(r) \/ Fetch(r) \/ UpstreamAnswers(r) \/ AskAgain(r)
  PROVE  CacheInv'
  <1> USE DEF CacheInv, Inv, TypeOK, Stages, Lists
  <1>1. CASE Miss(r)
    <2>1. waiting' \in Seq(Requests) /\ waiting' # <<>>
          /\ (waiting # <<>> => Head(waiting') = Head(waiting))
      BY <1>1, QueueFacts DEF Miss
    <2>2. OneFetch'
      BY <1>1, <2>1 DEF Miss, OneFetch
    <2> QED
      BY <1>1, <2>1, <2>2 DEF Miss, Newer, Bounded, StampHonest
  <1>2. CASE Fetch(r)
    BY <1>2 DEF Fetch, HoldsLock, OneFetch, Newer, Bounded, StampHonest
  <1>3. CASE UpstreamAnswers(r)
    BY <1>3 DEF UpstreamAnswers, OneFetch, Newer, Bounded, StampHonest
  <1>4. CASE AskAgain(r)
    BY <1>4, MaxListAssumption DEF AskAgain, OneFetch, Newer, Bounded, StampHonest
  <1> QED
    BY <1>1, <1>2, <1>3, <1>4

LEMMA CacheInvStep == CacheInv /\ [Next]_vars => CacheInv'
  <1> SUFFICES ASSUME CacheInv, [Next]_vars
               PROVE  CacheInv'
    OBVIOUS
  <1>1. ASSUME NEW r \in Requests, Hit(r) \/ HitInLock(r)
        PROVE  CacheInv'
    BY <1>1, FromCache DEF Hit, HitInLock
  <1>2. ASSUME NEW r \in Requests, FetchRefused(r) \/ FetchLost(r)
        PROVE  CacheInv'
    <2>1. HoldsLock(r)
      BY <1>2 DEF FetchRefused, FetchLost, CacheInv, Inv, OneFetch, HoldsLock
    <2> QED
      BY <1>2, <2>1, FromCache DEF FetchRefused, FetchLost
  <1>3. CASE Publish
    BY <1>3, MaxListAssumption
       DEF Publish, CacheInv, Inv, TypeOK, OneFetch, Newer, Bounded, StampHonest, Lists
  <1>4. CASE Tick
    <2>1. /\ age' \in 0..(Ttl + 1) /\ sinceStore' \in 0..(Ttl + 1)
          /\ age' <= sinceStore'
      BY <1>4, TtlAssumption DEF Tick, Older, CacheInv, Inv, TypeOK, StampHonest
    <2> QED
      BY <1>4, <2>1 DEF Tick, CacheInv, Inv, TypeOK, OneFetch, Newer, Bounded, StampHonest
  <1>5. CASE UNCHANGED vars
    BY <1>5 DEF vars, CacheInv, Inv, TypeOK, OneFetch, Newer, Bounded, StampHonest
  <1> QED
    BY <1>1, <1>2, <1>3, <1>4, <1>5, StoreStep, MoveStep DEF Next, Refresh

\* An empty cache behind a free lock.
LEMMA CacheInitInv == Init => CacheInv
  BY TtlAssumption, MaxListAssumption
  DEF Init, CacheInv, Inv, TypeOK, OneFetch, Newer, Bounded, StampHonest, Lists, Stages

\* One fetch at a time, and a list under way is no older than the stored one.
THEOREM CacheInvariant == Spec => []Inv
  <1>1. CacheInv => Inv
    BY DEF CacheInv
  <1> QED
    BY <1>1, CacheInitInv, CacheInvStep, PTL DEF Spec

\* The answers of the cache never go back to an older list.
THEOREM AnswersNeverOlder == Spec => NeverOlder
  <1> DEFINE NotOlder == \A r \in Requests :
                           stage[r] # "done" /\ stage'[r] = "done" => got'[r] >= last
  <1>1. ASSUME CacheInv, Next, NEW r \in Requests, stage[r] # "done", stage'[r] = "done"
        PROVE  got'[r] >= last
    <2> USE DEF CacheInv, Inv, TypeOK, Lists
    <2>1. ASSUME NEW q \in Requests, Answer(q, models)
          PROVE  got'[r] >= last
      BY <1>1, <2>1 DEF Answer, Bounded
    <2>2. ASSUME NEW q \in Requests, Store(q)
          PROVE  got'[r] >= last
      BY <1>1, <2>2 DEF Store, Answer, Newer, Bounded
    <2> QED
      BY <1>1, <2>1, <2>2
         DEF Next, Refresh, Hit, Miss, HitInLock, Fetch, UpstreamAnswers, FetchRefused,
             FetchLost, AskAgain, Publish, Tick
  <1>2. CacheInv /\ [Next]_vars => [NotOlder]_vars
    BY <1>1
  <1> QED
    BY <1>2, CacheInitInv, CacheInvStep, PTL DEF Spec, NeverOlder

\* However many requests queue up when a list expires, upstream is asked again
\* only when nothing was stored within the time to live.
THEOREM NoStampedes == Spec => NoStampede
  <1> DEFINE Calm == \A r \in Requests :
                       stage[r] = "queued" /\ stage'[r] = "fetching"
                         => models = 0 \/ sinceStore > Ttl
  <1>1. ASSUME CacheInv, Next, NEW r \in Requests,
               stage[r] = "queued", stage'[r] = "fetching"
        PROVE  models = 0 \/ sinceStore > Ttl
    <2> USE DEF CacheInv, Inv, TypeOK
    <2>1. ASSUME NEW q \in Requests, Fetch(q)
          PROVE  models = 0 \/ sinceStore > Ttl
      <3>1. models = 0 \/ ~(age <= Ttl)
        BY <2>1 DEF Fetch, Fresh
      <3>2. age \in Nat /\ sinceStore \in Nat /\ Ttl \in Nat /\ age <= sinceStore
        BY <1>1, TtlAssumption DEF StampHonest
      <3> QED
        BY <3>1, <3>2
    <2> QED
      BY <1>1, <2>1
         DEF Next, Refresh, Hit, Miss, HitInLock, Store, UpstreamAnswers, FetchRefused,
             FetchLost, AskAgain, Publish, Tick, Answer
  <1>2. CacheInv /\ [Next]_vars => [Calm]_vars
    BY <1>1
  <1> QED
    BY <1>2, CacheInitInv, CacheInvStep, PTL DEF Spec, NoStampede
=============================================================================
