----------------------------- MODULE ModelCache -----------------------------
(***************************************************************************)
(* services/model_cache.py and its two users in api/v1/proxy.py: the model *)
(* list with its time to live, refreshed by one request at a time.         *)
(*                                                                         *)
(* Lists are numbered in the order in which upstream offers them; 0 is     *)
(* "no list".  Of the clock the cache looks only at the age of its stamp,  *)
(* and only up to the time to live.  How a fetch finds a key is Rotation's *)
(* subject; here a fetch ends in one of the ways its caller can tell apart.*)
(***************************************************************************)
EXTENDS Naturals, Sequences

CONSTANTS Requests,   \* requests for /v1/models and /api/tags
          Ttl,        \* _ttl, in ticks
          MaxList     \* bound on the number of lists upstream offers

ASSUME TtlAssumption == Ttl \in Nat \ {0}
ASSUME MaxListAssumption == MaxList \in Nat \ {0}

VARIABLES
  offered,   \* the newest list upstream offers
  models,    \* _models
  age,       \* time since _last_refresh, up to Ttl + 1
  waiting,   \* asyncio.Lock: requests inside refresh, the holder first
  stage,     \* where each request stands
  got,       \* the list a request has from upstream or will answer with
  last,      \* history: the newest list any request was answered with
  sinceStore \* history: time since a list from upstream was stored

vars == <<offered, models, age, waiting, stage, got, last, sinceStore>>

Lists  == 0..MaxList
Stages == {"new", "queued", "fetching", "fetched", "done"}

Init ==
  /\ offered = 1
  /\ models = 0
  /\ age = Ttl + 1
  /\ waiting = <<>>
  /\ stage = [r \in Requests |-> "new"]
  /\ got = [r \in Requests |-> 0]
  /\ last = 0
  /\ sinceStore = Ttl + 1

\* get: a list within its time to live.  The test inside the lock is the same.
Fresh == models # 0 /\ age <= Ttl

\* (Mutant of HoldsLock: everybody in the queue may go on.)
IsQueued(r) == \E i \in DOMAIN waiting : waiting[i] = r

HoldsLock(r) == waiting # <<>> /\ Head(waiting) = r

\* The request is answered with a list, or with the built-in one when it is 0.
Answer(r, list) ==
  /\ stage' = [stage EXCEPT ![r] = "done"]
  /\ got' = [got EXCEPT ![r] = list]
  /\ last' = IF list > last THEN list ELSE last

\* A fresh list answers at once.
Hit(r) ==
  /\ stage[r] = "new" /\ Fresh
  /\ Answer(r, models)
  /\ UNCHANGED <<offered, models, age, waiting, sinceStore>>

\* Otherwise the request calls refresh and joins the queue of its lock.
Miss(r) ==
  /\ stage[r] = "new" /\ ~Fresh
  /\ stage' = [stage EXCEPT ![r] = "queued"]
  /\ waiting' = Append(waiting, r)
  /\ UNCHANGED <<offered, models, age, got, last, sinceStore>>

\* Inside the lock the list may have been refreshed meanwhile.
HitInLock(r) ==
  /\ stage[r] = "queued" /\ HoldsLock(r) /\ Fresh
  /\ Answer(r, models)
  /\ waiting' = Tail(waiting)
  /\ UNCHANGED <<offered, models, age, sinceStore>>

\* (Mutant of Fetch: no second look inside the lock.)
FetchAnyway(r) ==
  /\ stage[r] = "queued" /\ HoldsLock(r)
  /\ stage' = [stage EXCEPT ![r] = "fetching"]
  /\ UNCHANGED <<offered, models, age, waiting, got, last, sinceStore>>

Fetch(r) ==
  /\ stage[r] = "queued" /\ HoldsLock(r) /\ ~Fresh
  /\ stage' = [stage EXCEPT ![r] = "fetching"]
  /\ UNCHANGED <<offered, models, age, waiting, got, last, sinceStore>>

\* Upstream answers with its list; the key's success is recorded, which takes
\* time, before the cache sees the list.
UpstreamAnswers(r) ==
  /\ stage[r] = "fetching"
  /\ got' = [got EXCEPT ![r] = offered]
  /\ stage' = [stage EXCEPT ![r] = "fetched"]
  /\ UNCHANGED <<offered, models, age, waiting, last, sinceStore>>

Store(r) ==
  /\ stage[r] = "fetched"
  /\ models' = got[r]
  /\ age' = 0
  /\ sinceStore' = 0
  /\ waiting' = Tail(waiting)
  /\ Answer(r, got[r])
  /\ UNCHANGED offered

\* No key, a key that does not decrypt or an unhappy upstream: _fetch returns
\* the stale list instead, and refresh stores it like any other.
\* With nothing stale the result is empty, and an empty result is not stored.
FetchRefused(r) ==
  /\ stage[r] = "fetching"
  /\ age' = IF models = 0 THEN age ELSE 0
  /\ waiting' = Tail(waiting)
  /\ Answer(r, models)
  /\ UNCHANGED <<offered, models, sinceStore>>

\* (Mutant of FetchLost: the lock is kept.)
FetchLostLocked(r) ==
  /\ stage[r] \in {"fetching", "fetched"}
  /\ Answer(r, models)
  /\ UNCHANGED <<offered, models, age, waiting, sinceStore>>

\* Upstream lists nothing, or _fetch raises: the cache stays as it is.
FetchLost(r) ==
  /\ stage[r] \in {"fetching", "fetched"}
  /\ waiting' = Tail(waiting)
  /\ Answer(r, models)
  /\ UNCHANGED <<offered, models, age, sinceStore>>

\* The client asks again.
AskAgain(r) ==
  /\ stage[r] = "done"
  /\ stage' = [stage EXCEPT ![r] = "new"]
  /\ got' = [got EXCEPT ![r] = 0]
  /\ UNCHANGED <<offered, models, age, waiting, last, sinceStore>>

\* Upstream offers another list; time passes.
Publish ==
  /\ offered < MaxList
  /\ offered' = offered + 1
  /\ UNCHANGED <<models, age, waiting, stage, got, last, sinceStore>>

Older(time) == IF time <= Ttl THEN time + 1 ELSE time

Tick ==
  /\ age' = Older(age)
  /\ sinceStore' = Older(sinceStore)
  /\ UNCHANGED <<offered, models, waiting, stage, got, last>>

Refresh(r) == HitInLock(r) \/ Fetch(r) \/ UpstreamAnswers(r) \/ Store(r)
              \/ FetchRefused(r) \/ FetchLost(r)

Next == \/ \E r \in Requests : Hit(r) \/ Miss(r) \/ Refresh(r) \/ AskAgain(r)
        \/ Publish \/ Tick

Spec == Init /\ [][Next]_vars

\* Every call the holder of the lock waits for ends (upstream calls time out).
FairSpec == Spec /\ \A r \in Requests : WF_vars(Refresh(r))

(***************************************************************************)
(* Properties                                                              *)
(***************************************************************************)

TypeOK ==
  /\ offered \in Lists /\ models \in Lists /\ last \in Lists
  /\ age \in 0..(Ttl + 1) /\ sinceStore \in 0..(Ttl + 1)
  /\ waiting \in Seq(Requests)
  /\ stage \in [Requests -> Stages]
  /\ got \in [Requests -> Lists]

\* Only the head of the queue is past the lock: one fetch at a time.
OneFetch ==
  \A r \in Requests :
    stage[r] \in {"fetching", "fetched"} => waiting # <<>> /\ Head(waiting) = r

\* A list on its way from upstream is no older than the one it will replace.
Newer == \A r \in Requests : stage[r] = "fetched" => got[r] >= models

\* What was answered is no newer than what is stored or offered.
Bounded == last <= models /\ models <= offered
           /\ \A r \in Requests : stage[r] = "fetched" => got[r] <= offered

\* The inductive invariant.
Inv == TypeOK /\ OneFetch /\ Newer /\ Bounded

\* Nobody is answered with an older list than somebody was answered with
\* before: a slow fetch never overwrites the result of a later one.
NeverOlder ==
  [][\A r \in Requests : stage[r] # "done" /\ stage'[r] = "done" => got'[r] >= last]_vars

\* No stampede: within the time to live of a list that was stored upstream is
\* not asked again, however many requests queued up when the old one expired.
NoStampede ==
  [][\A r \in Requests :
       stage[r] = "queued" /\ stage'[r] = "fetching"
         => models = 0 \/ sinceStore > Ttl]_vars

\* "model-list cache with TTL": what get() hands out came from upstream no
\* longer ago than the time to live.
TtlHolds == Fresh => sinceStore <= Ttl

\* Every request behind the lock is answered.
Answered == \A r \in Requests : stage[r] = "queued" ~> stage[r] = "done"
=============================================================================
