# A verification model of ollama_proxy

`ollama_proxy` is a FastAPI service that forwards chat and model-list requests to
ollama.com. It owns a table of upstream API keys and rotates requests over them: a key
that is rate limited rests for a while, a key that is rejected is disabled, and no key
serves two calls at a time. Administrators manage keys and end-user tokens; background
work refreshes what each key has used.

This directory models that behaviour in TLA+: state machines translated from the code
under `src/app/`, TLC configurations that explore small instances of them, and theorems
checked by TLAPS for every size. `PROJECT.json` maps each definition to the lines it
stands for.

The program is one process with one event loop. Everything between two suspension points
(`await`) runs undisturbed, so such a stretch is one action; every database statement and
every upstream call ends a stretch. Concurrency is interleaving of coroutines at those
points, over shared objects in memory and one SQLite database.

## Inventory

| Component | State | Operations | Modelled in |
|---|---|---|---|
| Key table (`models/api_key.py`, `api/v1/admin.py`, `services/dashboard_backend.py`) | rows `status`, `cooldown_until`, counters | create, delete, PATCH, reset, and the statements of everybody below | `KeyTable` |
| Key manager (`services/key_manager.py`) | `_lock`, `_next_idx`, `_in_flight` | `pick_next_key`, `release`, `record_*`, the reactivation sweep | `KeyManager`, `RoundRobin`, `KeyLease` |
| Probes (`services/_keys_ops/`) | an ORM object per probe | test one key, test all | `KeyManager` (probers) |
| Rotation (`services/rotation.py`, `api/v1/proxy.py`) | locals of each request | `execute_with_rotation`, `_fetch_models_via_rotation` | `Rotation`, `RotationHistory` |
| Token counters (`record_success_with_usage`) | session and week windows in the row | count, start a window | `TokenWindows` |
| Model-list cache (`services/model_cache.py`) | `_models`, `_last_refresh`, `_lock` | `get`, `refresh` | `ModelCache` |
| User tokens (`services/user_token_service.py`, `api/deps.py`, `api/v1/admin_user_tokens.py`) | rows `user_tokens` | authenticate, create, PATCH, delete | `UserTokens` |
| Usage service (`services/usage_service.py`, loop in `main.py`) | `_cache`, `_locks`, usage columns | fetch, refresh all, persist | `UsageRefresh` |
| Vault (`services/vault.py`) | master key in memory, key file, environment | resolve, generate and write, encrypt | `Startup` |
| Lifespan (`main.py`) | engine, HTTP client, refresh task | start and stop, stage by stage | `Startup` |
| Database sessions (`db/session.py`) | connection pool, one session per request, table and columns | execute, commit, roll back, close; create the table, add columns | `RotationPool`, `KeyManager` (identity map), `Startup` (schema) |
| Dashboard sessions, CSRF, flash (`services/dashboard_auth.py`, `api/deps_dashboard.py`) | nothing but signed cookies | issue, verify, renew, check the double submit | `DashboardSession` |
| Dashboard routes (`api/dashboard_routes.py`) | none | sign in and out, pages, posts and their redirects | `DashboardSession`: what each does to cookies and forms |
| Upstream client (`services/ollama_client.py`) | none | HTTP calls | its outcomes, in `Rotation` |
| Dashboard HTTP client, configuration, logging, filters, schemas | none that changes | parsing, formatting, wiring | not modelled |

How they interact. A request is admitted by `require_user_token` (`UserTokens`), then runs
`execute_with_rotation`, which alternates `pick_next_key`, an upstream call, one `record_*`
and `release`. A model listing goes through the model cache first, whose fetch does one pick.
Probes, PATCHes, resets and deletions write the same rows with no reservation and no lock.
The usage loop writes other columns of the same rows. All of it happens between the start and
the stop of one process (`Startup`), which leaves the database and the key file to the next. The
dashboard calls the same services in process; what its browser adds is `DashboardSession`.

What makes it hard:

- *Stale copies.* `expire_on_commit=False` and SQLAlchemy's identity map let objects keep
  the attributes of their first load; an ORM UPDATE writes only the columns that differ from
  that copy. `KeyTable!Flush` is this rule, and `Loaded`, `Remember` and `Refresh` keep track
  of who holds which copy.
- *Failure halfway.* A flush that raises expires every object of the session, so the
  `finally` blocks that read `key.id` raise as well.
- *Two kinds of exclusion.* The lock covers SELECT to reservation; the reservation covers the
  call. Administrators, probes and the clock respect neither.
- *A pointer into a changing list.* `_next_idx` indexes a list that shrinks and grows.
- *Reused ids.* SQLite hands out the id of a deleted last row again, while `_in_flight`, the
  usage cache and late outcomes refer to ids.
- *A lock held while waiting for a resource.* `pick_next_key` needs a pooled connection with the
  manager's lock held, and the requests behind the lock may hold all of them.
- *State in the client.* The server remembers no dashboard session. Tabs share three cookies, and
  answers set them in the order in which they arrive.
- *Kills between steps that last.* Key file, columns and rows are written one after the other.

The correctness each component owes is the list of properties below.

## Modules

**KeyTable**: rows as a status and a cooldown that is NULL, pending or elapsed (the only
relation to the clock the code tests), the effect of each recording statement on the stored
row given the writer's copy, the administrator's operations. `CreateKey` picks the id after
the largest one stored.

**KeyManager** extends it with the manager and its callers. `phase` is the program counter
of one request in pick, use, record, release. `lockQueue` is the `asyncio.Lock` with its
waiters in order. `PickBegin` … `Reserve`/`PickNothing`/`PickRaises` are the statements of
`pick_next_key`; `Record`+`Refresh`, `RecordUsage`, `NoRecord` the ways a call is recorded;
`RecordRaises` and `RecordFails` the two ways it fails, without and with the release;
`CloseSession` drops the session's objects. A prober loads a row and records later.

**KeyLease** is the abstract specification: a key id belongs to one client at a time and
only that client gives it back or loses it. `KeyManager!ImplementsLeases` instantiates it
under `Lease` and `Lost`.

**RoundRobin** adds a history variable to `KeyManager` to state the pointer's fairness.

**Rotation** extends `KeyManager` with what a request does around it: `stage`, the locals of
`execute_with_rotation` (`req`) and the answer. Each of its actions is an action of
`KeyManager` joined with its own part, or leaves the key manager alone; that the two agree on where a request
stands is `InStep`. Model listings are the callers in `Listers`. **RotationHistory** adds the keys
a request has called (`tried`), those in service ever since it began (`along`), how many its own outcomes put out of service
(`removed`), and whether anybody else picked a key or changed the pool under it (`undisturbed`).
**TokenWindows** adds the token columns, a clock and a history: `reports[k][t][at]` is how many tokens of kind t (prompt
or completion) were reported for key k at that time or later, which is what a window that started then should have
counted. Only answers with prompt tokens are in it: the code counts completion tokens inside the branch for prompt
tokens, so a usage block with completion tokens alone changes no counter (`CountNothing`), in the code and in
the model.

**RotationPool** puts `Rotation` on the connection pool: each action of a request says whether it
takes a connection (a statement), gives it back (a commit, the end of the session) or keeps
it (a call, a wait, the lock's queue). `PoolSpec => Spec` is a theorem, so what holds of `Rotation`
holds here.

**ModelCache** stands alone: lists are numbered as upstream offers them, a fetch ends as an
answer, a refusal (the fallback to the stale list) or nothing at all.

**UserTokens**: raw keys are model values, ids are reused, a PATCH is an object loaded in one
statement and flushed in a later one.

**UsageRefresh**: a job is a cycle of the loop or a request about one key; per key it queues
at the lock, calls upstream and returns a snapshot; one commit ends a refresh. Which stored
keys are active is free in each cycle. What upstream says is a counter; `Whole` says which of its answers come with the
fractions. `Persist` assigns the usage columns always and the fraction only when there is one, and `Flush` writes of
those what differs from the object's copy.

**Startup** is the lifespan of `main.py`, one action per stage, with the vault's decision and the
schema. `_ensure_usage_columns` is three actions: it reads once which columns are missing (`FindMissing`), adds those, each
for good (`AddColumn`), and returns when it has gone through them (`MigrationDone`), without looking again. `disk` is what survives, `memory` what `Gone` resets. Any step may be followed by `Crash`. Of a row
all that matters is the master key it is encrypted with. Only one process runs at a time (the service is
started as one uvicorn worker), and no request, `/healthz` included, is served before `serving`.

**DashboardSession** is one browser and the server. `jar` is what the tabs share; a request
(`call`) carries the cookies of the moment it was sent; an `answer` is on its way until `Render` or
`Redirect` sets its cookies, and may be abandoned at any time. The handlers are two actions each,
admission (`get_dashboard_session`, `require_dashboard_csrf`) and end, because the session
may lapse in between and is verified again. `current` and `kept` are history variables for the
properties. "dashboard" stands for any page with forms, "change" for any post but logout and
the health refresh.

`MC*` modules only add symmetry sets and state constraints. Operators commented as mutants
are variants of the definition after them, each a plausible mistake, and are used by no
specification.

## Runs

| Run | Shows | Bounds | Distinct states |
|---|---|---|---|
| `round_robin` | `NoBypass`, `NoLeak` | three keys, two requests, no administrator, no failures, at most one key out of service at a time | 456 thousand |
| `rotation` | `TypeOK`, `InStep`, `PickSerialized`, `LockIsUsed`, `HeldIsReserved`, `AntiStacking`, `ConnectionsReturned`, `ImplementsLeases`, `DeletedStays`, `BackInService`, `CountsDown`, and `Answered` under fairness | one chat, one listing, one key that comes and goes, failing statements, a pool of one or two connections | 117 thousand |
| `history_lone` | `GivesUpAfterAll`, `DepletedComesBack` | one request at a time, four keys that its own outcomes and an administrator put out of service, no spare attempt | 880 thousand |
| `tokens_lone` | `CountersExact`, `WindowsEnd` | one request at a time beside a probe, one key that is deleted and reset, four ticks, windows of one and three, two counted answers with any of the two kinds of tokens | 823 thousand |
| `tokens_lost` | violates `CountersExact` | two requests, one key | |
| `cache` | `Inv`, `NeverOlder`, `NoStampede`, and `Answered` under fairness | three requests, three lists, a time to live of two ticks | 5 thousand |
| `cache_ttl` | violates `TtlHolds` | one request | |
| `manager_leak` | violates `NoLeak` | one request, a deletion | |
| `user_tokens` | `TypeOK`, `AdmittedWasValid`, `NoLostPatch` | one row id, two raw keys, one request, two PATCHes | 504 thousand |
| `usage` | `TypeOK`, `CacheNeverOlder`, and `CatchesUp`, `Answered` under fairness | the loop over two ids, one administrator asking about one of them, keys created and deleted, two answers of upstream, the second with fractions | 51 thousand |
| `startup` | `TypeOK`, `KeptOnDisk`, `AllReadable`, `Migrated`, `LoopHasResources` | two values of the environment variable, three keys to generate, two columns to add, kills at every stage | 2 thousand |
| `dashboard` | `TypeOK`, `FreshFormAccepted`, `NewKeyShown`, `SignedOutOnlyBy` | two tabs, two session ids and three CSRF tokens in use at once, a session of two ticks, symmetric tabs | 1.7 million |

Why the bounds are enough. In `rotation` one id is where every conflict happens: both
requests want the same key, and it is deleted and created again under them; a pool of one
connection makes the holder of the lock and the others wait for each other, a pool of two lets both
run. The scan needs several ids: `round_robin` and `history_lone` run it over three and four keys.
Probes beside requests are in `tokens_lone`, and the theorems cover any number of callers,
probers and ids. Requests to the user-token
guard see one another in nothing but the table, so one is enough beside two PATCHes. In `usage`
two ids are needed for a commit that fails because of one key and loses the snapshot of
the other, and one (`Visited`) for a request and the loop to overlap. A first answer without fractions is enough
for a late commit of it to meet a row that has them; answers that lose the fractions later are in the theorem (`UsageTypes`). `MaxTime`, `MaxReports`,
`MaxList`, `MaxUsage` and `MaxPool` only cap what would grow for ever. In `startup` the third generated
key is for a start that follows the loss of two; columns are independent of one another. In
`dashboard` a session id or token is free again when no cookie, form, request or answer refers to it, so the
sets bound what is alive at once, not what is ever issued; an interleaving that needs a fourth live token at
once is cut off in the run, and not in the theorems. With a time to live of two ticks a session can be
renewed, be old, and lapse while a request is under way. The day a CSRF token lives
is never shorter than a session (`session_ttl_seconds` is validated to be at most that), so only
sessions and flashes age.

Deadlock checking is on in every run. Starting rows are those an earlier process can leave:
active, depleted with a cooldown, disabled; starting tables are none, or one with any of the
added columns.

### Violations

Three runs end in a counterexample because the program does what a comment, a test or the
README of the repository excludes.

- `manager_leak`: "Anti-stacking release: covers all exit paths above" (`proxy.py:130`). A key
  deleted during the call makes the record raise and then `key.id` in the `finally` as
  well, and its id stays in `_in_flight`.
- `tokens_lost`: "concurrent writers can't lose increments" (`key_manager.py:182-183`). The token counters are
  absolute values computed from a copy that another request's record has overtaken.
- `cache_ttl`: a failed fetch's fallback is stored as a fresh list, although
  `model_cache.py:57-58` says that the next call retries.

### Behaviour no run asserts

The counterexamples that shaped the properties, kept here because their statements are
weaker than one might expect:

- `DepletedComesBack` is for one request at a time. A second request or a probe with an
  older copy can leave a row depleted with a NULL `cooldown_until`, which the sweep never looks
  at; PATCH to `depleted` does so directly. A 429 recorded through a copy that already says
  depleted can leave a row active.
- `GivesUpAfterAll` is for a request nobody else disturbs, and has an exception that is tight: each key the request itself
  disables or depletes (401, 403, 429) moves the list under the pointer, so that one key may be passed over, and
  "all backends failed" can be the answer while it is active and was never called. (`along[c] \subseteq tried[c]` for that answer
  fails in TLC.) "Not available for any active key" is given only when no attempt was refused so, and is exact. With others
  beside it more keys may be skipped: requests that alternate move the pointer under each other.
- A usage block that reports completion tokens without prompt tokens is not counted.
- A success that was under way when a key was disabled makes it active again
  (`BackInService` names that exception).
- Requests without a bearer are served while no token is *active*, not only while the table
  is empty.
- A chat counts the active keys before its pick sweeps exhausted ones back, so it may answer 503 "no
  active keys configured" while a key is active that another request's sweep brought back, which
  `test_proxy.py:396-399` says must not happen.
- `NoLostPatch` is about PATCHes, whose payload names what they change. The dashboard's edit form
  always sends a status, the one shown when the form was rendered: saved later it undoes a
  revocation made in between.
- Between the reuse of an id and the next refresh the usage cache answers for the former
  key.
- A record that raises in `probe_all_active` leaves the keys after it unclassified until the next
  probe.
- Rows stored under the generated key before another key is put into the environment are, with the
  rows stored later, under two keys for good. `AllReadable` is about a master key that is left
  alone or moved from the file to the environment; `KeptOnDisk` says that taking the variable away again
  brings the old rows back.
- `SignedOutOnlyBy` has no counterpart for signing in: the answer of a page that was under way during a
  logout sets the session cookie again. The cookie was never revoked, only deleted.
- The answer of the health refresh renews the session and leaves the CSRF cookie, so after another tab
  signed in anew the browser can hold a session and a token of different sessions; the forms
  are then refused until a page is loaded.
- `FreshFormAccepted` is about the last form rendered. One from an earlier page is refused (the double submit has one
  cookie), and a form whose answer was abandoned is accepted a second time: tokens are not used up.
- `NewKeyShown` excludes what a flash in one shared cookie cannot survive: a minute between redirect and page, and
  another tab's answer in between, which replaces or clears it. If a page that showed a raw
  key is abandoned before its cookies are set, the next page shows the key again.

## Fairness

`RotationPool!PoolFairSpec` and `ModelCache!FairSpec` assume weak fairness of each request's own
steps: the event loop resumes a coroutine whose statement, timer or call has ended. SQLite statements and the
wait for a pooled connection have timeouts, `_wait_for_free_slot` ten seconds, and a listing's call the timeout of the HTTP client. A
chat does not: `chat_completion` posts with `timeout=None` (`ollama_client.py:152`), so its call may never end, and no fairness is assumed
while `AwaitsUpstream` holds. `Answered` is accordingly: a request is answered, or it is itself a chat whose call hangs
for ever. A hanging chat keeps its key and its connection; that nobody else waits for ever because of it is what the
property says. A request that waits for a connection is answered because its wait ends with an exception if
with nothing else. Nothing is assumed of clients, probes, administrators or the clock, and the outcome
of a call is never fair: upstream may fail for ever.

`UsageRefresh!Fairness` assumes that jobs go on, since `get_account` and `get_usage` have the client's timeout; of the loop, that its sleep ends. `CatchesUp` is
about a table in which keys are no longer created or deleted (a deletion in every cycle would fail
every commit), and about the columns upstream reports: the fractions catch up if its last answer has them. Its environment has to cooperate: a key is in a cycle again and again
(it is not inactive for ever) and a fetch for it succeeds again and again (strong fairness of `Cycle`
and `Success`). The code decides the rest: that a cycle which fails at its commit leads to
another one, that locks are given back, and that overlapping stale writes settle.

`Startup` and `DashboardSession` promise safety only: nobody has to start the service, and a user may
leave at any time.

## Proofs

Eight modules hold theorems, each for every value of its constants under the named `ASSUME`s of the
modules it extends. Those say: numbers are numbers and lengths are positive, callers and probers are disjoint,
the values that stand for "none" are none of the others. Each proof rests on an inductive
invariant, which is as a rule stronger than what the runs check.

**KeyManager_proofs**: `KMInvariant`, with `KMInv == KMTypeOK /\ PickSerialized /\ HeldIsReserved /\
AntiStacking`. Anti-stacking alone is not inductive: that `Reserve` gives out a
key nobody uses needs that used keys are in `_in_flight` (`HeldIsReserved`), that they stay there
when somebody else releases needs `AntiStacking` itself, and the types (a reserving caller
refers to an object, the pointer is in range) carry both. `PickSerialized` rests on the lock's
queue. From it: `KMTypeCorrect`, `NoStacking`, `PicksAreSerialized`, `HeldKeysReserved`;
`ImplementsExclusiveLeases`, the refinement of `KeyLease`; `DeletedKeysStay`; `OutOfServiceStays`
(`BackInService`, for administrators that neither activate nor reset, as in the run); and `NothingLost`, that
`NoLeak` holds when no key is deleted and no statement fails, the assumption `manager_leak` shows to be
needed. The last adds `SeenIsStored`: ids in a snapshot or held are stored rows.
`LockComesBack` (`LockIsUsed`) holds without any such assumption. Two arguments have an invariant of their own:

- `DepletedKeysComeBack` (`DepletedComesBack`) is about one caller, no prober and administrators that do
  not PATCH a key to `depleted`, and is false without any one of the three. A write through a copy leaves out a
  status the copy already has; if the stored row is depleted and the copy is not told, clearing the cooldown leaves it depleted
  with none. So the invariant (`LoneInv`) adds that the request's copy says depleted whenever the row does, and that the list it
  scans has no depleted key. Statements may fail, and keys may be created, deleted, disabled, activated and reset.
- `PointerIsFair` (`NoBypass`) needs nothing. The keys passed while a key waits lie behind the pointer
  (`RRInv`: further round the ring than the waiting key). A reservation at distance d moves the pointer d + 1 places
  (`PointerAdvances`), so every free key comes nearer, and the passed ones are further off than any free key
  until the pointer has gone past it. The lemmas before it are the arithmetic of the ring: places are distinct and
  distances are distinct, from division with remainder and the cardinality of the pool.

**Rotation_proofs**: every action of a request is one of the key manager's or leaves it alone (the lemmas
`RequestStep`, `ManagerStep`), so all of the above holds of rotation. `RotInv == KMInv /\ RotTypeOK /\ InStep`
gives `RotationTypes` and `StagesAgree`. With the pool: `PoolImplementsRotation` (taking and giving
connections are stutters), and `ConnectionsComeBack` from `PoolInv`, which adds that the set of
connections in use is finite.

`EveryKeyIsTried` (`GivesUpAfterAll`) is the ring again: `HistoryInv` says that an undisturbed request has called the last keys
behind the pointer, as many as it has made attempts, but for one at most for each key it has put out of service (`Covers`); so when
no attempt is left, N attempts on N keys are all of them. A key that its own outcome removes moves the others up by at
most one place (`PlacesMoveUp`, `RemainderShrinks`, `OneMoreBehind`). It assumes that no key is deleted and no statement fails, for any
number of requests before and after, keys and spare attempts: a leaked reservation (`manager_leak`) makes a key that is active unavailable for good, and with one leaked
the request spends attempts without calling.

`RequestsCountDown` (`CountsDown`) is the part of `Answered` that is a safety property: a request's own steps
decrease `Remaining`, a bound of eight for each attempt, and nobody else's step moves it. With `LockComesBack`, that
whoever is at the head of the queue is inside `pick_next_key`, what an argument for `Answered` still needs is fairness and
that one of those steps is always possible (`ENABLED`); that the two callers of `rotation` get their answers is checked, that any number take finitely many steps is proved.

**TokenWindows_proofs**: `WindowsImplementRotation`, and `WindowsAreCurrent` (`WindowsEnd`) for any number of
requests and probes with copies of any age; it rests on `RotInv` for who holds an object and on the types of
the windows. `CountersExact` is not true of two requests, as `tokens_lost` shows. `LoneCountersExact` proves it of one at a
time, beside any number of probes, with failing statements, edits, resets and deletions. Its invariant (`ExactInv`) says
besides that the columns a request has loaded are those stored (`CopiesAreStored`), and that a window which is over has
no report of either kind in the present (`WindowsInPast`), or one that starts now would miss it. It assumes that no key is
created: a key that took the id of a deleted one would be charged with the counters of the copy a request still has.

**ModelCache_proofs**: `CacheInv == Inv /\ StampHonest`. `Inv` (one fetch at a time, at the head of the queue, with a
list no older than the stored one) gives `AnswersNeverOlder`; `StampHonest`, that the stamp is no older than the
list, is what `NoStampedes` needs besides.

**UserTokens_proofs**: `Inv` with `SeenGood` (what a request has read was good at that moment) gives
`AdmissionIsValid`; `PatchesAreKept` follows from the types and from what a PATCH's object was loaded with.

**UsageRefresh_proofs**: `UsageInv` adds to the types that the call of a job is at the head of its key's queue and that
what it brings lies between the cache and upstream (`CallsInOrder`, `CacheKnown`); `UsageNeverOlder` follows. `UsageTypes` is also where it shows
that no missing fraction is written over one.

**Startup_proofs**: `StartupInv` relates each stage to what exists (`Resources`, with: once the table was read, its columns and those still
to be added are all there are), to where the master key is
(`KeyInPlace`) and to what rows are encrypted with (`OneKey`). All five properties of the run follow. The step that needs
it most is `Truncate`: an empty or missing file means that nothing is encrypted with a generated key.

**DashboardSession_proofs**: `DashInv` says of each place a value passes through what it agrees with: the last form with the
cookies (`FormsCurrent`), a post on its way with the cookies it carries (`SentFormsCurrent`), a handler with its
session (`HandlersSigned`), an answer with its request (`AnswersFit`: a renewed session is no older than the one it
renews), the raw key in answer, cookie and request (`KeyUnderWay`). All four properties of the run follow, for any number
of tabs and of tokens alive at once.

Only model-checked: the liveness properties (`Answered` of three modules, `CatchesUp`), which are out of the proof system's
reach, as is `ENABLED`. Every other property of a passing run is stated by a theorem, four of them under the assumptions
given above: `NoLeak`, `DepletedComesBack`, `GivesUpAfterAll` and `CountersExact`, and `BackInService` under those of its run. No module declares
a RECURSIVE operator.

## Not modelled

HTTP parsing, headers, streaming and payloads; hashes, masks, labels and counters without
an influence on rotation (`total_requests`, `last_status_code`); logging and HTML; the account columns of a
snapshot. Encryption and signatures are libraries: a key that does not decrypt is an outcome of `Unusable` and
`CallFails`, a cookie cannot be forged. The dashboard's HTTP client is no longer used by it. Configuration does not
change while the process runs and is in the constants. Transactions across tables, pragmas, and the use of one session by
the gather of `probe_all_active` (its records run one after the other) are left out, and so is a vault without a database
path, which the program never makes. In `Startup` a running process is abstract: that its requests are
over when it stops is the server's promise.

## What could follow

1. `ModelCache` over `Rotation`: the fetch is abstract in the one, the listing's cache in the other.
2. The account in a usage snapshot, to state what the cache may answer about a reused id.
3. What still holds of the pool after a reservation has leaked: which keys a request with the rest to itself calls.
4. The counterpart of `CountsDown` for the jobs of `UsageRefresh`.
