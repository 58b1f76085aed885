----------------------------- MODULE UserTokens -----------------------------
(***************************************************************************)
(* The end-user tokens that guard /v1/*: services/user_token_service.py,   *)
(* require_user_token of api/deps.py and api/v1/admin_user_tokens.py.      *)
(*                                                                         *)
(* A request finds its row by the raw key it bears, an administrator names *)
(* it by id; ids are used again after a deletion, raw keys never.  Both    *)
(* read a row in one statement and act on what they read in a later one.   *)
(***************************************************************************)
EXTENDS Naturals

CONSTANTS Tokens,    \* raw keys that may be minted
          MaxRows,   \* bound on the ids of the table, which start at 1
          Requests,  \* requests to /v1/*
          Admins     \* PATCH requests under way at one time

None == "none"  \* no bearer, no object

ASSUME NoneAssumption == None \notin Tokens
ASSUME MaxRowsAssumption == MaxRows \in Nat \ {0}

VARIABLES
  table,   \* user_tokens: id -> row
  minted,  \* history: the raw keys that have been minted
  stage,   \* where each request stands
  bearer,  \* what it presents: a raw key, or None
  valid,   \* history: the presented token was good at some moment of it
  loaded   \* the ORM object of each PATCH

vars == <<table, minted, stage, bearer, valid, loaded>>

Ids   == 1..MaxRows
NoRow == [key |-> None, status |-> "absent", expires |-> "never"]
Row   == [key : Tokens, status : {"active", "revoked"}, expires : {"never", "ahead", "past"}]

\* What a PATCH asks for: a new value of a field, or to keep it.
Payload == [status  : {"keep", "active", "revoked"},
            expires : {"keep", "never", "ahead", "past"}]
Patch   == [id : Ids, row : Row, payload : Payload]
KeepAll == [status |-> "keep", expires |-> "keep"]
Idle    == [id |-> 0, row |-> NoRow, payload |-> KeepAll]

Init ==
  /\ table = [i \in Ids |-> NoRow]
  /\ minted = {}
  /\ stage = [r \in Requests |-> "away"]
  /\ bearer = [r \in Requests |-> None]
  /\ valid = [r \in Requests |-> FALSE]
  /\ loaded = [a \in Admins |-> Idle]

Rows == {i \in Ids : table[i] # NoRow}
Find(t) == {i \in Rows : table[i].key = t}

\* A good token: neither revoked, nor expired, nor gone.
IsGood(t, rowsThen) ==
  \E i \in Ids : /\ rowsThen[i].key = t /\ rowsThen[i].status = "active"
                 /\ rowsThen[i].expires \in {"never", "ahead"}

(***************************************************************************)
(* require_user_token                                                      *)
(***************************************************************************)

\* The tests of authenticate on the row it found.
AcceptsExpired(row) == row.status = "active"   \* (mutant of Accepts)
Accepts(row) == row.status = "active" /\ row.expires # "past"

\* has_any_active_token: the expiry does not count.
AnyActive == \E i \in Ids : table[i].status = "active"

Arrive(r) ==
  /\ stage[r] = "away"
  /\ \E b \in minted \union {None} : bearer' = [bearer EXCEPT ![r] = b]
  /\ stage' = [stage EXCEPT ![r] = "asks"]
  /\ valid' = [valid EXCEPT ![r] = bearer'[r] # None /\ IsGood(bearer'[r], table)]
  /\ UNCHANGED <<table, minted, loaded>>

\* No bearer: the proxy is open while no token is active.
Anonymous(r) ==
  /\ stage[r] = "asks" /\ bearer[r] = None
  /\ stage' = [stage EXCEPT ![r] = IF AnyActive THEN "refused" ELSE "served"]
  /\ UNCHANGED <<table, minted, bearer, valid, loaded>>

\* authenticate: the SELECT by hash and the tests on what it returned.
Look(r) ==
  /\ stage[r] = "asks" /\ bearer[r] # None
  /\ stage' = [stage EXCEPT ![r] = 
                IF \E i \in Find(bearer[r]) : Accepts(table[i]) THEN "known" ELSE "refused"]
  /\ UNCHANGED <<table, minted, bearer, valid, loaded>>

\* The UPDATE that counts the use: it finds no row if the token was deleted, and
\* the request is let in all the same.  If it raises, the request ends.
CountUse(r) ==
  /\ stage[r] = "known"
  /\ \E end \in {"served", "refused"} : stage' = [stage EXCEPT ![r] = end]
  /\ UNCHANGED <<table, minted, bearer, valid, loaded>>

Leave(r) ==
  /\ stage[r] \in {"served", "refused"}
  /\ stage' = [stage EXCEPT ![r] = "away"]
  /\ bearer' = [bearer EXCEPT ![r] = None]
  /\ valid' = [valid EXCEPT ![r] = FALSE]
  /\ UNCHANGED <<table, minted, loaded>>

\* The history of the requests under way after a change of the table.
Witness ==
  valid' = [r \in Requests |->
              valid[r] \/ (bearer[r] # None /\ IsGood(bearer[r], table'))]

(***************************************************************************)
(* The administrator and the clock                                         *)
(***************************************************************************)

\* create_token refuses an expiry that has passed.
\* The id is one more than the largest in the table.
Create(t, i) ==
  /\ t \notin minted
  /\ \A j \in Ids : j >= i => table[j] = NoRow
  /\ i > 1 => table[i - 1] # NoRow
  /\ \E e \in {"never", "ahead"} :
       table' = [table EXCEPT ![i] = [key |-> t, status |-> "active", expires |-> e]]
  /\ minted' = minted \union {t}
  /\ Witness /\ UNCHANGED <<stage, bearer, loaded>>

HardDelete(i) ==
  /\ table[i] # NoRow
  /\ table' = [table EXCEPT ![i] = NoRow]
  /\ Witness /\ UNCHANGED <<minted, stage, bearer, loaded>>

PatchLoad(a, i) ==
  /\ loaded[a] = Idle
  /\ table[i] # NoRow
  /\ \E payload \in Payload :
       loaded' = [loaded EXCEPT ![a] = [id |-> i, row |-> table[i], payload |-> payload]]
  /\ UNCHANGED <<table, minted, stage, bearer, valid>>

\* (Mutant of Written: the object is written whole.)
WrittenWhole(row, copy, payload) ==
  [row EXCEPT
    !.status  = IF payload.status = "keep" THEN copy.status ELSE payload.status,
    !.expires = IF payload.expires = "keep" THEN copy.expires ELSE payload.expires]

\* Only what differs from the object as it was loaded is written.  A timestamp
\* is not checked against the clock here, and a given one is never the one the
\* object holds.
Written(row, copy, payload) ==
  [row EXCEPT
    !.status  = IF payload.status \in {"keep", copy.status} THEN row.status
                ELSE payload.status,
    !.expires = IF payload.expires = "keep" \/ {payload.expires, copy.expires} = {"never"}
                THEN row.expires ELSE payload.expires]

\* (Mutant of PatchCommit: a row that is gone is written all the same.)
PatchCommitBlind(a) ==
  LET patch == loaded[a] IN
  /\ patch # Idle
  /\ table' = [table EXCEPT ![patch.id] = Written(@, patch.row, patch.payload)]
  /\ loaded' = [loaded EXCEPT ![a] = Idle]
  /\ Witness /\ UNCHANGED <<minted, stage, bearer>>

\* The UPDATE of a row that is gone, or the refresh after it, raises.
PatchCommit(a) ==
  LET patch == loaded[a] IN
  /\ patch # Idle
  /\ table' = IF table[patch.id] = NoRow THEN table
              ELSE [table EXCEPT ![patch.id] = Written(@, patch.row, patch.payload)]
  /\ loaded' = [loaded EXCEPT ![a] = Idle]
  /\ Witness /\ UNCHANGED <<minted, stage, bearer>>

Expire(i) ==
  /\ table[i].expires = "ahead"
  /\ table' = [table EXCEPT ![i].expires = "past"]
  /\ Witness /\ UNCHANGED <<minted, stage, bearer, loaded>>

Next ==
  \/ \E r \in Requests : Arrive(r) \/ Anonymous(r) \/ Look(r) \/ CountUse(r) \/ Leave(r)
  \/ \E i \in Ids : HardDelete(i) \/ Expire(i) \/ \E t \in Tokens : Create(t, i)
  \/ \E a \in Admins : PatchCommit(a) \/ \E i \in Ids : PatchLoad(a, i)

Spec == Init /\ [][Next]_vars

(***************************************************************************)
(* Properties                                                              *)
(***************************************************************************)

TypeOK ==
  /\ table \in [Ids -> Row \union {NoRow}]
  /\ minted \subseteq Tokens /\ {table[i].key : i \in Rows} \subseteq minted
  /\ stage \in [Requests -> {"away", "asks", "known", "served", "refused"}]
  /\ bearer \in [Requests -> minted \union {None}]
  /\ valid \in [Requests -> BOOLEAN]
  /\ loaded \in [Admins -> Patch \union {Idle}]

\* A request that presented a token is let in only if the token was good at some
\* moment between its arrival and its admission, however the administrator and
\* the clock interleave with the two statements of authenticate.
AdmittedWasValid ==
  \A r \in Requests :
    stage[r] \in {"known", "served"} /\ bearer[r] # None => valid[r]

\* A token that is good now has been seen to be good by the requests that bear
\* it: with the above, the inductive invariant.
SeenGood ==
  \A r \in Requests : bearer[r] # None /\ IsGood(bearer[r], table) => valid[r]

Inv == TypeOK /\ AdmittedWasValid /\ SeenGood

\* PATCHes of the same row merge: a column changes only for a PATCH that names
\* it (or for the clock), so none undoes what another one has committed since it
\* loaded the row; a revoked token does not revive when a PATCH edits its label.
NoLostPatch ==
  [][\A i \in Rows : table'[i].key = table[i].key =>
       /\ table'[i].status # table[i].status =>
            \E a \in Admins : /\ loaded[a].id = i /\ loaded'[a] = Idle
                               /\ loaded[a].payload.status = table'[i].status
       /\ table'[i].expires # table[i].expires =>
            \/ table[i].expires = "ahead" /\ table'[i].expires = "past"
            \/ \E a \in Admins : /\ loaded[a].id = i /\ loaded'[a] = Idle
                                  /\ loaded[a].payload.expires = table'[i].expires]_vars
=============================================================================
