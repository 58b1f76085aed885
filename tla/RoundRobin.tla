----------------------------- MODULE RoundRobin -----------------------------
(***************************************************************************)
(* KeyManager with a history variable for the fairness of the pointer:     *)
(* which keys have been reserved while a given key stayed free.            *)
(***************************************************************************)
EXTENDS KeyManager

VARIABLE passed     \* key -> the keys reserved since it became available

rrVars == <<kmVars, passed>>

RRInit == KMInit /\ passed = [k \in KeyIds |-> {}]

\* Reserved from a list that is still the pool: with another list in between,
\* places in the list have moved and waiting starts anew.
OutdatedPick == \E c \in Callers : /\ phase[c] = "scan" /\ phase'[c] = "using"
                                   /\ DOMAIN snap[c] # Active

RRNext ==
  /\ KMNext
  /\ passed' = [k \in KeyIds |->
       IF Active' # Active \/ OutdatedPick \/ k \in inFlight' \/ k \notin Active
       THEN {}
       ELSE passed[k] \union (inFlight' \ inFlight)]

RRSpec == RRInit /\ [][RRNext]_rrVars

\* While the pool of active keys stays as it is, no key is reserved a second
\* time past another one that was free all along: the pointer goes round, also
\* when the keys it points at are skipped because they are in flight.
NoBypass ==
  [][\A k \in Active \ inFlight :
       OutdatedPick \/ (inFlight' \ inFlight) \cap passed[k] = {}]_rrVars
=============================================================================
