-------------------------- MODULE RotationHistory --------------------------
(***************************************************************************)
(* Rotation with history variables, to compare what a request answers with *)
(* what it did: the keys it has called, the keys that were in service all  *)
(* along, how many it has put out of service itself, and whether others    *)
(* moved the pool or the pointer under it.                                 *)
(***************************************************************************)
EXTENDS Rotation

VARIABLES tried,        \* the keys each request has called upstream
          along,        \* the keys in service ever since it began
          removed,      \* how many its own outcomes put out of service
          undisturbed   \* nobody else has changed the pool or picked a key

histVars == <<tried, along, removed, undisturbed>>

HistoryInit == /\ Init
               /\ tried = [c \in Callers |-> {}]
               /\ along = [c \in Callers |-> {}]
               /\ removed = [c \in Callers |-> 0]
               /\ undisturbed = [c \in Callers |-> TRUE]

Entering(c) == stage[c] = "ready" /\ stage'[c] # "ready"

\* Whatever a request does to the table moves it to another phase.
Moves(c) == phase'[c] # phase[c]

\* Nobody else picks or uses a key, nor changes which keys are in service.
LeftAlone(c) == /\ Active' = Active \/ Moves(c)
                /\ \A d \in Callers \ {c} : phase'[d] = "idle"

\* (Bound: what is remembered of a request goes with its answer, and once it
\* has been disturbed.)
Over(c) == stage'[c] \in {"ready", "done"} \/ ~undisturbed'[c]

HistoryNext ==
  /\ Next
  /\ undisturbed' = [c \in Callers |-> Entering(c) \/ (undisturbed[c] /\ LeftAlone(c))]
  /\ tried' = [c \in Callers |->
       IF Entering(c) \/ Over(c) THEN {}
       ELSE IF stage[c] = "picking" /\ stage'[c] = "calling"
            THEN tried[c] \union {held'[c].id} ELSE tried[c]]
  /\ along' = [c \in Callers |->
       IF Over(c) THEN {} ELSE IF Entering(c) THEN Active ELSE along[c] \cap Active']
  /\ removed' = [c \in Callers |->
       IF Entering(c) \/ Over(c) THEN 0
       ELSE removed[c] + IF Moves(c) THEN Cardinality(Active \ Active') ELSE 0]

HistorySpec == HistoryInit /\ [][HistoryNext]_<<vars, histVars>>

Answers(c, what) == reply[c] = "none" /\ reply'[c] = what

(***************************************************************************)
(* Properties                                                              *)
(***************************************************************************)

\* A request that nobody disturbs gives up late.  "Not available for any active
\* key" it says only when it has called every key in service; "all backends
\* failed" when it has, but for one key at most for each it put out of service
\* itself: the list shrinks under the pointer, which then stands one place too
\* far and may pass a key.
GivesUpAfterAll ==
  [][\A c \in Chats : undisturbed[c] =>
       /\ Answers(c, "noModel") => along[c] \subseteq tried[c]
       /\ Answers(c, "failed") => Cardinality(along[c] \ tried[c]) <= removed[c]]_<<vars, histVars>>
=============================================================================
