------------------------------ MODULE Rotation ------------------------------
(***************************************************************************)
(* services/rotation.py and the model listing of api/v1/proxy.py: how a    *)
(* request turns picks, upstream calls and recorded outcomes into an       *)
(* answer.  Every step on the key manager's state is an action of          *)
(* KeyManager; this module says when a request takes it.                   *)
(***************************************************************************)
EXTENDS KeyManager

CONSTANTS Listers,  \* callers that list models; the others are chats
          Margin    \* max_rotation_iterations_safety_margin

ASSUME ListersAssumption == Listers \subseteq Callers
ASSUME MarginAssumption == Margin \in Nat

Chats == Callers \ Listers

VARIABLES
  stage,  \* where each request stands
  req,    \* the local variables of execute_with_rotation
  reply   \* what the request will answer, or has answered

rotVars == <<stage, req, reply>>
vars == <<kmVars, rotVars>>

Stages  == {"ready", "loop", "picking", "calling", "waiting", "done"}
Replies == {"none", "ok", "terminal", "noKeys", "busy", "noModel", "failed",
            "error", "listed", "unlisted"}
Locals  == [left : 0..(MaxId + Margin + 1), initial : 0..MaxId,
            attempted : BOOLEAN, all404 : BOOLEAN]
NoLocals == [left |-> 0, initial |-> 0, attempted |-> FALSE, all404 |-> TRUE]

Init ==
  /\ KMInit
  /\ stage = [c \in Callers |-> "ready"]
  /\ req = [c \in Callers |-> NoLocals]
  /\ reply = [c \in Callers |-> "none"]

AtLeastOne(n) == IF n = 0 THEN 1 ELSE n

(***************************************************************************)
(* Entering and leaving                                                    *)
(***************************************************************************)

Answer(c, what) ==
  /\ stage' = [stage EXCEPT ![c] = "done"]
  /\ reply' = [reply EXCEPT ![c] = what]
  /\ req' = [req EXCEPT ![c] = NoLocals]

\* (Mutant of StartChat: range() one short.)
StartChatShort(c) ==
  LET n == Cardinality(Active) IN
  /\ c \in Chats /\ stage[c] = "ready"
  /\ stage' = [stage EXCEPT ![c] = "loop"]
  /\ req' = [req EXCEPT ![c] = [NoLocals EXCEPT !.left = AtLeastOne(IF n = 0 THEN n ELSE n - 1) + Margin,
                                                !.initial = n]]
  /\ UNCHANGED <<kmVars, reply>>

\* _count_active fixes the number of attempts before the first pick.
StartChat(c) ==
  LET n == Cardinality(Active) IN
  /\ c \in Chats /\ stage[c] = "ready"
  /\ stage' = [stage EXCEPT ![c] = "loop"]
  /\ req' = [req EXCEPT ![c] = [NoLocals EXCEPT !.left = AtLeastOne(n) + Margin,
                                                !.initial = n]]
  /\ UNCHANGED <<kmVars, reply>>

StartRaises(c) ==
  /\ DbMayFail
  /\ c \in Chats /\ stage[c] = "ready"
  /\ Answer(c, "error")
  /\ UNCHANGED kmVars

\* GET /v1/models: one pick, one call.
StartList(c) ==
  /\ c \in Listers /\ stage[c] = "ready"
  /\ PickBegin(c)
  /\ stage' = [stage EXCEPT ![c] = "picking"]
  /\ UNCHANGED <<req, reply>>

\* The response is sent and the session closed.
Finish(c) ==
  /\ stage[c] = "done"
  /\ CloseSession(c)
  /\ stage' = [stage EXCEPT ![c] = "ready"]
  /\ reply' = [reply EXCEPT ![c] = "none"]
  /\ UNCHANGED req

(***************************************************************************)
(* The loop of execute_with_rotation                                       *)
(***************************************************************************)

\* After an attempt this happens in the same stretch as the release or the end
\* of the wait.  Kept apart here: a request that joins the lock's queue in
\* between could as well have joined it just before.
NextAttempt(c) ==
  /\ stage[c] = "loop" /\ req[c].left > 0
  /\ PickBegin(c)
  /\ stage' = [stage EXCEPT ![c] = "picking"]
  /\ req' = [req EXCEPT ![c].left = @ - 1]
  /\ UNCHANGED reply

\* The statements of pick_next_key between the lock and the scan.
Picking(c) ==
  /\ stage[c] = "picking"
  /\ Load(c) \/ Reactivate(c) \/ Reload(c)
  /\ UNCHANGED rotVars

GotKey(c) ==
  /\ stage[c] = "picking"
  /\ Reserve(c)
  /\ stage' = [stage EXCEPT ![c] = "calling"]
  /\ req' = [req EXCEPT ![c].attempted = (c \in Chats)]
  /\ UNCHANGED reply

\* The answers after the loop.
Conclude(c) ==
  \E hasModel \in BOOLEAN :
    Answer(c, CASE ~req[c].attempted /\ req[c].initial = 0 -> "noKeys"
                [] ~req[c].attempted /\ req[c].initial > 0 -> "busy"
                [] req[c].attempted /\ req[c].all404 /\ hasModel -> "noModel"
                [] req[c].attempted /\ ~(req[c].all404 /\ hasModel) -> "failed")

\* The end of an iteration that gave no answer.
Continue(c) ==
  IF req[c].left = 0 THEN Conclude(c)
  ELSE /\ stage' = [stage EXCEPT ![c] = "loop"]
       /\ UNCHANGED <<req, reply>>

\* No key for a chat: the end when none was active at the start, else a wait.
GotNone(c) ==
  /\ c \in Chats /\ stage[c] = "picking"
  /\ PickNothing(c)
  /\ IF req[c].initial = 0 THEN Conclude(c)
     ELSE /\ stage' = [stage EXCEPT ![c] = "waiting"]
          /\ UNCHANGED <<req, reply>>

GotNoneToList(c) ==
  /\ c \in Listers /\ stage[c] = "picking"
  /\ PickNothing(c)
  /\ Answer(c, "unlisted")

PickFailed(c) ==
  /\ stage[c] = "picking"
  /\ PickRaises(c)
  /\ Answer(c, IF c \in Chats THEN "error" ELSE "unlisted")

\* (Mutant of WaitOver: the attempt is not spent.)
WaitOverFree(c) ==
  /\ stage[c] = "waiting"
  /\ stage' = [stage EXCEPT ![c] = "loop"]
  /\ req' = [req EXCEPT ![c].left = @ + 1]
  /\ UNCHANGED <<kmVars, reply>>

\* _wait_for_free_slot: over when the ten seconds are, or earlier when a tick
\* finds nothing in flight.  Time has no value here, so it may end at any
\* moment; it always says TRUE and the attempt is spent.
WaitOver(c) ==
  /\ stage[c] = "waiting"
  /\ Continue(c)
  /\ UNCHANGED kmVars

(***************************************************************************)
(* _dispatch_one, and the body of _fetch_models_via_rotation               *)
(***************************************************************************)

Rotate(c, hint404) ==
  /\ req' = [req EXCEPT ![c].all404 = @ /\ hint404]
  /\ UNCHANGED <<stage, reply>>

Reply(c, what) ==
  /\ reply' = [reply EXCEPT ![c] = what]
  /\ UNCHANGED <<stage, req>>

\* 2xx: recorded with the token usage if the answer carries one.
Succeeded(c) ==
  /\ stage[c] = "calling"
  /\ Record(c, "success") \/ (c \in Chats /\ RecordUsage(c))
  /\ Reply(c, IF c \in Chats THEN "ok" ELSE "listed")

\* 401/403, 429, 5xx and network errors.
Refused(c) ==
  /\ stage[c] = "calling"
  /\ \E verdict \in {"unauthorized", "limited", "serverError"} : Record(c, verdict)
  /\ IF c \in Chats THEN Rotate(c, FALSE) ELSE Reply(c, "unlisted")

\* 404 (hint TRUE) or a key that does not decrypt: nothing is recorded.
Unusable(c) ==
  /\ stage[c] = "calling"
  /\ NoRecord(c)
  /\ IF c \in Chats THEN \E hint404 \in BOOLEAN : Rotate(c, hint404)
                    ELSE Reply(c, "unlisted")

\* Any other status goes to the client as it is.
PassedThrough(c) ==
  /\ c \in Chats /\ stage[c] = "calling"
  /\ NoRecord(c)
  /\ Reply(c, "terminal")

Refreshed(c) ==
  /\ stage[c] = "calling"
  /\ Refresh(c)
  /\ UNCHANGED rotVars

\* (Mutant of Released: a rotating attempt skips the release.)
ReleasedAtTheEnd(c) ==
  /\ stage[c] = "calling"
  /\ phase[c] = "recorded"
  /\ IF reply[c] = "none" THEN Continue(c) /\ UNCHANGED kmVars
     ELSE Answer(c, reply[c]) /\ Release(c)

\* `finally: release`, then the next attempt or the answer.
Released(c) ==
  /\ stage[c] = "calling"
  /\ Release(c)
  /\ IF reply[c] = "none" THEN Continue(c) ELSE Answer(c, reply[c])

\* An exception out of the call: chat_completions answers 503, the model cache
\* swallows it.
CallFailed(c) ==
  /\ stage[c] = "calling"
  /\ RecordRaises(c) \/ RecordFails(c)
  /\ Answer(c, IF c \in Chats THEN "error" ELSE "unlisted")

(***************************************************************************)
(* The specification                                                       *)
(***************************************************************************)

Step(c) ==
  \/ NextAttempt(c) \/ Picking(c) \/ GotKey(c) \/ GotNone(c) \/ GotNoneToList(c)
  \/ PickFailed(c) \/ WaitOver(c)
  \/ Succeeded(c) \/ Refused(c) \/ Unusable(c) \/ PassedThrough(c)
  \/ Refreshed(c) \/ Released(c) \/ CallFailed(c)

Others == /\ Environment \/ \E p \in Probers : ProbeStep(p)
          /\ UNCHANGED rotVars

Next ==
  \/ \E c \in Callers : StartChat(c) \/ StartRaises(c) \/ StartList(c)
                        \/ Step(c) \/ Finish(c)
  \/ Others

Spec == Init /\ [][Next]_vars

\* A chat is posted with timeout=None: its call may take for ever.  The model
\* listing goes by the HTTP client's own timeout.
AwaitsUpstream(c) == c \in Chats /\ stage[c] = "calling" /\ phase[c] = "using"

\* The event loop resumes every coroutine whose statement, sleep or upstream
\* call has ended; statements, sleeps and the calls of listings end, those of
\* chats need not.  Nothing is assumed of clients, probes, the administrator or
\* the clock.
Fairness == \A c \in Callers : WF_vars(Step(c) /\ ~AwaitsUpstream(c))
FairSpec == Spec /\ Fairness

(***************************************************************************)
(* Properties                                                              *)
(***************************************************************************)

TypeOK ==
  /\ KMTypeOK
  /\ stage \in [Callers -> Stages]
  /\ req \in [Callers -> Locals]
  /\ reply \in [Callers -> Replies]

\* The stage of a request and its phase in the key manager go together; in
\* particular a request that has answered, waits or is between two attempts
\* is not in the lock and uses no key.
InStep ==
  \A c \in Callers :
    /\ stage[c] = "picking" <=> phase[c] \in InLock
    /\ stage[c] = "calling" <=> phase[c] \in Reserving

\* What a request has still to do at most: the steps of this attempt and eight for
\* every other one.
StepsLeft == [load |-> 7, reactivate |-> 6, reload |-> 5, scan |-> 4,
              using |-> 3, refresh |-> 2, recorded |-> 1, idle |-> 0]
Remaining(c) == 8 * req[c].left + IF stage[c] = "waiting" THEN 1 ELSE StepsLeft[phase[c]]

\* Each step of a request under way brings its answer nearer, and nothing that
\* others do moves it or sends it back: no wait, refusal or failure makes a request
\* go round for ever.
CountsDown ==
  [][\A c \in Callers :
       stage[c] \notin {"ready", "done"} =>
         \/ UNCHANGED <<stage[c], req[c], reply[c], phase[c], snap[c], held[c]>>
         \/ Remaining(c)' < Remaining(c)]_vars

\* A request that is not answered has itself an upstream call that never ends:
\* nothing else keeps it, neither failing statements, the administrator and the
\* waits for a slot, nor other requests whose own calls hang for ever, with their
\* keys reserved all the while.
Answered ==
  \A c \in Callers : []<>(stage[c] \in {"ready", "done"}) \/ <>[]AwaitsUpstream(c)
=============================================================================
