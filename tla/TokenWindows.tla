---------------------------- MODULE TokenWindows ----------------------------
(***************************************************************************)
(* The local token counters of a key (record_success_with_usage), on top   *)
(* of Rotation.  A key counts the prompt and the completion tokens of two  *)
(* windows, a session and a week, each of which starts with the first      *)
(* prompt tokens reported after the previous one is over.  The counters    *)
(* are computed from the ORM copy of the row, which may have been loaded   *)
(* long before, and written whole.                                         *)
(*                                                                         *)
(* Completion tokens are counted only beside prompt tokens: an answer that *)
(* reports some without the other is recorded as one that reports none.    *)
(***************************************************************************)
EXTENDS Rotation

CONSTANTS SessionLen, WeekLen,  \* the two windows, in ticks
          MaxTime,              \* bound on the clock
          MaxReports            \* bound on the answers counted for one key

ASSUME WindowsAssumption == {SessionLen, WeekLen} \subseteq Nat \ {0} /\ {MaxTime, MaxReports} \subseteq Nat

VARIABLES
  now,      \* the clock
  tokens,   \* the token columns of each row
  seen,     \* the same columns in what a caller's last SELECT returned
  own,      \* the same columns of the object a caller holds
  reports   \* history: the tokens of each kind that answers with prompt tokens
            \* reported for a key, at each time or later

tokVars == <<now, tokens, seen, own, reports>>

Times   == 0..MaxTime
Kinds   == {"session", "week"}
Never   == MaxTime + 1          \* window_started_at is NULL
Length  == [session |-> SessionLen, week |-> WeekLen]
Tokens  == {"prompt", "completion"}
Unused  == [used |-> [t \in Tokens |-> 0], started |-> Never]
NoTokens == [kind \in Kinds |-> Unused]
NothingSeen == [k \in KeyIds |-> NoTokens]
NoReports == [t \in Tokens |-> [at \in Times |-> 0]]

TokenInit ==
  /\ Init
  /\ now = 0
  /\ tokens = NothingSeen
  /\ seen = [c \in Callers |-> NothingSeen]
  /\ own = [c \in Callers |-> NoTokens]
  /\ reports = [k \in KeyIds |-> NoReports]

(***************************************************************************)
(* The columns travel with the rest of the row.                            *)
(***************************************************************************)

Look(c) ==
  /\ Picking(c)
  /\ seen' = IF phase[c] = "reactivate" THEN seen ELSE [seen EXCEPT ![c] = tokens]
  /\ UNCHANGED <<now, tokens, own, reports>>

\* The identity map again: an object the session still holds keeps its values.
Take(c) ==
  /\ GotKey(c)
  /\ own' = IF held'[c].id = held[c].id THEN own
            ELSE [own EXCEPT ![c] = seen[c][held'[c].id]]
  /\ seen' = [seen EXCEPT ![c] = NothingSeen]
  /\ UNCHANGED <<now, tokens, reports>>

Reread(c) ==
  /\ Refreshed(c)
  /\ own' = [own EXCEPT ![c] = tokens[held[c].id]]
  /\ UNCHANGED <<now, tokens, seen, reports>>

(***************************************************************************)
(* record_success_with_usage                                               *)
(***************************************************************************)

\* (Mutant of IsOver: only a window that never started is.)
IsUnstarted(window, length) == window.started = Never

IsOver(window, length) == window.started = Never \/ now - window.started >= length

Plus(used, block) == [t \in Tokens |-> used[t] + block[t]]

\* (Mutant of Count: the counters survive the end of their window.)
CountOn(window, length, block) ==
  [used    |-> Plus(window.used, block),
   started |-> IF IsOver(window, length) THEN now ELSE window.started]

Count(window, length, block) ==
  IF IsOver(window, length) THEN [used |-> block, started |-> now]
  ELSE [window EXCEPT !.used = Plus(@, block)]

\* A 2xx answer whose usage block has prompt tokens: what it reports is added to
\* the copy and the copy's counters are written over the stored ones.
CountTokens(c, block) ==
  LET k == held[c].id
      counted == [kind \in Kinds |-> Count(own[c][kind], Length[kind], block)] IN
  /\ block["prompt"] > 0
  /\ own' = [own EXCEPT ![c] = counted]
  /\ tokens' = [tokens EXCEPT ![k] = counted]
  /\ reports' = [reports EXCEPT ![k] =
                   [t \in Tokens |->
                     [at \in Times |-> IF at <= now THEN @[t][at] + block[t] ELSE @[t][at]]]]

\* A usage block without prompt tokens, or with none but completion tokens: nothing
\* is counted, the starts are left to the database, and the counters are written
\* from the copy all the same.
CountNothing(c, block) ==
  LET k == held[c].id IN
  /\ block["prompt"] = 0
  /\ tokens' = [tokens EXCEPT ![k] =
                  [kind \in Kinds |-> [@[kind] EXCEPT !.used = own[c][kind].used]]]
  /\ UNCHANGED <<own, reports>>

SucceededWithUsage(c) ==
  LET k == held[c].id IN
  /\ Succeeded(c)
  /\ phase'[c] = "recorded"
  /\ IF rows[k] = NoRow THEN UNCHANGED <<tokens, own, reports>>
     ELSE \E block \in [Tokens -> 0..1] :
            \/ reports[k]["prompt"][0] < MaxReports /\ CountTokens(c, block)
            \/ CountNothing(c, block)
  /\ UNCHANGED <<now, seen>>

\* record_success leaves the token columns alone.
SucceededPlainly(c) ==
  /\ Succeeded(c)
  /\ phase'[c] = "refresh"
  /\ UNCHANGED tokVars

(***************************************************************************)
(* Everything else                                                         *)
(***************************************************************************)

Elsewhere(c) ==
  /\ \/ StartChat(c) \/ StartRaises(c) \/ StartList(c) \/ NextAttempt(c)
     \/ GotNone(c) \/ GotNoneToList(c) \/ PickFailed(c) \/ WaitOver(c)
     \/ Refused(c) \/ Unusable(c) \/ PassedThrough(c)
     \/ Released(c) \/ CallFailed(c) \/ Finish(c)
  /\ UNCHANGED tokVars

\* A new row under an old id starts with counters of its own.
AroundTokens ==
  /\ Others
  /\ LET created == {k \in KeyIds : rows[k] = NoRow /\ rows'[k] # NoRow} IN
     /\ tokens' = [k \in KeyIds |-> IF k \in created THEN NoTokens ELSE tokens[k]]
     /\ reports' = [k \in KeyIds |-> IF k \in created THEN NoReports ELSE reports[k]]
  /\ UNCHANGED <<now, seen, own>>

Tick ==
  /\ now < MaxTime
  /\ now' = now + 1
  /\ UNCHANGED <<vars, tokens, seen, own, reports>>

TokenNext ==
  \/ \E c \in Callers : Look(c) \/ Take(c) \/ Reread(c) \/ SucceededWithUsage(c)
                        \/ SucceededPlainly(c) \/ Elsewhere(c)
  \/ AroundTokens \/ Tick

TokenSpec == TokenInit /\ [][TokenNext]_<<vars, tokVars>>

(***************************************************************************)
(* Properties                                                              *)
(***************************************************************************)

Reported(k, t, start) == IF start = Never THEN 0 ELSE reports[k][t][start]

\* "concurrent writers can't lose increments": in each window of a key the counter
\* of either kind is the sum of what was reported since the window started, over the
\* answers that reported prompt tokens. The others, also those that report completion
\* tokens alone, "must NOT touch the cumsum at all".
CountersExact ==
  \A k \in KeyIds, kind \in Kinds, t \in Tokens :
    tokens[k][kind].used[t] = Reported(k, t, tokens[k][kind].started)

\* No window is kept beyond its end: tokens reported after it start a new one.
WindowsEnd ==
  [][\A k \in KeyIds, kind \in Kinds :
       reports'[k] # reports[k] => now - tokens'[k][kind].started < Length[kind]]_<<vars, tokVars>>
=============================================================================
