------------------------------ MODULE KeyTable ------------------------------
(***************************************************************************)
(* The api_keys table: what one stored row holds, what each statement of   *)
(* the program does to it, and the operations of the administrator.        *)
(*                                                                         *)
(* Rows are written in two ways.  An explicit UPDATE writes its columns    *)
(* whatever they held.  An ORM write goes through an object loaded         *)
(* earlier: SQLAlchemy compares the assigned value with the LOADED one and *)
(* leaves an unchanged column out of the UPDATE, and session.get returns   *)
(* the object the session already holds without reading the row again.     *)
(* So the effect of record_* depends on two arguments, the row as stored   *)
(* now and the copy the writer loaded some time ago.                       *)
(***************************************************************************)
EXTENDS Integers, FiniteSets

CONSTANTS MaxId,    \* bound on the number of ids; SQLite hands them out from 1
          AdminOps  \* the administrator's operations a run allows

AdminOpNames == {"create", "delete", "activate", "deplete", "disable", "reset"}

ASSUME MaxIdAssumption == MaxId \in Nat \ {0}
ASSUME AdminOpsAssumption == AdminOps \subseteq AdminOpNames

VARIABLE rows       \* the table: id -> row

KeyIds == 1..MaxId

(* The columns rotation depends on.  cooldown_until is abstracted to its   *)
(* relation with the clock: NULL, in the future, or already past.          *)
Statuses  == {"active", "depleted", "disabled"}
Cooldowns == {"none", "pending", "elapsed"}
Row       == [status : Statuses, cooldown : Cooldowns]

NoRow == [status |-> "absent", cooldown |-> "none"]
NewRow == [status |-> "active", cooldown |-> "none"]

Stored == {k \in KeyIds : rows[k] # NoRow}
Active == {k \in KeyIds : rows[k].status = "active"}

(***************************************************************************)
(* The effect of the recording statements on a stored row.                 *)
(***************************************************************************)

\* One column of an ORM write: left out of the UPDATE when the value assigned
\* is the value loaded.
Flush(stored, loaded, assigned) == IF assigned = loaded THEN stored ELSE assigned

\* Setting cooldown_until to NULL through a loaded copy.
ClearCooldown(row, copy) == Flush(row.cooldown, copy.cooldown, "none")

Success(row, copy) ==
  [status   |-> Flush(row.status, copy.status, "active"),
   cooldown |-> ClearCooldown(row, copy)]

\* An explicit UPDATE: the copy plays no part in these two columns.
SuccessWithUsage(row, copy) == NewRow

Unauthorized(row, copy) ==
  [status   |-> Flush(row.status, copy.status, "disabled"),
   cooldown |-> ClearCooldown(row, copy)]

\* (Mutant of RateLimited: no cooldown without a Retry-After.)
RateLimitedBare(row, copy) ==
  [status   |-> Flush(row.status, copy.status, "depleted"),
   cooldown |-> ClearCooldown(row, copy)]

\* The new cooldown_until is a fresh timestamp, so it is always written; it is
\* at least a second ahead whatever Retry-After says.
RateLimited(row, copy) ==
  [status   |-> Flush(row.status, copy.status, "depleted"),
   cooldown |-> "pending"]

\* Only counters and last_status_code change.
ServerError(row, copy) == row

Verdicts == {"success", "usage", "unauthorized", "limited", "serverError"}

Recorded(verdict, row, copy) ==
  CASE verdict = "success"      -> Success(row, copy)
    [] verdict = "usage"        -> SuccessWithUsage(row, copy)
    [] verdict = "unauthorized" -> Unauthorized(row, copy)
    [] verdict = "limited"      -> RateLimited(row, copy)
    [] verdict = "serverError"  -> ServerError(row, copy)

\* (Mutant of Reactivated: the sweep forgets to look at the clock.)
ReactivatedEarly(row) ==
  IF row.status = "depleted" /\ row.cooldown # "none" THEN NewRow ELSE row

\* The sweep over one row: only an expired cooldown of a depleted key counts.
Reactivated(row) ==
  IF row.status = "depleted" /\ row.cooldown = "elapsed" THEN NewRow ELSE row

(***************************************************************************)
(* The administrator and the clock.                                        *)
(***************************************************************************)

\* The id of a new row is one more than the largest stored: deleting the last
\* key makes its id available again.
CreateKey(k) ==
  /\ "create" \in AdminOps
  /\ rows[k] = NoRow
  /\ \A j \in KeyIds : j > k => rows[j] = NoRow
  /\ k > 1 => rows[k - 1] # NoRow
  /\ rows' = [rows EXCEPT ![k] = NewRow]

DeleteKey(k) ==
  /\ "delete" \in AdminOps
  /\ rows[k] # NoRow
  /\ rows' = [rows EXCEPT ![k] = NoRow]

PatchOp(status) ==
  CASE status = "active"   -> "activate"
    [] status = "depleted" -> "deplete"
    [] status = "disabled" -> "disable"

\* PATCH sets the status and nothing else: cooldown_until stays as it was.
PatchStatus(k, status) ==
  /\ PatchOp(status) \in AdminOps
  /\ rows[k] # NoRow
  /\ rows' = [rows EXCEPT ![k].status = status]

ResetStates ==
  /\ "reset" \in AdminOps
  /\ rows' = [k \in KeyIds |-> IF rows[k] = NoRow THEN NoRow ELSE NewRow]

\* Time passes the cooldown_until of one key.
CooldownElapses(k) ==
  /\ rows[k].cooldown = "pending"
  /\ rows' = [rows EXCEPT ![k].cooldown = "elapsed"]

Admin == \/ \E k \in KeyIds : CreateKey(k) \/ DeleteKey(k)
         \/ \E k \in KeyIds, s \in Statuses : PatchStatus(k, s)
         \/ ResetStates
=============================================================================
