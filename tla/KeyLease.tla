------------------------------ MODULE KeyLease ------------------------------
(***************************************************************************)
(* What reserving a key promises, without lock, pointer or table: a key id *)
(* belongs to one caller at a time and only that caller gives it back.  An *)
(* id whose holder failed in the wrong place is lost: nobody gets it again *)
(* while the process lives.                                                *)
(***************************************************************************)
CONSTANTS Clients,  \* who may hold a key
          Keys,     \* the key ids
          NoKey     \* "holds nothing"

VARIABLES lease,    \* the key each client holds
          lost      \* the keys held by nobody and free for nobody

leaseVars == <<lease, lost>>

LeaseInit == lease = [c \in Clients |-> NoKey] /\ lost = {}

Free(k) == k \notin lost /\ \A c \in Clients : lease[c] # k

Acquire(c, k) ==
  /\ lease[c] = NoKey /\ Free(k)
  /\ lease' = [lease EXCEPT ![c] = k]
  /\ UNCHANGED lost

GiveBack(c) ==
  /\ lease[c] # NoKey
  /\ lease' = [lease EXCEPT ![c] = NoKey]
  /\ UNCHANGED lost

Lose(c) ==
  /\ lease[c] # NoKey
  /\ lost' = lost \union {lease[c]}
  /\ lease' = [lease EXCEPT ![c] = NoKey]

LeaseNext ==
  \E c \in Clients : (\E k \in Keys : Acquire(c, k)) \/ GiveBack(c) \/ Lose(c)

LeaseSpec == LeaseInit /\ [][LeaseNext]_leaseVars
=============================================================================
