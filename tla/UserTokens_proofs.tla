-------------------------- MODULE UserTokens_proofs --------------------------
(***************************************************************************)
(* Admission by user tokens and the merging of PATCHes, for any number of  *)
(* tokens, rows, requests and administrators.                              *)
(***************************************************************************)
EXTENDS UserTokens, TLAPS

\* A row is told from no row by its status.
LEMMA NoRowIsNoRow == NoRow \notin Row
  BY DEF NoRow, Row

\* What a PATCH writes is a row with the key it had.
LEMMA WrittenType ==
  ASSUME NEW row \in Row, NEW copy \in Row, NEW payload \in Payload
  PROVE  Written(row, copy, payload) \in Row /\ Written(row, copy, payload).key = row.key
  BY DEF Written, Row, Payload

(***************************************************************************)
(* The inductive invariant                                                 *)
(***************************************************************************)

\* A change of the table that keeps the invariant: rows stay rows with minted
\* keys, and the history looks at the new table.
LEMMA TableStep ==
  ASSUME Inv, Witness, UNCHANGED <<stage, bearer>>,
         table' \in [Ids -> Row \union {NoRow}],
         minted \subseteq minted', minted' \subseteq Tokens,
         \A i \in Ids : table'[i] # NoRow => table'[i].key \in minted',
         loaded' \in [Admins -> Patch \union {Idle}]
  PROVE  Inv'
  <1> USE DEF Inv, TypeOK
  <1>1. \A r \in Requests : valid'[r] = (valid[r] \/ (bearer[r] # None /\ IsGood(bearer[r], table')))
    BY DEF Witness
  <1>2. valid' \in [Requests -> BOOLEAN]
    BY DEF Witness
  <1>3. TypeOK'
    BY <1>2 DEF Rows
  <1>4. AdmittedWasValid'
    BY <1>1 DEF AdmittedWasValid
  <1>5. SeenGood'
    BY <1>1 DEF SeenGood, IsGood
  <1> QED
    BY <1>3, <1>4, <1>5

\* Requests: only a row that passes the tests of authenticate lets one in.
LEMMA RequestStep ==
  ASSUME Inv, NEW r \in Requests,
         Arrive(r) \/ Anonymous(r) \/ Look(r) \/ CountUse(r) \/ Leave(r)
  PROVE  Inv'
  <1> USE DEF Inv, TypeOK, AdmittedWasValid, SeenGood, Rows
  <1>1. CASE Arrive(r)
    <2>1. PICK b \in minted \union {None} : bearer' = [bearer EXCEPT ![r] = b]
      BY <1>1 DEF Arrive
    <2>2. bearer'[r] = b
      BY <2>1
    <2>3. valid' = [valid EXCEPT ![r] = (b # None /\ IsGood(b, table))]
      BY <1>1, <2>2 DEF Arrive
    <2>4. TypeOK'
      BY <1>1, <2>1, <2>3 DEF Arrive
    <2>5. AdmittedWasValid'
      BY <1>1, <2>1, <2>3 DEF Arrive
    <2>6. SeenGood'
      BY <1>1, <2>1, <2>3 DEF Arrive, IsGood
    <2> QED
      BY <2>4, <2>5, <2>6
  <1>2. CASE Anonymous(r)
    BY <1>2 DEF Anonymous, IsGood
  <1>3. CASE Look(r)
    <2>1. ASSUME NEW i \in Find(bearer[r]), Accepts(table[i])
          PROVE  valid[r]
      <3>1. i \in Ids /\ table[i] \in Row /\ table[i].key = bearer[r]
        BY DEF Find
      <3>2. IsGood(bearer[r], table)
        BY <2>1, <3>1 DEF IsGood, Accepts, Row
      <3> QED
        BY <1>3, <3>2 DEF Look
    <2> QED
      BY <1>3, <2>1 DEF Look, IsGood
  <1>4. CASE CountUse(r)
    BY <1>4 DEF CountUse, IsGood
  <1>5. CASE Leave(r)
    BY <1>5 DEF Leave, IsGood
  <1> QED
    BY <1>1, <1>2, <1>3, <1>4, <1>5

LEMMA CreateStep ==
  ASSUME Inv, NEW i \in Ids, NEW t \in Tokens, Create(t, i)
  PROVE  Inv'
  <1>1. PICK e \in {"never", "ahead"} :
          table' = [table EXCEPT ![i] = [key |-> t, status |-> "active", expires |-> e]]
    BY DEF Create
  <1>2. [key |-> t, status |-> "active", expires |-> e] \in Row
    BY DEF Row
  <1>3. table' \in [Ids -> Row \union {NoRow}]
    BY <1>1, <1>2 DEF Inv, TypeOK
  <1>4. \A j \in Ids : table'[j] # NoRow => table'[j].key \in minted'
    BY <1>1 DEF Create, Inv, TypeOK, Rows
  <1> QED
    BY <1>3, <1>4, TableStep DEF Create, Inv, TypeOK

LEMMA PatchCommitStep ==
  ASSUME Inv, NEW a \in Admins, PatchCommit(a)
  PROVE  Inv'
  <1> DEFINE patch == loaded[a]
  <1>1. patch \in Patch
    BY DEF PatchCommit, Inv, TypeOK
  <1>2. patch.id \in Ids /\ patch.row \in Row /\ patch.payload \in Payload
    BY <1>1 DEF Patch
  <1>3. loaded' \in [Admins -> Patch \union {Idle}]
    BY DEF PatchCommit, Inv, TypeOK
  <1>4. CASE table[patch.id] = NoRow
    <2>1. table' = table
      BY <1>4 DEF PatchCommit
    <2> QED
      BY <1>3, <2>1, TableStep DEF PatchCommit, Inv, TypeOK, Rows
  <1>5. CASE table[patch.id] # NoRow
    <2>1. table[patch.id] \in Row
      BY <1>2, <1>5 DEF Inv, TypeOK
    <2> DEFINE new == Written(table[patch.id], patch.row, patch.payload)
    <2>2. new \in Row /\ new.key = table[patch.id].key
      BY <1>2, <2>1, WrittenType
    <2>3. table' = [table EXCEPT ![patch.id] = new]
      BY <1>5 DEF PatchCommit
    <2>4. table' \in [Ids -> Row \union {NoRow}]
      BY <2>2, <2>3 DEF Inv, TypeOK
    <2>5. \A j \in Ids : table'[j] # NoRow => table'[j].key \in minted'
      BY <1>2, <1>5, <2>2, <2>3 DEF PatchCommit, Inv, TypeOK, Rows
    <2> QED
      BY <1>3, <2>4, <2>5, TableStep DEF PatchCommit, Inv, TypeOK
  <1> QED
    BY <1>4, <1>5

LEMMA InvStep == Inv /\ [Next]_vars => Inv'
  <1> SUFFICES ASSUME Inv, [Next]_vars
               PROVE  Inv'
    OBVIOUS
  <1>1. ASSUME NEW i \in Ids, HardDelete(i)
        PROVE  Inv'
    BY <1>1, TableStep DEF HardDelete, Inv, TypeOK, Rows
  <1>2. ASSUME NEW i \in Ids, Expire(i)
        PROVE  Inv'
    <2>1. table[i] \in Row
      BY <1>2 DEF Expire, Inv, TypeOK, NoRow
    <2>2. [table[i] EXCEPT !.expires = "past"] \in Row
          /\ [table[i] EXCEPT !.expires = "past"].key = table[i].key
      BY <2>1 DEF Row
    <2>3. table' = [table EXCEPT ![i] = [table[i] EXCEPT !.expires = "past"]]
      BY <1>2 DEF Expire
    <2>4. table' \in [Ids -> Row \union {NoRow}]
      BY <2>2, <2>3 DEF Inv, TypeOK
    <2>5. table[i].key \in minted
      BY <2>1, NoRowIsNoRow DEF Inv, TypeOK, Rows
    <2>6. \A j \in Ids : table'[j] # NoRow => table'[j].key \in minted'
      BY <1>2, <2>2, <2>3, <2>5 DEF Expire, Inv, TypeOK, Rows
    <2> QED
      BY <1>2, <2>4, <2>6, TableStep DEF Expire, Inv, TypeOK
  <1>3. ASSUME NEW a \in Admins, NEW i \in Ids, PatchLoad(a, i)
        PROVE  Inv'
    <2>1. loaded' \in [Admins -> Patch \union {Idle}]
      BY <1>3 DEF PatchLoad, Inv, TypeOK, Patch
    <2> QED
      BY <1>3, <2>1 DEF PatchLoad, Inv, TypeOK, AdmittedWasValid, SeenGood, IsGood, Rows
  <1>4. CASE UNCHANGED vars
    BY <1>4 DEF vars, Inv, TypeOK, AdmittedWasValid, SeenGood, IsGood, Rows
  <1> QED
    BY <1>1, <1>2, <1>3, <1>4, RequestStep, CreateStep, PatchCommitStep DEF Next

\* Before the first token nobody has been let in by one.
LEMMA InitInv == Init => Inv
  BY NoneAssumption DEF Init, Inv, TypeOK, AdmittedWasValid, SeenGood, Rows

\* The invariant of every reachable state.
THEOREM UserTokensInvariant == Spec => []Inv
  BY InitInv, InvStep, PTL DEF Spec

\* Tokens, requests and PATCHes under way keep their types, and every stored
\* key was minted.
THEOREM UserTokensTypes == Spec => []TypeOK
  BY UserTokensInvariant, PTL DEF Inv

\* require_user_token lets a bearer in only if its token was good at some moment
\* since the request came.
THEOREM AdmissionIsValid == Spec => []AdmittedWasValid
  BY UserTokensInvariant, PTL DEF Inv

(***************************************************************************)
(* PATCHes merge                                                           *)
(***************************************************************************)

\* A column changes for a PATCH that names it, or by the clock.
LEMMA PatchesMerge ==
  ASSUME Inv, Next, NEW i \in Rows, table'[i].key = table[i].key
  PROVE  /\ table'[i].status # table[i].status =>
              \E a \in Admins : /\ loaded[a].id = i /\ loaded'[a] = Idle
                                 /\ loaded[a].payload.status = table'[i].status
         /\ table'[i].expires # table[i].expires =>
              \/ table[i].expires = "ahead" /\ table'[i].expires = "past"
              \/ \E a \in Admins : /\ loaded[a].id = i /\ loaded'[a] = Idle
                                    /\ loaded[a].payload.expires = table'[i].expires
  <1>1. i \in Ids /\ table[i] \in Row /\ table[i] # NoRow
    BY DEF Rows, Inv, TypeOK
  <1>2. ASSUME NEW a \in Admins, PatchCommit(a), table'[i] # table[i]
        PROVE  /\ loaded[a].id = i /\ loaded'[a] = Idle
               /\ table'[i].status # table[i].status =>
                    loaded[a].payload.status = table'[i].status
               /\ table'[i].expires # table[i].expires =>
                    loaded[a].payload.expires = table'[i].expires
    <2>1. loaded[a].id = i /\ loaded'[a] = Idle
      BY <1>1, <1>2 DEF PatchCommit, Inv, TypeOK
    <2>2. table'[i] = Written(table[i], loaded[a].row, loaded[a].payload)
      BY <1>1, <1>2, <2>1 DEF PatchCommit, Inv, TypeOK
    <2> QED
      BY <1>1, <2>1, <2>2 DEF Written, Row
  <1>3. ASSUME NEW j \in Ids, Expire(j), table'[i] # table[i]
        PROVE  /\ table'[i].status = table[i].status
               /\ table[i].expires = "ahead" /\ table'[i].expires = "past"
    BY <1>1, <1>3 DEF Expire, Inv, TypeOK, Row
  <1>4. ASSUME NEW j \in Ids, HardDelete(j)
        PROVE  table'[i] = table[i]
    BY <1>1, <1>4, NoneAssumption DEF HardDelete, Inv, TypeOK, Row, NoRow
  <1>5. ASSUME NEW j \in Ids, NEW t \in Tokens, Create(t, j)
        PROVE  table'[i] = table[i]
    <2>1. table[j] = NoRow
      BY <1>5 DEF Create, Ids
    <2> QED
      BY <1>1, <1>5, <2>1 DEF Create, Inv, TypeOK
  <1> QED
    BY <1>2, <1>3, <1>4, <1>5
       DEF Next, Arrive, Anonymous, Look, CountUse, Leave, PatchLoad

\* No PATCH undoes what another one has committed since it loaded the row.
THEOREM PatchesAreKept == Spec => NoLostPatch
  <1> DEFINE Merged ==
        \A i \in Rows : table'[i].key = table[i].key =>
          /\ table'[i].status # table[i].status =>
               \E a \in Admins : /\ loaded[a].id = i /\ loaded'[a] = Idle
                                  /\ loaded[a].payload.status = table'[i].status
          /\ table'[i].expires # table[i].expires =>
               \/ table[i].expires = "ahead" /\ table'[i].expires = "past"
               \/ \E a \in Admins : /\ loaded[a].id = i /\ loaded'[a] = Idle
                                     /\ loaded[a].payload.expires = table'[i].expires
  <1>1. Inv /\ [Next]_vars => [Merged]_vars
    BY PatchesMerge
  <1> QED
    BY <1>1, UserTokensInvariant, PTL DEF Spec, NoLostPatch
=============================================================================
