--------------------------- MODULE Startup_proofs ---------------------------
(***************************************************************************)
(* The promises of Startup for any master keys and any set of columns.     *)
(***************************************************************************)
EXTENDS Startup, TLAPS

(***************************************************************************)
(* The inductive invariant: what a stage of the lifespan may rely on, and  *)
(* where the master key of the stored rows is while the process is down.   *)
(***************************************************************************)

\* What exists at each stage: a table has the columns of every release; once it was
\* read, it has all those that are no longer to be added.
Resources ==
  /\ schema # {} => Base \in schema
  /\ stage = "migrating" => schema # {}
  /\ stage = "altering" => schema \union missing = Complete
  /\ stage # "altering" => missing = {}
  /\ stage \in {"wiring", "serving", "cancelling", "closing", "disposing"} => schema = Complete
  /\ stage \in {"migrating", "altering", "wiring", "serving", "cancelling", "closing",
                "disposing"} => engine
  /\ stage \in {"wiring", "serving", "cancelling", "closing"} => client
  /\ loop # "off" => stage \in {"serving", "cancelling"}

\* The vault has the key the environment and the key file give; a value moved
\* from the file to the environment is still in the file.
KeyInPlace ==
  /\ stage \in Up => vault = KeyOf(env) /\ vault \in MasterKeys
  /\ stage = "writing" => env = Unset /\ file = Empty
  /\ env \in FileKeys => file = env

\* While the master key is left alone nothing is encrypted with another one.
OneKey == steady => sealed \subseteq {KeyOf(env)}

StartupInv == TypeOK /\ Resources /\ KeyInPlace /\ KeptOnDisk /\ OneKey

\* The first start finds no key file and no rows.
LEMMA InitInv == Init => StartupInv
  BY KeysAssumption, ColumnsAssumption
  DEF Init, StartupInv, TypeOK, Resources, KeyInPlace, KeptOnDisk, OneKey, Envs,
      MasterKeys, Complete, Stages, Up, Unset, Invalid, Empty

\* Starting: the key is resolved, and written before it is used.
LEMMA ResolveStep ==
  ASSUME StartupInv, ResolveEnv \/ ResolveFile \/ Truncate \/ WriteFile
  PROVE  StartupInv'
  <1> USE KeysAssumption DEF StartupInv, TypeOK, Resources, KeyInPlace, KeptOnDisk, OneKey,
          KeyOf, Envs, MasterKeys, Stages, Up, Unset, Invalid, Empty
  <1>1. CASE ResolveEnv
    BY <1>1 DEF ResolveEnv, Vaulted
  <1>2. CASE ResolveFile
    BY <1>2 DEF ResolveFile, Vaulted
  <1>3. CASE Truncate
    <2>1. sealed \cap FileKeys = {}
      BY <1>3 DEF Truncate
    <2>2. steady => sealed = {}
      BY <1>3 DEF Truncate
    <2> QED
      BY <1>3, <2>1, <2>2 DEF Truncate
  <1>4. CASE WriteFile
    <2>1. sealed \cap FileKeys = {} /\ (steady => sealed = {})
      BY <1>4 DEF WriteFile
    <2> QED
      BY <1>4, <2>1 DEF WriteFile, Vaulted, Generated
  <1> QED
    BY <1>1, <1>2, <1>3, <1>4

\* The rest of the way up: the schema is complete before anything is wired.
LEMMA UpStep ==
  ASSUME StartupInv,
         \/ InitEngine \/ FindMissing \/ (\E column \in Columns : AddColumn(column))
         \/ MigrationDone \/ Refuse \/ Serve
  PROVE  StartupInv'
  <1> USE DEF StartupInv, TypeOK, Resources, KeyInPlace, KeptOnDisk, OneKey,
          KeyOf, Stages, Up, disk, memory, Gone
  <1>1. CASE InitEngine
    BY <1>1 DEF InitEngine, Complete
  <1>2. ASSUME NEW column \in Columns, AddColumn(column)
        PROVE  StartupInv'
    <2>1. stage = "altering" /\ schema \union missing = Complete
      BY <1>2 DEF AddColumn
    <2>2. schema' \union missing' = Complete /\ schema' \subseteq Complete /\ missing' \subseteq Columns
      BY <1>2, <2>1 DEF AddColumn
    <2>3. schema # {}
      BY <1>2, <2>1, ColumnsAssumption DEF Complete
    <2> QED
      BY <1>2, <2>1, <2>2, <2>3 DEF AddColumn
  <1>3. CASE MigrationDone
    BY <1>3 DEF MigrationDone
  <1>6. CASE FindMissing
    BY <1>6 DEF FindMissing, Complete
  <1>4. CASE Refuse
    BY <1>4 DEF Refuse
  <1>5. CASE Serve
    BY <1>5 DEF Serve
  <1> QED
    BY <1>1, <1>2, <1>3, <1>4, <1>5, <1>6

\* Serving and stopping.
LEMMA DownStep ==
  ASSUME StartupInv,
         \/ CreateKey \/ (\E key \in MasterKeys : DeleteKeys(key))
         \/ CycleBegins \/ CycleEnds \/ ShutDown \/ LoopOver \/ CloseClient
         \/ DisposeEngine \/ Crash
  PROVE  StartupInv'
  <1> USE DEF StartupInv, TypeOK, Resources, KeyInPlace, KeptOnDisk, OneKey,
          KeyOf, Stages, Up, disk, memory, Gone
  <1>1. CASE CreateKey
    BY <1>1 DEF CreateKey
  <1>2. ASSUME NEW key \in MasterKeys, DeleteKeys(key)
        PROVE  StartupInv'
    BY <1>2 DEF DeleteKeys
  <1>3. CASE CycleBegins \/ CycleEnds
    BY <1>3 DEF CycleBegins, CycleEnds
  <1>4. CASE ShutDown
    BY <1>4 DEF ShutDown
  <1>5. CASE LoopOver
    BY <1>5 DEF LoopOver
  <1>6. CASE CloseClient
    BY <1>6 DEF CloseClient
  <1>7. CASE DisposeEngine
    BY <1>7 DEF DisposeEngine
  <1>8. CASE Crash
    BY <1>8 DEF Crash
  <1> QED
    BY <1>1, <1>2, <1>3, <1>4, <1>5, <1>6, <1>7, <1>8

\* The operator's edits between two runs of the process.
LEMMA EditStep ==
  ASSUME StartupInv, NEW e \in Envs, SetEnv(e)
  PROVE  StartupInv'
  <1> USE DEF StartupInv, TypeOK, Resources, KeyInPlace, KeptOnDisk, OneKey, KeyOf,
          SetEnv, Up, disk, memory
  <1>1. TypeOK' /\ Resources' /\ KeptOnDisk'
    OBVIOUS
  <1>2. KeyInPlace'
    OBVIOUS
  <1>3. OneKey'
    <2>1. CASE sealed = {}
      BY <2>1
    <2>2. CASE steady /\ KeyOf(e) = KeyOf(env)
      BY <2>2
    <2> QED
      BY <2>1, <2>2
  <1> QED
    BY <1>1, <1>2, <1>3

\* The invariant of every reachable state.
THEOREM StartupInvariant == Spec => []StartupInv
  <1>1. StartupInv /\ [Next]_vars => StartupInv'
    <2> SUFFICES ASSUME StartupInv, [Next]_vars
                 PROVE  StartupInv'
      OBVIOUS
    <2>1. CASE UNCHANGED vars
      BY <2>1 DEF StartupInv, TypeOK, Resources, KeyInPlace, KeptOnDisk, OneKey, KeyOf,
                  vars, disk, memory
    <2>2. CASE ResolveInvalid
      BY <2>1, <2>2 DEF ResolveInvalid
    <2> QED
      BY <2>1, <2>2, ResolveStep, UpStep, DownStep, EditStep DEF Next
  <1> QED
    BY InitInv, <1>1, PTL DEF Spec

\* Every variable of the lifespan keeps its type.
THEOREM StartupTypes == Spec => []TypeOK
  BY StartupInvariant, PTL DEF StartupInv

\* A generated key that rows are encrypted with is in the key file, whatever
\* was killed when: _write_master_key_to_file comes before the first use.
THEOREM GeneratedKeysKept == Spec => []KeptOnDisk
  BY StartupInvariant, PTL DEF StartupInv

\* While nobody sets another master key, every start can decrypt every row.
THEOREM RowsReadable == Spec => []AllReadable
  <1>1. StartupInv => AllReadable
    BY DEF StartupInv, OneKey, KeyInPlace, AllReadable
  <1> QED
    BY StartupInvariant, <1>1, PTL

\* _ensure_usage_columns finishes what an interrupted start left undone: the columns
\* it found missing when it looked are all that the table lacks, and it leaves none.
THEOREM SchemaComplete == Spec => []Migrated
  <1>1. StartupInv => Migrated
    BY DEF StartupInv, Resources, Migrated
  <1> QED
    BY StartupInvariant, <1>1, PTL

\* The refresh task lives inside the lives of the engine and the HTTP client.
THEOREM LoopInsideLifespan == Spec => []LoopHasResources
  <1>1. StartupInv => LoopHasResources
    BY DEF StartupInv, Resources, LoopHasResources
  <1> QED
    BY StartupInvariant, <1>1, PTL
=============================================================================
