------------------------------- MODULE Startup -------------------------------
(***************************************************************************)
(* The lifespan of the process: main.py from its first statement to its    *)
(* last, with the master key of services/vault.py and the schema of        *)
(* db/session.py.  The process may be killed between any two steps; the    *)
(* key file, the schema and the rows stay.                                 *)
(*                                                                         *)
(* Stored API keys are encrypted.  Of a row all that matters here is the   *)
(* master key it was encrypted with, and of a master key which one it is.  *)
(***************************************************************************)
EXTENDS Naturals

CONSTANTS EnvKeys,    \* values OLLAMA_PROXY_MASTER_KEY may be given
          FileKeys,   \* keys Fernet.generate_key may return
          Columns     \* _USAGE_COLUMNS, added to tables of earlier releases

Unset   == "unset"    \* no environment variable, no key file, no vault
Invalid == "invalid"  \* set, but no Fernet key
Empty   == "empty"    \* a key file without contents
Base    == "id"       \* stands for the columns every release has

ASSUME KeysAssumption ==
  /\ EnvKeys \cap FileKeys = {}
  /\ {Unset, Invalid, Empty} \cap (EnvKeys \union FileKeys) = {}
ASSUME ColumnsAssumption == Base \notin Columns

VARIABLES
  env,      \* the environment variable of the next start
  file,     \* .master_key beside the database
  schema,   \* the columns of api_keys, none without the table
  sealed,   \* the master keys stored rows are encrypted with
  stage,    \* how far the lifespan has come
  vault,    \* _vault_override
  engine,   \* the database engine exists
  client,   \* the HTTP client is open
  loop,     \* the usage refresh task
  missing,  \* `missing` of _ensure_usage_columns: the columns still to add
  steady    \* history: no other master key has been in force since rows are stored

disk     == <<file, schema, sealed>>
memory   == <<stage, vault, engine, client, loop, missing>>
vars     == <<env, disk, memory, steady>>

MasterKeys == EnvKeys \union FileKeys
Complete == Columns \union {Base}
Envs   == MasterKeys \union {Unset, Invalid}
Stages == {"down", "writing", "vaulted", "migrating", "altering", "wiring",
           "serving", "cancelling", "closing", "disposing"}

Init ==
  /\ env \in EnvKeys \union {Unset, Invalid}
  /\ file = Unset
  /\ schema \in {{}} \union {old \union {Base} : old \in SUBSET Columns}
  /\ sealed = {}
  /\ stage = "down" /\ vault = Unset
  /\ engine = FALSE /\ client = FALSE /\ loop = "off" /\ missing = {}
  /\ steady = TRUE

\* The process is gone, and its memory with it.
Gone ==
  /\ stage' = "down" /\ vault' = Unset
  /\ engine' = FALSE /\ client' = FALSE /\ loop' = "off" /\ missing' = {}

(***************************************************************************)
(* resolve_master_key                                                      *)
(***************************************************************************)

Vaulted(key) ==
  /\ stage' = "vaulted"
  /\ vault' = key
  /\ UNCHANGED <<env, schema, sealed, engine, client, loop, missing, steady>>

ResolveEnv ==
  /\ stage = "down" /\ env \in MasterKeys
  /\ Vaulted(env)
  /\ UNCHANGED file

\* A RuntimeError, and the process does not come up.
ResolveInvalid ==
  /\ stage = "down" /\ env = Invalid
  /\ UNCHANGED vars

\* (Mutant of ResolveFile: whatever is in the file is taken for a key.)
ResolveFileEmpty ==
  /\ stage = "down" /\ env = Unset /\ file # Unset
  /\ Vaulted(file)
  /\ UNCHANGED file

ResolveFile ==
  /\ stage = "down" /\ env = Unset /\ file \in FileKeys
  /\ Vaulted(file)
  /\ UNCHANGED file

\* (Mutant of Truncate: a key file that is there is written again.)
TruncateAlways ==
  /\ stage = "down" /\ env = Unset
  /\ file' = Empty
  /\ stage' = "writing"
  /\ UNCHANGED <<env, schema, sealed, vault, engine, client, loop, missing, steady>>

\* No file, or an empty one: a key is generated and the file opened for writing.
Truncate ==
  /\ stage = "down" /\ env = Unset /\ file \in {Unset, Empty}
  /\ file' = Empty
  /\ stage' = "writing"
  /\ UNCHANGED <<env, schema, sealed, vault, engine, client, loop, missing, steady>>

\* A generated key is none that anything refers to.
Generated(key) == key \in FileKeys \ (sealed \union {file})

\* (Mutant of WriteFile: the contents reach the disk some other time.)
WriteFileLater ==
  /\ stage = "writing"
  /\ \E key \in FileKeys : Generated(key) /\ Vaulted(key)
  /\ UNCHANGED file

\* The key is in the file before resolve_master_key returns it.
WriteFile ==
  /\ stage = "writing"
  /\ \E key \in FileKeys : Generated(key) /\ Vaulted(key) /\ file' = key

(***************************************************************************)
(* init_engine, and the rest of the way up                                 *)
(***************************************************************************)

\* create_all makes a table with every column, or finds one.
InitEngine ==
  /\ stage = "vaulted"
  /\ schema' = IF schema = {} THEN Complete ELSE schema
  /\ engine' = TRUE
  /\ stage' = "migrating"
  /\ UNCHANGED <<env, file, sealed, vault, client, loop, missing, steady>>

\* (Mutant of FindMissing: a table that has one of the columns has all of them.)
FindMissingAny ==
  /\ stage = "migrating"
  /\ missing' = IF schema \cap Columns # {} THEN {} ELSE Columns
  /\ stage' = "altering"
  /\ UNCHANGED <<env, disk, vault, engine, client, loop, steady>>

\* _ensure_usage_columns reads once which columns the table lacks,
FindMissing ==
  /\ stage = "migrating"
  /\ missing' = Columns \ schema
  /\ stage' = "altering"
  /\ UNCHANGED <<env, disk, vault, engine, client, loop, steady>>

\* and goes through them: every ALTER TABLE lasts by itself.
AddColumn(column) ==
  /\ column \in missing
  /\ missing' = missing \ {column}
  /\ schema' = schema \union {column}
  /\ UNCHANGED <<env, file, sealed, stage, vault, engine, client, loop, steady>>

\* It returns, and the HTTP client, the caches and the services follow.
MigrationDone ==
  /\ stage = "altering" /\ missing = {}
  /\ client' = TRUE
  /\ stage' = "wiring"
  /\ UNCHANGED <<env, disk, vault, engine, loop, missing, steady>>

\* A dashboard without password or secret: a RuntimeError ends the process.
Refuse ==
  /\ stage = "wiring"
  /\ Gone
  /\ UNCHANGED <<env, disk, steady>>

\* The refresh task, if there is one, is created last.
Serve ==
  /\ stage = "wiring"
  /\ stage' = "serving"
  /\ loop' \in {"off", "asleep"}
  /\ UNCHANGED <<env, disk, vault, engine, client, missing, steady>>

(***************************************************************************)
(* While it serves                                                         *)
(***************************************************************************)

CreateKey ==
  /\ stage = "serving"
  /\ sealed' = sealed \union {vault}
  /\ UNCHANGED <<env, file, schema, memory, steady>>

\* The last row encrypted with a key goes.
DeleteKeys(key) ==
  /\ stage = "serving"
  /\ key \in sealed
  /\ sealed' = sealed \ {key}
  /\ UNCHANGED <<env, file, schema, memory, steady>>

CycleBegins ==
  /\ loop = "asleep"
  /\ loop' = "cycle"
  /\ UNCHANGED <<env, disk, stage, vault, engine, client, missing, steady>>

CycleEnds ==
  /\ loop = "cycle"
  /\ loop' = "asleep"
  /\ UNCHANGED <<env, disk, stage, vault, engine, client, missing, steady>>

(***************************************************************************)
(* The way down                                                            *)
(***************************************************************************)

\* Requests are over: refresh_task.cancel(), if there is a task.
ShutDown ==
  /\ stage = "serving"
  /\ stage' = "cancelling"
  /\ UNCHANGED <<env, disk, vault, engine, client, loop, missing, steady>>

\* (Mutant of LoopOver: cancelled but not awaited.)
LoopCancelled ==
  /\ stage = "cancelling"
  /\ stage' = "closing"
  /\ UNCHANGED <<env, disk, vault, engine, client, loop, missing, steady>>

\* `await refresh_task`: the cancellation reaches it wherever it is suspended.
LoopOver ==
  /\ stage = "cancelling"
  /\ loop' = "off"
  /\ stage' = "closing"
  /\ UNCHANGED <<env, disk, vault, engine, client, missing, steady>>

CloseClient ==
  /\ stage = "closing"
  /\ client' = FALSE
  /\ stage' = "disposing"
  /\ UNCHANGED <<env, disk, vault, engine, loop, missing, steady>>

\* dispose_engine, and the process exits.
DisposeEngine ==
  /\ stage = "disposing"
  /\ Gone
  /\ UNCHANGED <<env, disk, steady>>

\* The process is killed.
Crash ==
  /\ stage # "down"
  /\ Gone
  /\ UNCHANGED <<env, disk, steady>>

\* The master key the next start resolves to.
KeyOf(e) == IF e = Unset THEN file ELSE e

\* The operator edits the environment of the next start, and may move the
\* contents of the key file there.
SetEnv(e) ==
  /\ stage = "down" /\ e # env
  /\ e \in FileKeys => e = file
  /\ env' = e
  /\ steady' = (sealed = {} \/ (steady /\ KeyOf(e) = KeyOf(env)))
  /\ UNCHANGED <<disk, memory>>

Next ==
  \/ ResolveEnv \/ ResolveInvalid \/ ResolveFile \/ Truncate \/ WriteFile
  \/ InitEngine \/ FindMissing \/ (\E column \in Columns : AddColumn(column)) \/ MigrationDone
  \/ Refuse \/ Serve
  \/ CreateKey \/ (\E key \in MasterKeys : DeleteKeys(key))
  \/ CycleBegins \/ CycleEnds
  \/ ShutDown \/ LoopOver \/ CloseClient \/ DisposeEngine
  \/ Crash \/ (\E e \in Envs : SetEnv(e))

Spec == Init /\ [][Next]_vars

(***************************************************************************)
(* Properties                                                              *)
(***************************************************************************)

TypeOK ==
  /\ env \in Envs
  /\ file \in FileKeys \union {Unset, Empty}
  /\ schema \subseteq Complete
  /\ sealed \subseteq MasterKeys
  /\ stage \in Stages
  /\ vault \in MasterKeys \union {Unset}
  /\ engine \in BOOLEAN /\ client \in BOOLEAN
  /\ loop \in {"off", "asleep", "cycle"}
  /\ missing \subseteq Columns
  /\ steady \in BOOLEAN

Up == {"vaulted", "migrating", "altering", "wiring", "serving", "cancelling", "closing", "disposing"}

\* A generated key that anything was encrypted with is in the key file, wherever
\* the process was killed and whatever the environment said in between: taking
\* the variable away brings those rows back.
KeptOnDisk == \A key \in sealed \cap FileKeys : file = key

\* While the environment does not change the master key, every stored key can be
\* decrypted after every start, also when a start was killed between creating
\* the key file and writing it, and when the file's key moves to the environment.
AllReadable == steady /\ stage \in Up => sealed \subseteq {vault}

\* Whatever release made the table and however often its migration was
\* interrupted, requests and the loop find every column.
Migrated == stage \in {"wiring", "serving", "cancelling"} => schema = Complete

\* "Started AFTER the engine so the very first iteration has a real DB session":
\* the loop runs only between the opening and the closing of what it uses.
LoopHasResources == loop # "off" => engine /\ client /\ schema = Complete
=============================================================================
