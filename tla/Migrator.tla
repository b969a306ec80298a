------------------------------ MODULE Migrator ------------------------------
(***************************************************************************)
(* SQLiteMigrator: how a process that opens the database brings it to the  *)
(* latest version.  Every command opens it for writing.  The version is    *)
(* read first, outside any transaction, and the migrations above it are    *)
(* applied one transaction each, whatever another process that opened the  *)
(* database in between has done.  The backups, which nothing reads back,   *)
(* and the MIGRATION_* events are left out.                                *)
(***************************************************************************)
EXTENDS Naturals

CONSTANTS
  Openers,     \* the processes that open the database
  Latest,      \* LATEST_VERSION
  Rerunnable,  \* the migrations that succeed also where they have been applied
  Initial      \* user_version of the database before the first open

VARIABLES
  version,  \* PRAGMA user_version
  schema,   \* the migrations whose statements the file has had
  step,     \* where each opener is
  next      \* the pending migration each opener is at

TypeOK ==
  /\ version \in Initial..Latest /\ schema \subseteq 1..Latest
  /\ step \in [Openers -> {"shut", "migrating", "open", "failed"}]
  /\ next \in [Openers -> 0..Latest + 1]

Init ==
  /\ version = Initial /\ schema = 1..Initial
  /\ step = [o \in Openers |-> "shut"] /\ next = [o \in Openers |-> 0]

(* ensure_current; the pending migrations are those above the version read. *)
Look(o) ==
  /\ step[o] = "shut"
  /\ step' = [step EXCEPT ![o] = IF version = Latest THEN "open" ELSE "migrating"]
  /\ next' = [next EXCEPT ![o] = version + 1]
  /\ UNCHANGED <<version, schema>>

(* A table or a column that is there already makes a migration fail, unless *)
(* it asks for it with IF NOT EXISTS or rebuilds it.                        *)
Applies(v) == v \notin schema \/ v \in Rerunnable

(* Mutant: the statements commit one by one, the version comes last.        *)
ApplyTorn(o) ==
  /\ step[o] = "migrating" /\ Applies(next[o])
  /\ schema' = schema \cup {next[o]}
  /\ \/ /\ version' = next[o]
        /\ next' = [next EXCEPT ![o] = @ + 1]
        /\ step' = [step EXCEPT ![o] = IF next[o] = Latest THEN "open" ELSE @]
     \/ UNCHANGED <<version, next>> /\ step' = [step EXCEPT ![o] = "failed"]

(* The statements of a file and its user_version, in one transaction.       *)
Apply(o) ==
  /\ step[o] = "migrating" /\ Applies(next[o])
  /\ schema' = schema \cup {next[o]}
  /\ version' = next[o]
  /\ next' = [next EXCEPT ![o] = @ + 1]
  /\ step' = [step EXCEPT ![o] = IF next[o] = Latest THEN "open" ELSE @]

(* MigrationFailedError: a statement fails, or another process keeps the     *)
(* database locked longer than the busy timeout.  The command ends.         *)
Fails(o, busy) ==
  /\ step[o] = "migrating" /\ (busy \/ ~Applies(next[o]))
  /\ step' = [step EXCEPT ![o] = "failed"]
  /\ UNCHANGED <<version, schema, next>>

-----------------------------------------------------------------------------
(* However the opens of several processes and their ends overlap, the next   *)
(* open finds only migrations it can apply: a database whose version falls  *)
(* behind a migration that cannot be run twice is lost to every command.    *)
NeverStuck == \A v \in (version + 1)..Latest : Applies(v)

(* Migrations are forward-only.                                             *)
ForwardOnly == [][version' >= version]_version
=============================================================================
