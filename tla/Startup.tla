------------------------------- MODULE Startup -------------------------------
(***************************************************************************)
(* The start of `hungerloop run`: the command opens the database, which     *)
(* migrates it, and only then asks for the task's lock.  Nothing guards the *)
(* database itself; a run whose open fails ends before it has seen a lock.  *)
(***************************************************************************)
EXTENDS TaskLock

CONSTANTS Latest, Rerunnable, Initial

ASSUME DatabaseAssumption ==
  Latest \in Nat /\ Initial \in 0..Latest /\ Rerunnable \subseteq 1..Latest

VARIABLES version, schema, step, next

DB == INSTANCE Migrator WITH Openers <- Runs

dbVars == <<version, schema, step, next>>

StartupInit == Init /\ DB!Init

(* SQLiteRepository.open, a pid in hand and no lock yet.                    *)
Opening(r) == pc[r] = "select" /\ step[r] # "open"

Open(r) ==
  /\ Opening(r)
  /\ DB!Look(r) \/ DB!Apply(r)
  /\ UNCHANGED vars

OthersAtWork(r) == \E s \in Runs \ {r} : pc[s] \in Live /\ step[s] # "shut"

(* `hungerloop` exits with 5. *)
OpenFails(r) ==
  /\ Opening(r)
  /\ DB!Fails(r, OthersAtWork(r))
  /\ Crash(r)

(* The rest of a run is TaskLock's, on a database that is open.             *)
Proceed ==
  /\ Next
  /\ \A r \in Runs : pc[r] = "select" /\ pc'[r] = "decide" => step[r] = "open"
  /\ UNCHANGED dbVars

StartupNext ==
  \/ \E r \in Runs : Open(r) \/ OpenFails(r)
  \/ Proceed

StartupSpec == StartupInit /\ [][StartupNext]_<<vars, dbVars>>

-----------------------------------------------------------------------------
(* The database stays one the next command can open, with runs that race for *)
(* it, fail and are killed between two migrations (SQLiteMigrator).         *)
NeverStuck == DB!NeverStuck

(* "Migrations are forward-only": SQLiteMigrator never lowers a version.     *)
ForwardOnly == DB!ForwardOnly
=============================================================================
