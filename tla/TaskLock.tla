------------------------------ MODULE TaskLock ------------------------------
(***************************************************************************)
(* The row of `task_locks` that lets one `hungerloop run` own a task, and  *)
(* the runs that compete for it.  Every statement of acquire_task_lock is  *)
(* its own autocommit, so the SELECT that decides and the INSERT or UPDATE *)
(* that takes the row are two steps other processes can come between.  A   *)
(* run killed while it holds the row leaves it behind; a later process may *)
(* get the same pid.                                                       *)
(***************************************************************************)
EXTENDS Naturals, FiniteSets

CONSTANTS
  Runs,        \* the invocations of `hungerloop run`; each has its own owner token
  Pids,        \* the host:pid pairs the operating system hands out
  NoRun,       \* no row in task_locks
  NoPid,       \* a run that has not been started
  StaleAfter,  \* the stale threshold, in ticks of the clock
  StealWhen    \* when an operator passes --steal-lock: "stale", "dead"

ASSUME NoRunAssumption == NoRun \notin Runs
ASSUME NoPidAssumption == NoPid \notin Pids
ASSUME StaleAssumption == StaleAfter \in Nat
ASSUME StealAssumption == StealWhen \in {"stale", "dead"}

VARIABLES
  lock,     \* task_locks.owner, NoRun when there is no row
  age,      \* the time since task_locks.locked_at, up to StaleAfter
  pc,       \* where each run is
  pid,      \* the host:pid part of each run's owner token
  flag,     \* the run was given --steal-lock
  seen,     \* the row the run's SELECT returned
  outcome   \* what acquire_task_lock answered

vars == <<lock, age, pc, pid, flag, seen, outcome>>

Live == {"select", "decide", "running"}
Places == Live \cup {"new", "done", "refused", "dead"}
Outcomes == {"none", "acquired", "reentrant", "stolen",
             "held_live", "held_stale", "integrity_error"}

TypeOK ==
  /\ lock \in Runs \cup {NoRun}
  /\ age \in 0..StaleAfter
  /\ pc \in [Runs -> Places]
  /\ pid \in [Runs -> Pids \cup {NoPid}]
  /\ flag \in [Runs -> BOOLEAN]
  /\ seen \in [Runs -> Runs \cup {NoRun}]
  /\ outcome \in [Runs -> Outcomes]

Init ==
  /\ lock = NoRun
  /\ age = 0
  /\ pc = [r \in Runs |-> "new"]
  /\ pid = [r \in Runs |-> NoPid]
  /\ flag = [r \in Runs |-> FALSE]
  /\ seen = [r \in Runs |-> NoRun]
  /\ outcome = [r \in Runs |-> "none"]

-----------------------------------------------------------------------------
(* The operator's discipline: when a run is started with --steal-lock.  The  *)
(* code accepts the flag at any time.                                        *)
MaySteal ==
  \/ StealWhen = "stale" /\ lock # NoRun /\ age = StaleAfter
  \/ StealWhen = "dead"  /\ lock # NoRun /\ pc[lock] = "dead"

(* The operating system gives a new process a pid no live process has. *)
Start(r, p, steal) ==
  /\ pc[r] = "new"
  /\ \A s \in Runs : pc[s] \in Live => pid[s] # p
  /\ steal => MaySteal
  /\ pc' = [pc EXCEPT ![r] = "select"]
  /\ pid' = [pid EXCEPT ![r] = p]
  /\ flag' = [flag EXCEPT ![r] = steal]
  /\ UNCHANGED <<lock, age, seen, outcome>>

Select(r) ==
  /\ pc[r] = "select"
  /\ seen' = [seen EXCEPT ![r] = lock]
  /\ pc' = [pc EXCEPT ![r] = "decide"]
  /\ UNCHANGED <<lock, age, pid, flag, outcome>>

Answer(r, o) ==
  /\ outcome' = [outcome EXCEPT ![r] = o]
  /\ pc' = [pc EXCEPT ![r] =
              IF o \in {"acquired", "reentrant", "stolen"} THEN "running" ELSE "refused"]

Deciding(r) == pc[r] = "decide" /\ UNCHANGED <<pid, flag, seen>>

(* Mutant: an upsert in place of the INSERT that the primary key refuses. *)
InsertUpsert(r) ==
  /\ Deciding(r)
  /\ seen[r] = NoRun
  /\ lock' = r
  /\ age' = 0
  /\ Answer(r, "acquired")

(* task_id is the primary key: the second of two INSERTs raises. *)
Insert(r) ==
  /\ Deciding(r)
  /\ seen[r] = NoRun
  /\ IF lock = NoRun
     THEN lock' = r /\ age' = 0 /\ Answer(r, "acquired")
     ELSE UNCHANGED <<lock, age>> /\ Answer(r, "integrity_error")

SameHostPid(r, s) == pid[r] = pid[s]

(* The row keeps the other token, so the release at the end deletes nothing. *)
Reenter(r) ==
  /\ Deciding(r)
  /\ seen[r] # NoRun
  /\ SameHostPid(r, seen[r])
  /\ Answer(r, "reentrant")
  /\ UNCHANGED <<lock, age>>

(* The age was read with the owner; the two answers differ only in the      *)
(* message, so the row's age at the decision stands for the one read.       *)
Refuse(r) ==
  /\ Deciding(r)
  /\ seen[r] # NoRun
  /\ ~SameHostPid(r, seen[r])
  /\ ~flag[r]
  /\ Answer(r, IF age = StaleAfter THEN "held_stale" ELSE "held_live")
  /\ UNCHANGED <<lock, age>>

(* The UPDATE names only the task: it takes whatever row is there now, or no *)
(* row when the holder released meanwhile, and answers "stolen" either way.  *)
Steal(r) ==
  /\ Deciding(r)
  /\ seen[r] # NoRun
  /\ ~SameHostPid(r, seen[r])
  /\ flag[r]
  /\ lock' = IF lock = NoRun THEN NoRun ELSE r
  /\ age' = IF lock = NoRun THEN age ELSE 0
  /\ Answer(r, "stolen")

(* Mutants: DELETE without the owner in its WHERE; no release at all. *)
ReleaseAny(r) ==
  /\ pc[r] = "running"
  /\ lock' = NoRun
  /\ age' = 0
  /\ pc' = [pc EXCEPT ![r] = "done"]
  /\ UNCHANGED <<pid, flag, seen, outcome>>

ReleaseNothing(r) ==
  /\ pc[r] = "running"
  /\ pc' = [pc EXCEPT ![r] = "done"]
  /\ UNCHANGED <<lock, age, pid, flag, seen, outcome>>

(* release_task_lock in the finally of run: only the run's own row. *)
Release(r) ==
  /\ pc[r] = "running"
  /\ lock' = IF lock = r THEN NoRun ELSE lock
  /\ age' = IF lock = r THEN 0 ELSE age
  /\ pc' = [pc EXCEPT ![r] = "done"]
  /\ UNCHANGED <<pid, flag, seen, outcome>>

Crash(r) ==
  /\ pc[r] \in Live
  /\ pc' = [pc EXCEPT ![r] = "dead"]
  /\ UNCHANGED <<lock, age, pid, flag, seen, outcome>>

(* Nothing refreshes locked_at: the row ages while its run is at work. *)
Tick ==
  /\ lock # NoRun
  /\ age < StaleAfter
  /\ age' = age + 1
  /\ UNCHANGED <<lock, pc, pid, flag, seen, outcome>>

Next ==
  \/ Tick
  \/ \E r \in Runs :
       \/ \E p \in Pids, steal \in BOOLEAN : Start(r, p, steal)
       \/ Select(r)
       \/ Insert(r)
       \/ Reenter(r)
       \/ Refuse(r)
       \/ Steal(r)
       \/ Release(r)
       \/ Crash(r)

Spec == Init /\ [][Next]_vars

-----------------------------------------------------------------------------
Running == {r \in Runs : pc[r] = "running"}

(* At most one run drives the task, as README says of the table.            *)
Exclusive == \A r, s \in Running : r = s

NothingStolen == \A r \in Runs : outcome[r] # "stolen"

(* Until somebody uses --steal-lock at most one run drives the task, in     *)
(* spite of crashes, of two processes inserting at once and of the          *)
(* reentrant answer a reused pid gets from a dead run's row.                *)
ExclusiveUntilStolen == NothingStolen => Exclusive

(* A row never outlives a run that ended by itself: its owner is at work or *)
(* was killed, so a row with a finished owner cannot lock the task for ever.*)
RowOwnerIsRunningOrDead == lock # NoRun => pc[lock] \in {"running", "dead"}

(* A run at work loses its row only in the step in which another run is     *)
(* told "stolen" or in which it releases it itself.                         *)
HolderLosesRowOnlyByTheft ==
  [][\A r \in Runs : (lock = r /\ pc[r] = "running" /\ lock' # r)
       => \/ pc'[r] = "done"
          \/ \E s \in Runs : outcome[s] # outcome'[s] /\ outcome'[s] = "stolen"]_vars
=============================================================================
