------------------------------ MODULE LoopCore ------------------------------
(***************************************************************************)
(* One task driven by the loop orchestrator: tick, plan, work, validate,   *)
(* commit, credit the ledger, count stagnation, settle the refactor        *)
(* transaction, until a stop; and the runs that resume it.  A step of the  *)
(* model is a stretch of the code that ends at a durable write, so that a  *)
(* process killed between two of them (Crash), or an exception that ends   *)
(* the run (Fail), leaves what is on disk there.  The task has no mission, *)
(* decays by LOOP_COUNT and does no spend-budget refinement.               *)
(***************************************************************************)
EXTENDS CheckGate

CONSTANTS
  Seeded,          \* the items the requirement compiler seeds; workers discover the rest
  Tier,            \* refinement_tier of each item
  Priority,        \* priority of each item
  Flaky,           \* checks whose result does not depend on the files alone
  MaxLoops,        \* policy.decay_duration_seconds under LOOP_COUNT
  MaxItemFailures, \* StagnationDetector.max_item_failures
  MaxStreak,       \* policy.max_global_no_progress_loops
  Refactoring,     \* policy.refactor_transactions_enabled
  DeadlineLoops,   \* policy.refactor_deadline_loops
  MaxDeclared,     \* policy.max_declared_regressions
  MinNewly,        \* policy.refactor_auto_open_min_newly; auto-open is enabled
  DiskFails,       \* a restore of best/ from a snapshot may fail half way
  RefillLoops,     \* the amount of a --refill
  MaxRuns,         \* bound: the runs an operator starts
  NoItem, NoTxn

ASSUME SeededAssumption == Seeded \subseteq Items /\ NoItem \notin Items
ASSUME RankAssumption == Tier \in [Items -> Nat] /\ Priority \in [Items -> Nat]
ASSUME FlakyAssumption == Flaky \subseteq Checks
ASSUME BoundsAssumption ==
  /\ {MaxLoops, MaxItemFailures, MaxStreak, DeadlineLoops, MaxDeclared, MinNewly,
      RefillLoops, MaxRuns} \subseteq Nat \ {0}
  /\ {Refactoring, DiskFails} \subseteq BOOLEAN
ASSUME ItemsHaveChecks == \A i \in Items : ChecksOf(i) # {}

VARIABLES
  (* durable: the repository and best/ *)
  accepted,   \* best_state.accepted_check_keys
  best,       \* the checks that best/files satisfies
  lost,  \* best/ was lost to a kill between two renames, nothing recorded since
  status,     \* status of each ledger item, "absent" before it is injected
  gap,        \* gap_score of each item, in checks
  fails,      \* consecutive_failure_count of each item
  streak,     \* the task's no-progress streak
  loops,      \* clock.loop_count
  loopId,     \* the last loop id in loop_plans and loop_traces
  paused,     \* clock.frozen
  overspent,  \* the consumed cost has reached policy.max_total_cost_usd
  txn,        \* the open refactor transaction
  brokenBy,   \* regressed_check_keys of the last candidate's trace, if rejected
  last,       \* the last saved stop reason
  (* of the running process *)
  pc, item, cand, report, committed, verdict, runs

ledgerVars == <<status, gap, fails>>
clockVars == <<loops, paused, overspent>>
memory == <<item, cand, report, committed>>
vars == <<accepted, best, lost, status, gap, fails, streak, loops, loopId, paused, overspent,
          txn, brokenBy, last, pc, item, cand, report, committed, verdict, runs>>

Statuses == {"absent", "open", "working", "blocked", "satisfied"}
StopReasons == {"DONE", "HUNGER_EXPIRED", "BLOCKED", "HUMAN_REQUIRED", "HUMAN_PAUSED",
                "SAFETY_STOP", "ERROR"}
InLoop == {"plan", "work", "commit", "record", "credit", "stagnate", "settle"}
Transactions ==
  [declared : SUBSET Checks, baseline : SUBSET Checks, snapshot : SUBSET Checks,
   deadline : Nat]

TypeOK ==
  /\ accepted \subseteq Checks /\ best \subseteq Checks /\ brokenBy \subseteq Checks
  /\ status \in [Items -> Statuses]
  /\ gap \in [Items -> Nat] /\ fails \in [Items -> Nat]
  /\ streak \in Nat /\ loops \in 0..MaxLoops /\ loopId \in Nat /\ runs \in Nat
  /\ paused \in BOOLEAN /\ overspent \in BOOLEAN
  /\ txn \in Transactions \cup {NoTxn}
  /\ last \in StopReasons \cup {"none"} /\ verdict \in StopReasons \cup {"none"}
  /\ pc \in InLoop \cup {"tick", "stop", "down"}
  /\ item \in Items \cup {NoItem}
  /\ cand \subseteq Checks
  /\ report \in Reports
  /\ committed \in BOOLEAN /\ lost \in BOOLEAN

-----------------------------------------------------------------------------
(* The ledger's predicates.                                                 *)
Ledger == {i \in Items : status[i] # "absent"}
Active == {i \in Ledger : status[i] # "blocked" /\ gap[i] > 0}
Unfinished == {i \in Ledger : status[i] # "satisfied" /\ gap[i] > 0}
AllBlocked == Unfinished # {} /\ \A i \in Unfinished : status[i] = "blocked"
Finished == Unfinished = {}
Total(i) == Cardinality(ChecksOf(i))

NoReport == UnchangedReport({})

Init ==
  /\ accepted = {} /\ best = {} /\ brokenBy = {} /\ lost = FALSE
  /\ status = [i \in Items |-> IF i \in Seeded THEN "open" ELSE "absent"]
  /\ gap = [i \in Items |-> Total(i)]
  /\ fails = [i \in Items |-> 0]
  /\ streak = 0 /\ loops = 0 /\ loopId = 0 /\ runs = 1
  /\ paused = FALSE /\ overspent = FALSE
  /\ txn = NoTxn
  /\ last = "none" /\ verdict = "none"
  /\ pc = "tick"
  /\ item = NoItem /\ cand = {} /\ report = NoReport /\ committed = FALSE

-----------------------------------------------------------------------------
(* Control.  A stop builds its report; the CLI saves it in a later write.   *)
Goto(place) == pc' = place /\ UNCHANGED verdict

Stop(reason) == pc' = "stop" /\ verdict' = reason

Forget ==
  item' = NoItem /\ cand' = {} /\ report' = NoReport /\ committed' = FALSE

(* Mutant: DONE for a ledger without active items.                          *)
StopReasonIdle ==
  IF paused THEN "HUMAN_PAUSED"
  ELSE IF overspent THEN "SAFETY_STOP"
  ELSE IF Active = {} THEN "DONE"
  ELSE IF loops >= MaxLoops THEN "HUNGER_EXPIRED"
  ELSE "none"

(* HungerEngine.tick: the first of the reasons that holds, in this order.   *)
StopReason ==
  IF paused THEN "HUMAN_PAUSED"
  ELSE IF overspent THEN "SAFETY_STOP"
  ELSE IF AllBlocked THEN "BLOCKED"
  ELSE IF loops >= MaxLoops /\ ~Finished THEN "HUNGER_EXPIRED"
  ELSE IF Finished THEN "DONE"
  ELSE "none"

(* Mutant: a frozen task waits for its resume instead of stopping. *)
TickStopWaiting ==
  /\ pc = "tick"
  /\ StopReason \notin {"none", "HUMAN_PAUSED"}
  /\ Stop(StopReason)
  /\ UNCHANGED <<accepted, best, lost, ledgerVars, streak, clockVars, loopId, txn, brokenBy,
                 last, memory, runs>>

TickStop ==
  /\ pc = "tick"
  /\ StopReason # "none"
  /\ Stop(StopReason)
  /\ UNCHANGED <<accepted, best, lost, ledgerVars, streak, clockVars, loopId, txn, brokenBy,
                 last, memory, runs>>

(* A loop that starts costs a unit of budget at once. *)
TickGo ==
  /\ pc = "tick"
  /\ StopReason = "none"
  /\ loops' = loops + 1
  /\ Goto("plan")
  /\ UNCHANGED <<accepted, best, lost, ledgerVars, streak, paused, overspent, loopId, txn,
                 brokenBy, last, memory, runs>>

(* The rule-based planner assigns one item: of the lowest tier, the one of   *)
(* greatest priority * gap_score (gap / Total).                              *)
Urgency(i, j) == Priority[i] * gap[i] * Total(j) >= Priority[j] * gap[j] * Total(i)

Selectable ==
  {i \in Active : \A j \in Active :
     Tier[i] < Tier[j] \/ (Tier[i] = Tier[j] /\ Urgency(i, j))}

Plan ==
  /\ pc = "plan"
  /\ \E i \in Selectable : item' = i
  /\ loopId' = loopId + 1
  /\ Goto("work")
  /\ UNCHANGED <<accepted, best, lost, ledgerVars, streak, clockVars, txn, brokenBy, last,
                 cand, report, committed, runs>>

-----------------------------------------------------------------------------
(* Refactor transactions (ADR-010). *)
Declared == IF Refactoring /\ txn # NoTxn THEN txn.declared ELSE {}

(* The deadline is derived from the opening loop, never supplied.           *)
Opened(keys) ==
  [declared |-> keys, baseline |-> accepted, snapshot |-> best,
   deadline |-> loopId + DeadlineLoops]

MayOpen(keys) ==
  /\ Refactoring
  /\ txn = NoTxn
  /\ keys # {} /\ keys \subseteq accepted
  /\ Cardinality(keys) <= MaxDeclared

Recovered ==
  /\ txn.declared \subseteq accepted
  /\ txn.baseline \subseteq accepted /\ txn.baseline # accepted

(* Mutant: a close rolls back whatever was gained.                           *)
CloseAlwaysRollsBack ==
  \/ /\ txn' = NoTxn
     /\ best' = txn.snapshot /\ accepted' = txn.baseline
  \/ DiskFails /\ best' \in SUBSET Checks /\ UNCHANGED <<accepted, txn>>

(* close: success with net progress, else back to the snapshot.  The files   *)
(* are restored by a delete and a copy before the rows are written; when one *)
(* of them fails the transaction stays open and best/ is whatever is there.  *)
Close ==
  \/ Recovered /\ txn' = NoTxn /\ UNCHANGED <<accepted, best>>
  \/ ~Recovered /\ txn' = NoTxn /\ best' = txn.snapshot /\ accepted' = txn.baseline
  \/ DiskFails /\ Recovered /\ UNCHANGED <<accepted, best, lost, txn>>
  \/ DiskFails /\ ~Recovered /\ best' \in SUBSET Checks /\ UNCHANGED <<accepted, txn>>

-----------------------------------------------------------------------------
(* The worker.  Its handoff items are processed in order, each with its own  *)
(* write.                                                                    *)
Handing == pc = "work" /\ Goto("work")

Blocker(i) ==
  /\ Handing
  /\ i \in Ledger
  /\ status' = [status EXCEPT ![i] = "blocked"]
  /\ UNCHANGED <<accepted, best, lost, gap, fails, streak, clockVars, loopId, txn, brokenBy,
                 last, memory, runs>>

(* A discovered issue becomes an item; one that came as a check proposal the *)
(* gate accepted resets the streak.                                          *)
Discover(i, proposed) ==
  /\ Handing
  /\ status[i] = "absent"
  /\ status' = [status EXCEPT ![i] = "open"]
  /\ streak' = IF proposed THEN 0 ELSE streak
  /\ UNCHANGED <<accepted, best, lost, gap, fails, clockVars, loopId, txn, brokenBy, last,
                 memory, runs>>

WorkerOpens(keys) ==
  /\ Handing
  /\ MayOpen(keys)
  /\ txn' = Opened(keys)
  /\ UNCHANGED <<accepted, best, lost, ledgerVars, streak, clockVars, loopId, brokenBy, last,
                 memory, runs>>

WorkerCloses ==
  /\ Handing
  /\ Refactoring /\ txn # NoTxn
  /\ Close
  /\ UNCHANGED <<lost, ledgerVars, streak, clockVars, loopId, brokenBy, last, memory, runs>>

WorkerNeedsHuman ==
  /\ pc = "work"
  /\ Stop("HUMAN_REQUIRED")
  /\ Forget
  /\ UNCHANGED <<accepted, best, lost, ledgerVars, streak, clockVars, loopId, txn, brokenBy,
                 last, runs>>

(* The cost guard saves the usage, then raises. *)
WorkerOverspends ==
  /\ pc = "work"
  /\ overspent' = TRUE
  /\ Stop("SAFETY_STOP")
  /\ Forget
  /\ UNCHANGED <<accepted, best, lost, ledgerVars, streak, loops, paused, loopId, txn, brokenBy,
                 last, runs>>

-----------------------------------------------------------------------------
(* The worker leaves files that satisfy `files`; a flaky check answers what  *)
(* it likes.                                                                 *)
Validate(files, luck, evidence) ==
  /\ pc = "work"
  /\ cand' = files
  /\ report' = Report(accepted, item, (files \ Flaky) \cup luck, evidence)
  /\ Goto("commit")
  /\ UNCHANGED <<accepted, best, lost, ledgerVars, streak, clockVars, loopId, txn, brokenBy,
                 last, item, committed, runs>>

(* A worker that leaves best/, or a rejected tree it continues outside a      *)
(* transaction, as it found it is not validated.                              *)
LeaveUnchanged ==
  /\ pc = "work"
  /\ best # {} \/ accepted # {} \/ (Continuation /\ txn = NoTxn)
  /\ cand' = best
  /\ report' = UnchangedReport(accepted)
  /\ Goto("commit")
  /\ UNCHANGED <<accepted, best, lost, ledgerVars, streak, clockVars, loopId, txn, brokenBy,
                 last, item, committed, runs>>

(* Inside one database transaction best/ is replaced first; the rows follow. *)
Promote ==
  /\ pc = "commit"
  /\ CanCommit(report, Declared)
  /\ best' = cand
  /\ cand' = {}
  /\ Goto("record")
  /\ UNCHANGED <<accepted, lost, ledgerVars, streak, clockVars, loopId, txn, brokenBy, last,
                 item, report, committed, runs>>

Reject ==
  /\ pc = "commit"
  /\ ~CanCommit(report, Declared)
  /\ cand' = {}
  /\ Goto("credit")
  /\ UNCHANGED <<accepted, best, lost, ledgerVars, streak, clockVars, loopId, txn, brokenBy,
                 last, item, report, committed, runs>>

Record ==
  /\ pc = "record"
  /\ accepted' = report.current
  /\ lost' = FALSE
  /\ committed' = TRUE
  /\ Goto("credit")
  /\ UNCHANGED <<best, ledgerVars, streak, clockVars, loopId, txn, brokenBy, last, item,
                 cand, report, runs>>

-----------------------------------------------------------------------------
(* The ledger. *)
Seen == Effective(report, committed)

NewChecks(i) == {c \in Seen.newly : ItemOf[c] = i}

(* Each newly passed check takes its share off the gap of its item; the       *)
(* satisfied target has none left.                                           *)
GapAfter(i) ==
  IF (i = item /\ Seen.satisfied) \/ gap[i] <= Cardinality(NewChecks(i)) THEN 0
  ELSE gap[i] - Cardinality(NewChecks(i))

Credited == {i \in Ledger : Seen.verdict # "FAIL" /\ NewChecks(i) # {}}

(* HungerUpdateService.apply_validation.  It also moves an item a worker has *)
(* just declared blocked.                                                    *)
Credit ==
  /\ pc = "credit"
  /\ gap' = [i \in Items |-> IF i \in Credited THEN GapAfter(i) ELSE gap[i]]
  /\ status' = [i \in Items |->
                  IF i \notin Credited THEN status[i]
                  ELSE IF GapAfter(i) = 0 THEN "satisfied" ELSE "working"]
  /\ Goto("stagnate")
  /\ UNCHANGED <<accepted, best, lost, fails, streak, clockVars, loopId, txn, brokenBy, last,
                 memory, runs>>

(* An item all of whose regressed checks an open transaction declares does   *)
(* not count a failure.                                                      *)
Exempt ==
  LET mine == Seen.regressed \cap ChecksOf(item)
  IN  mine # {} /\ mine \subseteq Declared

Progressed == committed /\ Seen.newly # {}

FailsAfter ==
  IF Progressed /\ NewChecks(item) # {} THEN 0
  ELSE IF Exempt THEN fails[item] ELSE fails[item] + 1

(* StagnationDetector.update: only the attempted item counts, and only a     *)
(* committed candidate with newly passed checks is progress.                 *)
Stagnate ==
  /\ pc = "stagnate"
  /\ IF status[item] = "satisfied"
     THEN UNCHANGED <<fails, status>>
     ELSE /\ fails' = [fails EXCEPT ![item] = FailsAfter]
          /\ status' = IF FailsAfter >= MaxItemFailures
                       THEN [status EXCEPT ![item] = "blocked"] ELSE status
  /\ streak' = IF Progressed THEN 0 ELSE streak + 1
  /\ Goto("settle")
  /\ UNCHANGED <<accepted, best, lost, gap, clockVars, loopId, txn, brokenBy, last, memory, runs>>

-----------------------------------------------------------------------------
(* The keys an auto-opened transaction would declare: the regressions of a   *)
(* rejected candidate that the last one had too, when three times as many    *)
(* checks (and MinNewly) are newly passed.  {} stands for none.              *)
NetRatio == 3

AutoOpenKeys(seen) ==
  IF /\ Refactoring
     /\ seen.regressed # {} /\ seen.regressed \subseteq brokenBy
     /\ Cardinality(seen.regressed) <= MaxDeclared
     /\ Cardinality(seen.newly) >= MinNewly
     /\ Cardinality(seen.newly) >= NetRatio * Cardinality(seen.regressed)
  THEN seen.regressed ELSE {}

Due == Refactoring /\ txn # NoTxn /\ loopId >= txn.deadline

GlobalBlocked == ~Progressed /\ streak >= MaxStreak

AfterLoop ==
  /\ brokenBy' = IF committed THEN {} ELSE Seen.regressed
  /\ IF GlobalBlocked THEN Stop("BLOCKED") ELSE Goto("tick")
  /\ Forget
  /\ UNCHANGED <<ledgerVars, streak, clockVars, loopId, last, runs>>

(* The end of the loop: maybe open a transaction, settle a due one, save the *)
(* trace.                                                                    *)
SettleNothing ==
  /\ pc = "settle"
  /\ ~Due
  /\ txn' = IF ~committed /\ txn = NoTxn /\ AutoOpenKeys(Seen) # {}
            THEN Opened(AutoOpenKeys(Seen)) ELSE txn
  /\ AfterLoop
  /\ UNCHANGED <<accepted, best, lost>>

SettleDue ==
  /\ pc = "settle"
  /\ Due
  /\ Close
  /\ AfterLoop
  /\ UNCHANGED lost

(* The CLI saves the stop report once the orchestrator has returned it.     *)
SaveStop ==
  /\ pc = "stop"
  /\ last' = verdict
  /\ pc' = "down" /\ verdict' = "none"
  /\ UNCHANGED <<accepted, best, lost, ledgerVars, streak, clockVars, loopId, txn, brokenBy,
                 memory, runs>>

-----------------------------------------------------------------------------
(* The process is killed: what is durable stays, the rest is gone.          *)
Crash ==
  /\ pc # "down"
  /\ pc' = "down" /\ verdict' = "none"
  /\ Forget
  /\ UNCHANGED <<accepted, best, lost, ledgerVars, streak, clockVars, loopId, txn, brokenBy,
                 last, runs>>

(* A kill between the two renames of a promote: the old tree is aside, the   *)
(* new one is not in place, and the next run makes an empty best/.           *)
KillInSwap ==
  /\ pc = "commit"
  /\ CanCommit(report, Declared)
  /\ best' = {}
  /\ lost' = TRUE
  /\ pc' = "down" /\ verdict' = "none"
  /\ Forget
  /\ UNCHANGED <<accepted, ledgerVars, streak, clockVars, loopId, txn, brokenBy, last, runs>>

(* An exception becomes an ERROR stop, with a trace under the loop's id.     *)
Fail ==
  /\ pc \in InLoop \cup {"tick"}
  /\ loopId' = IF pc \in {"tick", "plan"} THEN loopId + 1 ELSE loopId
  /\ Stop("ERROR")
  /\ Forget
  /\ UNCHANGED <<accepted, best, lost, ledgerVars, streak, clockVars, txn, brokenBy, last, runs>>

-----------------------------------------------------------------------------
(* The operator: `hunger freeze`, `resume` and `unblock`, and another run    *)
(* with the flags its preflight asks for.                                    *)
SetPaused(b) ==
  /\ paused # b
  /\ paused' = b
  /\ UNCHANGED <<accepted, best, lost, ledgerVars, streak, loops, overspent, loopId, txn,
                 brokenBy, last, pc, verdict, memory, runs>>

Unblock(i) ==
  /\ pc = "down"
  /\ status[i] = "blocked"
  /\ status' = [status EXCEPT ![i] = "open"]
  /\ fails' = [fails EXCEPT ![i] = 0]
  /\ UNCHANGED <<accepted, best, lost, gap, streak, clockVars, loopId, txn, brokenBy, last, pc,
                 verdict, memory, runs>>

Flags == {"refill", "unblock", "resume", "raise", "reset"}

(* check_resume_preflight.  The repair-state run an ERROR stop asks for has  *)
(* been made or waived.                                                      *)
MayRun(flags) ==
  CASE last = "none" -> TRUE
    [] last = "DONE" -> "reset" \in flags
    [] last = "HUNGER_EXPIRED" -> "refill" \in flags
    [] last = "BLOCKED" -> "resume" \in flags /\ ("unblock" \in flags \/ Active # {})
    [] last = "SAFETY_STOP" -> {"raise", "resume"} \subseteq flags
    [] OTHER -> "resume" \in flags

(* The overrides follow, one write each; `reset` has none.  A raised ceiling *)
(* need not clear what was spent.                                            *)
RunAgain(flags, cleared) ==
  /\ pc = "down"
  /\ runs < MaxRuns
  /\ MayRun(flags)
  /\ cleared => "raise" \in flags
  /\ loops' = IF "refill" \notin flags THEN loops
              ELSE IF loops > RefillLoops THEN loops - RefillLoops ELSE 0
  /\ IF "unblock" \in flags
     THEN LET freed == {i \in Items : status[i] = "blocked"}
          IN  /\ status' = [i \in Items |-> IF i \in freed THEN "open" ELSE status[i]]
              /\ fails' = [i \in Items |-> IF i \in freed THEN 0 ELSE fails[i]]
              /\ streak' = 0
     ELSE UNCHANGED <<status, fails, streak>>
  /\ paused' = IF "resume" \in flags THEN FALSE ELSE paused
  /\ overspent' = IF cleared THEN FALSE ELSE overspent
  /\ runs' = runs + 1
  /\ Goto("tick")
  /\ UNCHANGED <<accepted, best, lost, gap, loopId, txn, brokenBy, last, memory>>

-----------------------------------------------------------------------------
Step ==
  \/ TickStop
  \/ TickGo
  \/ Plan
  \/ \E files, luck \in SUBSET Checks, evidence \in BOOLEAN :
       luck \subseteq Flaky /\ Validate(files, luck, evidence)
  \/ LeaveUnchanged
  \/ Promote
  \/ Reject
  \/ Record
  \/ Credit
  \/ Stagnate
  \/ SettleNothing
  \/ SettleDue
  \/ SaveStop

Handoff ==
  \/ \E i \in Items : Blocker(i)
  \/ \E i \in Items, proposed \in BOOLEAN : Discover(i, proposed)
  \/ \E keys \in SUBSET Checks : WorkerOpens(keys)
  \/ WorkerCloses
  \/ WorkerNeedsHuman
  \/ WorkerOverspends

Operator ==
  \/ \E b \in BOOLEAN : SetPaused(b)
  \/ \E i \in Items : Unblock(i)
  \/ \E flags \in SUBSET Flags, cleared \in BOOLEAN : RunAgain(flags, cleared)

Next == Step \/ Handoff \/ Operator \/ Crash \/ KillInSwap \/ Fail

Spec == Init /\ [][Next]_vars

(* The orchestrator's coroutine and its worker calls go on; a call to the    *)
(* model or to a tool times out.                                             *)
FairSpec == Spec /\ WF_vars(Step)

-----------------------------------------------------------------------------
(* Properties. *)

(* I-3: an accepted check is never lost, not even by the rollback of a      *)
(* refactor transaction, a crash between two writes or a failed restore.    *)
AcceptedNeverShrinks == [][accepted \subseteq accepted']_vars

(* With no transaction open, best/ satisfies every accepted check whose      *)
(* result depends on the files: whatever was killed, replaced or restored    *)
(* half way.  Only a kill between the renames of a promote undoes it, and    *)
(* the next commit makes it true again.                                      *)
BestKeepsAccepted == txn = NoTxn /\ ~lost => accepted \ Flaky \subseteq best

(* What a transaction would roll back to is never less than what was         *)
(* accepted when it opened, and it is exactly that as long as nothing was    *)
(* committed: the rows a rollback writes back are the rows that are there.   *)
RollbackIsNoLoss ==
  [][txn # NoTxn /\ txn' = NoTxn =>
       /\ accepted' = accepted
       /\ \/ best' = best /\ txn.baseline # accepted
          \/ best' = txn.snapshot /\ txn.baseline = accepted]_vars

(* The ledger never runs ahead of the accepted checks, although it is        *)
(* written later and from the report: an item without a gap, or marked       *)
(* satisfied, has its acceptance mode met by what was accepted.              *)
LedgerIsEarned ==
  \A i \in Ledger : (gap[i] = 0 \/ status[i] = "satisfied") => Accepts(i, accepted)

(* DONE means done, BLOCKED does not: a run that stops DONE leaves no item   *)
(* whose acceptance mode is unmet, a BLOCKED stop leaves one.                *)
DoneIsDone ==
  pc = "stop" /\ verdict = "DONE" => \A i \in Ledger : Accepts(i, accepted)

(* The fuse: within the first run no loop starts on a streak that has        *)
(* reached the limit, so at most MaxStreak loops pass without progress.      *)
FuseHolds ==
  runs = 1 /\ pc \in InLoop \ {"settle"} => streak < MaxStreak

(* Every run ends, with a stop report or with its process.                   *)
EveryRunEnds == pc # "down" ~> pc = "down"
=============================================================================
