------------------------------ MODULE Mission ------------------------------
(***************************************************************************)
(* A task with a mission: the phases and features of the mission beside    *)
(* the hunger ledger, driven by the same loop.  The tick moves the phases  *)
(* and may take back the stop it has decided; a plan works on features or  *)
(* ledger-only items, an empty plan validates a phase on best/ or counts   *)
(* as a loop without progress; the operator freezes, resumes, imports a    *)
(* changed mission and runs again.  Which candidates the planner prefers   *)
(* is MissionPlan's concern, what an attempt does is Attempt's, and what   *)
(* is on disk is Workspace's: here any candidates are taken, a candidate   *)
(* turns any checks green, and acceptance is what best_state records.  A   *)
(* feature's item goes by the feature's name, and so does its check.       *)
(***************************************************************************)
EXTENDS Boundary

CONSTANTS
  PhaseOf,         \* feature.phase_id of the mission as it was compiled
  Late,            \* the features a later import adds
  LatePhases,      \* the phases a later import adds
  Specs,           \* the missions an operator imports
  Extras,          \* synthesized items, which the planner takes without a feature
  Issues,          \* items a discovered issue compiles to: the planner never takes them
  Commands,        \* the mission's services manifest has scrutiny commands
  MaxLoops,        \* policy.decay_duration_seconds under LOOP_COUNT
  MaxItemFailures, \* StagnationDetector.max_item_failures
  MaxStreak,       \* policy.max_global_no_progress_loops
  LoopCap,         \* LoopOrchestrator.max_loops_safety_cap
  Slots,           \* assignments of a loop
  MaxRuns,         \* bound: the runs an operator starts
  MaxTroubles      \* bound: worker errors, blockers, issues, kills, operator actions

Items == Features \cup Extras \cup Issues

(* ParsedMissionSpec: which files there are, what they list, with which      *)
(* status, and which of it has another text or identity than before.        *)
MissionSpecs ==
  [files : SUBSET {"features", "phases", "contract"},
   features : SUBSET Features, home : [Features -> Phases],
   claim : [Features -> FeatureStatuses \ {"absent"}],
   rewritten : SUBSET Features,  \* their verification steps are other ones
   replaced : SUBSET Features,   \* their hunger_item_id is another one
   phases : SUBSET Phases, bullets : [Phases -> SUBSET Features],
   declared : [Phases -> PhaseStatuses \ {"absent"}],
   asserts : SUBSET Phases, verdict : [Phases -> AssertionStatuses \ {"absent"}],
   fresh : SUBSET Phases]        \* their assertion's id is another one

ASSUME MissionAssumption ==
  /\ PhaseOf \in [Features -> Phases] /\ LatePhases \subseteq Phases
  /\ \A f \in Features \ Late : PhaseOf[f] \notin LatePhases
  /\ Specs \subseteq MissionSpecs
  /\ Late \subseteq Features /\ Extras \cap Features = {}
  /\ Issues \cap (Features \cup Extras) = {} /\ IsFiniteSet(Extras \cup Issues)
  /\ Commands \in BOOLEAN
  /\ {MaxLoops, MaxItemFailures, MaxStreak, LoopCap, Slots, MaxRuns} \subseteq Nat \ {0}
  /\ MaxTroubles \in Nat

VARIABLES
  (* durable *)
  phase, feature,
  home,      \* feature.phase_id
  listed,    \* phase.feature_ids, which an import can leave behind
  asserted,  \* status of each phase's user-testing assertion
  scarred,   \* phases with SCRUTINY-* rows in the validation contract
  status, owed, fails,  \* of each ledger item: status, gap_score > 0, failure count
  accepted,  \* best_state.accepted_check_keys,
  relics,    \* and whether it has keys of items that an import replaced
  streak, loops, frozen, overspent,
  marked,    \* task.status = "HUMAN_PAUSED"
  hindered,  \* items blocked by a handoff of the last loop
  (* of the running process *)
  pc, stop, turns, runs,
  plan,      \* the items of the plan's assignments, those skipped left out
  at,        \* validation_phase, 0 for None
  boundary,  \* it was "validating" when the plan was made
  result, committed,
  (* history *)
  flawless,  \* nothing has gone wrong, no validation has failed
  disturbed, \* features reopened by a worker, or imported into a phase past them
  unproved,  \* features imported as done, or with another check than was accepted
  redrawn,   \* phases imported as done, or with another assertion than passed
  troubles

missionVars == <<phase, feature, home, listed, asserted, scarred>>
ledgerVars == <<status, owed, fails, accepted, relics, streak>>
clockVars == <<loops, frozen, overspent, marked>>
loopVars == <<plan, at, boundary, result, committed>>
runVars == <<pc, stop, turns, runs>>
noted == <<disturbed, unproved, redrawn>>
history == <<flawless, noted, troubles>>
vars == <<missionVars, ledgerVars, clockVars, hindered, runVars, loopVars, history>>

StopReasons == {"DONE", "HUNGER_EXPIRED", "BLOCKED", "HUMAN_REQUIRED", "HUMAN_PAUSED",
                "SAFETY_STOP", "ERROR"}
InLoop == {"plan", "work", "validate", "scrutiny", "testing", "commit", "credit", "stagnate",
           "end", "settle"}

TypeOK ==
  /\ phase \in [Phases -> PhaseStatuses] /\ feature \in [Features -> FeatureStatuses]
  /\ home \in [Features -> Phases] /\ listed \in [Phases -> SUBSET Features]
  /\ asserted \in [Phases -> AssertionStatuses]
  /\ scarred \subseteq Phases
  /\ status \in [Items -> {"absent", "open", "blocked", "satisfied"}]
  /\ owed \subseteq Items /\ accepted \subseteq Items /\ fails \in [Items -> Nat]
  /\ streak \in Nat /\ loops \in 0..MaxLoops /\ turns \in 0..LoopCap /\ runs \in Nat
  /\ {frozen, overspent, marked, boundary, committed, flawless, relics} \subseteq BOOLEAN
  /\ hindered \subseteq Items
  /\ pc \in InLoop \cup {"tick", "stop", "down"} /\ stop \in StopReasons \cup {"none"}
  /\ plan \subseteq Items /\ at \in Phases \cup {0}
  /\ result \in Results(Items)
  /\ disturbed \subseteq Features /\ unproved \subseteq Features /\ redrawn \subseteq Phases
  /\ troubles \in Nat

(* compile_new_mission                                                      *)
Init ==
  /\ phase = [p \in Phases |-> IF p \in LatePhases THEN "absent" ELSE "pending"]
  /\ feature = [f \in Features |-> IF f \in Late THEN "absent" ELSE "pending"]
  /\ home = PhaseOf /\ listed = [p \in Phases |-> {f \in Features \ Late : home[f] = p}]
  /\ asserted = phase /\ scarred = {}
  /\ status = [i \in Items |-> IF i \in Issues \cup Late THEN "absent" ELSE "open"]
  /\ owed = Items /\ fails = [i \in Items |-> 0]
  /\ accepted = {} /\ relics = FALSE
  /\ streak = 0 /\ loops = 0
  /\ frozen = FALSE /\ overspent = FALSE /\ marked = FALSE /\ hindered = {}
  /\ pc = "tick" /\ stop = "none" /\ turns = 0 /\ runs = 1
  /\ plan = {} /\ at = 0 /\ boundary = FALSE /\ result = Untouched /\ committed = FALSE
  /\ flawless = TRUE /\ disturbed = {} /\ unproved = {} /\ redrawn = {} /\ troubles = 0

-----------------------------------------------------------------------------
Goto(place) == pc' = place /\ UNCHANGED <<stop, turns, runs>>
Stop(reason) == pc' = "stop" /\ stop' = reason /\ UNCHANGED <<turns, runs>>
Trouble == troubles < MaxTroubles /\ troubles' = troubles + 1 /\ flawless' = FALSE

Unfinished == {i \in Items : status[i] \notin {"absent", "satisfied"} /\ i \in owed}
AllBlocked == Unfinished # {} /\ \A i \in Unfinished : status[i] = "blocked"
PhasesDone(ph) == \A p \in Phases : ph[p] \in {"done", "absent"}

(* The drive budget of LOOP_COUNT is used up.                               *)
TimeIsUp == loops >= MaxLoops

(* HungerEngine.tick on the clock and the ledger.                           *)
Reason ==
  CASE frozen -> "HUMAN_PAUSED"
    [] ~frozen /\ overspent -> "SAFETY_STOP"
    [] ~frozen /\ ~overspent /\ AllBlocked -> "BLOCKED"
    [] ~frozen /\ ~overspent /\ ~AllBlocked /\ Unfinished # {} /\ TimeIsUp
         -> "HUNGER_EXPIRED"
    [] ~frozen /\ ~overspent /\ Unfinished = {} -> "DONE"
    [] OTHER -> "none"

(* Mutant: a finished ledger is enough.                                     *)
DecisionOfLedger(after) == IF LastMove(phase, after) = "validating" THEN "none" ELSE Reason

(* The tick goes on whatever it decided when the last phase it looked at is *)
(* validating, and when the ledger is done before the phases are.           *)
Decision(after) ==
  IF \/ LastMove(phase, after) = "validating"
     \/ Reason = "DONE" /\ ~PhasesDone(after)
  THEN "none" ELSE Reason

(* Mutant: the loops of a run are not counted.                              *)
TickUncounted ==
  /\ pc = "tick" /\ turns < LoopCap
  /\ phase' = Quiet(phase, feature, home)
  /\ UNCHANGED <<turns, runs>>
  /\ stop' = Decision(phase')
  /\ IF stop' = "none"
     THEN pc' = "plan" /\ loops' = IF loops < MaxLoops THEN loops + 1 ELSE loops
     ELSE pc' = "stop" /\ loops' = loops
  /\ UNCHANGED <<feature, home, listed, asserted, scarred, ledgerVars, frozen, overspent,
                 marked, hindered, loopVars, history>>

Tick ==
  /\ pc = "tick" /\ turns < LoopCap
  /\ phase' = Quiet(phase, feature, home)
  /\ turns' = turns + 1 /\ runs' = runs
  /\ stop' = Decision(phase')
  /\ IF stop' = "none"
     THEN pc' = "plan" /\ loops' = IF loops < MaxLoops THEN loops + 1 ELSE loops
     ELSE pc' = "stop" /\ loops' = loops
  /\ UNCHANGED <<feature, home, listed, asserted, scarred, ledgerVars, frozen, overspent,
                 marked, hindered, loopVars, history>>

(* LoopOrchestrator.run gives up. *)
CapReached ==
  /\ pc = "tick" /\ turns = LoopCap
  /\ Stop("ERROR")
  /\ UNCHANGED <<missionVars, ledgerVars, clockVars, hindered, loopVars, history>>

-----------------------------------------------------------------------------
(* Planning.                                                                *)

Open(i) == status[i] = "open" /\ i \in owed /\ i \notin hindered

Candidates ==
  {f \in Features : /\ Open(f) /\ feature[f] \in {"pending", "in_progress"}
                    /\ phase[home[f]] \in {"pending", "in_progress"}}
  \cup {i \in Extras : Open(i)}

(* repo.update_feature_status, which refuses only to make a blocked feature   *)
(* done; and repo.update_hunger_item_status.                                *)
MarkFeatures(set, to) == [f \in Features |-> IF f \in set THEN to ELSE feature[f]]
MarkItems(set, to) ==
  [i \in Items |-> IF i \in set /\ status[i] # "absent" THEN to ELSE status[i]]

Validating(ph) == {p \in Phases : ph[p] = "validating"}

(* _phase_for_validation                                                    *)
Assessed(items, ph) ==
  IF items \cap Features # {} THEN home[FirstOf(items \cap Features)]
  ELSE IF Validating(ph) # {} THEN FirstOf(Validating(ph)) ELSE 0

(* The planned features are in progress, a second tick starts their phases. *)
MakePlan(items) ==
  /\ pc = "plan" /\ items # {} /\ items \subseteq Candidates /\ Cardinality(items) <= Slots
  /\ plan' = items
  /\ feature' = MarkFeatures(items, "in_progress")
  /\ phase' = Quiet(phase, feature', home)
  /\ at' = Assessed(items, phase')
  /\ boundary' = (at' # 0 /\ phase'[at'] = "validating")
  /\ result' = Untouched /\ committed' = FALSE
  /\ hindered' = {}
  /\ Goto("work")
  /\ UNCHANGED <<home, listed, asserted, scarred, ledgerVars, clockVars, history>>

(* Mutant: a boundary is validated with the work of a plan only.            *)
EmptyPlanIdle ==
  /\ pc = "plan" /\ Candidates = {}
  /\ hindered' = {} /\ plan' = {} /\ at' = 0 /\ boundary' = FALSE /\ result' = Untouched
  /\ committed' = FALSE /\ streak' = streak + 1
  /\ IF streak' >= MaxStreak THEN Stop("BLOCKED") ELSE Goto("tick")
  /\ UNCHANGED <<missionVars, status, owed, fails, accepted, relics, clockVars, history>>

(* repo.increment_no_progress_streak *)
Fruitless == streak' = streak + 1

(* Nobody to assign: validate a phase, or count a loop without progress.    *)
EmptyPlan ==
  /\ pc = "plan" /\ Candidates = {}
  /\ hindered' = {}
  /\ plan' = {} /\ at' = Assessed({}, phase) /\ boundary' = (at' # 0)
  /\ result' = Untouched /\ committed' = FALSE
  /\ IF boundary' THEN Goto("validate") /\ UNCHANGED streak
     ELSE /\ Fruitless
          /\ IF streak' >= MaxStreak THEN Stop("BLOCKED") ELSE Goto("tick")
  /\ UNCHANGED <<missionVars, status, owed, fails, accepted, relics, clockVars, history>>

-----------------------------------------------------------------------------
(* The workers' handoffs.                                                   *)

Quietly == pc = "work" /\ ~overspent /\ Goto("work")

(* An error other than a lost model call or a timeout blocks the feature.   *)
FeatureFails(f) ==
  /\ Quietly /\ Trouble
  /\ f \in plan \cap Features /\ feature[f] # "absent"
  /\ feature' = MarkFeatures({f}, "blocked")
  /\ UNCHANGED <<phase, home, listed, asserted, scarred, ledgerVars, clockVars, hindered,
                 loopVars, noted>>

(* The assignments that need a failed one are skipped.                      *)
Skipped(items) ==
  /\ Quietly /\ Trouble
  /\ items \subseteq plan /\ items # {} /\ items # plan
  /\ plan' = plan \ items
  /\ UNCHANGED <<missionVars, ledgerVars, clockVars, hindered, at, boundary, result, committed,
                 noted>>

Blocker(i) ==
  /\ Quietly /\ Trouble
  /\ status[i] # "absent"
  /\ status' = MarkItems({i}, "blocked")
  /\ hindered' = hindered \cup {i}
  /\ UNCHANGED <<missionVars, owed, fails, accepted, relics, streak, clockVars, loopVars, noted>>

Injected(found) ==
  [i \in Items |-> IF i \in found /\ status[i] = "absent" THEN "open" ELSE status[i]]

Discovered(i) ==
  /\ Quietly /\ Trouble
  /\ i \in Issues /\ status' = Injected({i})
  /\ UNCHANGED <<missionVars, owed, fails, accepted, relics, streak, clockVars, hindered,
                 loopVars, noted>>

(* incomplete_work puts any feature it names back to work.                  *)
Incomplete(f) ==
  /\ Quietly /\ Trouble
  /\ feature[f] # "absent"
  /\ feature' = MarkFeatures({f}, "in_progress")
  /\ disturbed' = IF feature[f] = "done" THEN disturbed \cup {f} ELSE disturbed
  /\ UNCHANGED <<phase, home, listed, asserted, scarred, ledgerVars, clockVars, hindered,
                 loopVars, unproved, redrawn>>

(* A worker that asks for a human blocks its features.                      *)
NeedsHuman ==
  /\ pc = "work" /\ ~overspent /\ Trouble
  /\ \E f \in plan : /\ f \in Features => feature[f] # "absent"
                     /\ feature' = MarkFeatures({f}, "blocked")
  /\ Stop("HUMAN_REQUIRED")
  /\ UNCHANGED <<phase, home, listed, asserted, scarred, ledgerVars, clockVars, hindered,
                 loopVars, noted>>

Overspends ==
  /\ pc = "work" /\ ~overspent /\ Trouble
  /\ overspent' = TRUE /\ Goto("work")
  /\ UNCHANGED <<missionVars, ledgerVars, loops, frozen, marked, hindered, loopVars, noted>>

(* The cost guard stops the scheduler, or the pipeline before its first     *)
(* stage.                                                                   *)
Unaffordable ==
  /\ pc \in {"work", "validate"} /\ overspent
  /\ Stop("SAFETY_STOP") /\ flawless' = FALSE
  /\ UNCHANGED <<missionVars, ledgerVars, clockVars, hindered, loopVars, noted, troubles>>

-----------------------------------------------------------------------------
(* The validation pipeline.                                                 *)

(* _target_hunger_item_ids_for_phase, for a boundary without a plan.        *)
Targets == IF pc = "work" THEN plan
           ELSE {f \in Features : feature[f] # "absent" /\ (home[f] = at \/ f \in listed[at])}

(* Where a finished pipeline leads. *)
Settled == IF plan = {} THEN "settle" ELSE "commit"

(* The later stages are a boundary's, and each needs the one before it.     *)
AfterGate(verdict) == IF boundary /\ verdict # "FAIL" THEN "scrutiny" ELSE Settled
AfterScrutiny(verdict) == IF verdict = "FAIL" THEN Settled ELSE "testing"

Deterministic(green, intact) ==
  /\ pc \in {"work", "validate"} /\ ~overspent
  /\ relics \/ intact
  /\ result' = Gate(Targets, accepted, green, intact)
  /\ Goto(AfterGate(result'.gate))
  /\ flawless' = (flawless /\ result'.gate = "PASS")
  /\ UNCHANGED <<missionVars, ledgerVars, clockVars, hindered, plan, at, boundary, committed,
                 noted, troubles>>

LeftUnchanged ==
  /\ pc = "work" /\ ~overspent /\ (accepted # {} \/ relics)
  /\ result' = Untouched /\ Goto("commit") /\ flawless' = FALSE
  /\ UNCHANGED <<missionVars, ledgerVars, clockVars, hindered, plan, at, boundary, committed,
                 noted, troubles>>

(* The answer of each command is kept as an assertion of the phase.         *)
CommandRows(answers) == IF answers = {} THEN scarred ELSE scarred \cup {at}

(* The contract is read first; a failed command becomes a discovered issue,  *)
(* up to a cap.                                                             *)
Scrutiny(answers, found) ==
  /\ pc = "scrutiny"
  /\ answers \subseteq {"passed", "failed", "blocked"} /\ (answers = {} <=> ~Commands)
  /\ found \subseteq Issues /\ ("failed" \notin answers => found = {})
  /\ scarred' = CommandRows(answers)
  /\ status' = Injected(found)
  /\ result' = [result EXCEPT !.scrutiny = ScrutinyVerdict(answers),
                              !.rows = (at \in scarred)]
  /\ Goto(AfterScrutiny(result'.scrutiny))
  /\ flawless' = (flawless /\ result'.scrutiny = "PASS")
  /\ UNCHANGED <<phase, feature, home, listed, asserted, owed, fails, accepted, relics, streak,
                 clockVars, hindered, plan, at, boundary, committed, noted, troubles>>

(* An import may leave a phase without an assertion of its own.             *)
OwnAssertion == asserted[at] # "absent"

(* The command rows of an earlier boundary are in the contract, and have no  *)
(* predicate: they fail.                                                    *)
Answers(answer) ==
  (IF OwnAssertion THEN {answer} ELSE {}) \cup (IF result.rows THEN {"failed"} ELSE {})

(* repo.update_assertion_status *)
Recorded(answer) == IF OwnAssertion THEN [asserted EXCEPT ![at] = answer] ELSE asserted

Testing(answer, missing) ==
  /\ pc = "testing" /\ (missing => OwnAssertion)
  /\ asserted' = Recorded(answer)
  /\ result' = [result EXCEPT !.testing = TestingVerdict(Answers(answer), missing)]
  /\ Goto(Settled)
  /\ flawless' = (flawless /\ result'.testing = "PASS")
  /\ UNCHANGED <<phase, feature, home, listed, scarred, ledgerVars, clockVars, hindered, plan,
                 at, boundary, committed, noted, troubles>>

-----------------------------------------------------------------------------
(* The commit.                                                              *)

CanCommit == result.gate # "FAIL" /\ result.newly # {}

(* Mutant: a planned feature is done when its candidate is committed.       *)
CompletedPlan == plan \cap Features

(* _completed_feature_ids *)
Completed == plan \cap Features \cap result.satisfied

(* best_state, the accepted rows and the features, in one transaction.      *)
Commit ==
  /\ pc = "commit" /\ CanCommit
  /\ \A f \in Completed : feature[f] \notin {"blocked", "absent"}
  /\ accepted' = accepted \cup result.newly
  /\ feature' = MarkFeatures(Completed, "done")
  /\ committed' = TRUE
  /\ Goto("credit")
  /\ UNCHANGED <<phase, home, listed, asserted, scarred, status, owed, fails, relics, streak,
                 clockVars, hindered, plan, at, boundary, result, history>>

(* A feature that is blocked or gone cannot become done: the transaction is *)
(* rolled back and the run ends, with the candidate in best/.               *)
CommitRaises ==
  /\ pc = "commit" /\ CanCommit
  /\ \E f \in Completed : feature[f] \in {"blocked", "absent"}
  /\ Stop("ERROR") /\ flawless' = FALSE
  /\ UNCHANGED <<missionVars, ledgerVars, clockVars, hindered, loopVars, noted, troubles>>

(* The mission mirror cannot be written: the commit is undone.              *)
MirrorFails ==
  /\ pc = "commit" /\ CanCommit /\ Trouble
  /\ Goto("credit")
  /\ UNCHANGED <<missionVars, ledgerVars, clockVars, hindered, loopVars, noted>>

Reject ==
  /\ pc = "commit" /\ ~CanCommit
  /\ Goto("credit")
  /\ UNCHANGED <<missionVars, ledgerVars, clockVars, hindered, loopVars, history>>

(* HungerUpdateService.apply_validation, with the raw report of a boundary   *)
(* without a plan; with the effective one of a candidate otherwise.         *)
Credited(items) ==
  /\ status' = MarkItems(items, "satisfied")
  /\ owed' = owed \ items

Credit ==
  /\ pc = "credit"
  /\ Credited(IF committed THEN result.newly ELSE {})
  /\ Goto("stagnate")
  /\ UNCHANGED <<missionVars, fails, accepted, relics, streak, clockVars, hindered, loopVars,
                 history>>

(* StagnationDetector.update *)
Stagnate ==
  /\ pc = "stagnate"
  /\ LET stuck == {i \in plan : status[i] \notin {"absent", "satisfied"}}
         after == [i \in Items |-> IF i \in stuck THEN fails[i] + 1 ELSE fails[i]]
     IN  /\ fails' = after
         /\ status' = [i \in Items |-> IF i \in stuck /\ after[i] >= MaxItemFailures
                                       THEN "blocked" ELSE status[i]]
  /\ IF committed THEN streak' = 0 ELSE Fruitless
  /\ Goto("end")
  /\ UNCHANGED <<missionVars, owed, accepted, relics, clockVars, hindered, loopVars, history>>

(* Mutant: the tick is told what the pipeline answered, committed or not.   *)
EffectiveRaw == PipelineVerdict(result)

(* effective_pipeline_result.pipeline_verdict                               *)
Effective == IF committed THEN PipelineVerdict(result) ELSE "fail"

Clear == plan' = {} /\ at' = 0 /\ boundary' = FALSE /\ result' = Untouched /\ committed' = FALSE

EndLoop ==
  /\ pc = "end"
  /\ phase' = Advance(phase, feature, home, at, result, Effective)
  /\ IF ~committed /\ streak >= MaxStreak THEN Stop("BLOCKED") ELSE Goto("tick")
  /\ Clear
  /\ UNCHANGED <<feature, home, listed, asserted, scarred, ledgerVars, clockVars, hindered,
                 history>>

(* The end of a boundary without a plan: no best state, no streak.          *)
Settle ==
  /\ pc = "settle"
  /\ Credited(IF result.gate # "FAIL" THEN result.newly ELSE {})
  /\ phase' = Advance(phase, feature, home, at, result, PipelineVerdict(result))
  /\ Goto("tick")
  /\ Clear
  /\ UNCHANGED <<feature, home, listed, asserted, scarred, fails, accepted, relics, streak,
                 clockVars, hindered, history>>

-----------------------------------------------------------------------------
(* Kills and exceptions.                                                    *)
Crash ==
  /\ pc \in InLoop \cup {"tick"} /\ Trouble
  /\ pc' = "down" /\ UNCHANGED <<stop, turns, runs>>
  /\ Clear
  /\ UNCHANGED <<missionVars, ledgerVars, clockVars, hindered, noted>>

Fail ==
  /\ pc \in InLoop \cup {"tick"} /\ Trouble
  /\ Stop("ERROR")
  /\ Clear
  /\ UNCHANGED <<missionVars, ledgerVars, clockVars, hindered, noted>>

-----------------------------------------------------------------------------
(* The operator.                                                            *)

Freeze ==
  /\ ~frozen /\ Trouble
  /\ frozen' = TRUE /\ marked' = TRUE
  /\ UNCHANGED <<missionVars, ledgerVars, loops, overspent, hindered, runVars, loopVars, noted>>

(* `hunger resume` leaves task.status alone. *)
Resume ==
  /\ frozen /\ frozen' = FALSE
  /\ UNCHANGED <<missionVars, ledgerVars, loops, overspent, marked, hindered, runVars, loopVars,
                 history>>

(* _merge_feature_runtime, _merge_phase_runtime, _merge_assertion_runtime and *)
(* _merge_imported_ledger: what was there keeps its status, what is new has *)
(* the one it is given, and what is not there any more is gone.             *)
Merged(old, there, given) ==
  [x \in DOMAIN old |-> CASE x \notin there -> "absent"
                          [] x \in there /\ old[x] # "absent" -> old[x]
                          [] OTHER -> given[x]]

(* A file that is not there leaves its part of the mission as it is.        *)
Brings(spec, file) == file \in spec.files
Rewritten(spec) == IF Brings(spec, "features") THEN spec.rewritten \cap spec.features ELSE {}
Replaced(spec) == IF Brings(spec, "features") THEN spec.replaced \cap spec.features ELSE {}

WithFeatures(spec) ==
  IF Brings(spec, "features") THEN Merged(feature, spec.features, spec.claim) ELSE feature

Homes(spec) ==
  IF Brings(spec, "features")
  THEN [f \in Features |-> IF f \in spec.features THEN spec.home[f] ELSE home[f]] ELSE home

WithPhases(spec) ==
  IF Brings(spec, "phases") THEN Merged(phase, spec.phases, spec.declared) ELSE phase

(* A phase lists what its file lists and what has it for a phase.           *)
Lists(spec) ==
  IF Brings(spec, "phases")
  THEN [p \in Phases |->
          IF p \in spec.phases
          THEN spec.bullets[p] \cup {f \in Features : feature'[f] # "absent" /\ home'[f] = p}
          ELSE {}]
  ELSE listed

(* A contract replaces all rows.                                            *)
ContractRows(spec) ==
  IF Brings(spec, "contract")
  THEN /\ asserted' = Merged([p \in Phases |-> IF p \in spec.fresh THEN "absent" ELSE asserted[p]],
                             spec.asserts, spec.verdict)
       /\ scarred' = {}
  ELSE UNCHANGED <<asserted, scarred>>

(* Every feature's item gets its whole gap back and keeps its status, also   *)
(* under other checks: the keys in best_state name the item.  An item no    *)
(* feature stands for leaves the ledger, but neither its row nor its keys.  *)
MergeLedger(spec) ==
  LET wanted == {f \in Features : feature'[f] # "absent"}
      kept == {i \in Extras \cup Issues : status[i] # "absent"}
      before == [i \in Items |-> IF i \in Replaced(spec) THEN "absent" ELSE status[i]]
  IN  /\ status' = Merged(before, wanted \cup kept, [i \in Items |-> "open"])
      /\ fails' = [i \in Items |-> IF before[i] = "absent" THEN 0 ELSE fails[i]]
      /\ owed' = owed \cup wanted
      /\ accepted' = accepted \ Replaced(spec)
      /\ relics' = (relics \/ accepted \cap Replaced(spec) # {})
      /\ hindered' = hindered \ Replaced(spec)

(* compile_mission_changes: mission, contract and ledger in one transaction, *)
(* which fails when a feature or a row of the contract has no phase.        *)
Change(spec) ==
  /\ feature' = WithFeatures(spec) /\ home' = Homes(spec)
  /\ phase' = WithPhases(spec) /\ listed' = Lists(spec)
  /\ ContractRows(spec)
  /\ \A f \in Features : feature'[f] # "absent" => phase'[home'[f]] # "absent"
  /\ \A p \in Phases : asserted'[p] # "absent" \/ p \in scarred' => phase'[p] # "absent"
  /\ MergeLedger(spec)

(* What an import does behind the back of the phases, the gate and the       *)
(* pipeline.                                                                *)
NoteImport(spec) ==
  /\ disturbed' = disturbed \cup
       {f \in Features : /\ feature'[f] # "absent" /\ phase'[home'[f]] \in {"validating", "done"}
                         /\ feature'[f] # "done" \/ f \in plan}
  /\ unproved' = unproved \cup
       {f \in Features : \/ feature[f] = "absent" /\ feature'[f] = "done"
                         \/ /\ f \in Rewritten(spec) \cup Replaced(spec)
                            /\ feature'[f] = "done" \/ f \in accepted \cup plan}
  /\ redrawn' = redrawn \cup
       {p \in Phases : phase'[p] = "done" /\ asserted'[p] \notin {"passed", "absent"}}

(* _is_human_paused *)
HumanPaused == marked

(* An import lands anywhere but between reading a phase's targets and testing *)
(* them; one that is about more than features, between two loops.           *)
Timely(spec) ==
  \/ pc \in {"tick", "plan", "stop", "down"}
  \/ pc # "validate" /\ spec.files \subseteq {"features"} /\ Replaced(spec) = {}

(* `mission import`, and `mission edit`.                                    *)
Import(spec) ==
  /\ HumanPaused /\ Trouble
  /\ Timely(spec)
  /\ Change(spec)
  /\ NoteImport(spec)
  /\ UNCHANGED <<streak, clockVars, runVars, loopVars>>

(* Another run, with --refill, --unblock, --resume or, after DONE, --reset   *)
(* as LoopCore's preflight asks for: here any of them.                      *)
RunAgain(refill, unblock, resume) ==
  /\ pc \in {"stop", "down"} /\ runs < MaxRuns
  /\ pc' = "tick" /\ stop' = "none" /\ turns' = 0 /\ runs' = runs + 1
  /\ loops' = IF refill THEN 0 ELSE loops
  /\ IF unblock
     THEN LET freed == {i \in Items : status[i] = "blocked"}
          IN  /\ status' = [i \in Items |-> IF i \in freed THEN "open" ELSE status[i]]
              /\ fails' = [i \in Items |-> IF i \in freed THEN 0 ELSE fails[i]]
              /\ streak' = 0
     ELSE UNCHANGED <<status, fails, streak>>
  /\ frozen' = (frozen /\ ~resume)
  /\ Clear /\ flawless' = FALSE
  /\ UNCHANGED <<missionVars, owed, accepted, relics, overspent, marked, hindered, noted,
                 troubles>>

-----------------------------------------------------------------------------
Work ==
  \/ \E items \in SUBSET (Features \cup Extras) : MakePlan(items)
  \/ \E green \in SUBSET (Features \cup Extras), intact \in BOOLEAN : Deterministic(green, intact)
  \/ \E answers \in SUBSET {"passed", "failed", "blocked"}, found \in SUBSET Issues :
       Scrutiny(answers, found)
  \/ \E answer \in {"passed", "failed", "blocked"}, missing \in BOOLEAN : Testing(answer, missing)
  \/ LeftUnchanged

Step ==
  \/ Tick \/ CapReached \/ EmptyPlan \/ Work \/ Unaffordable
  \/ Commit \/ CommitRaises \/ Reject \/ Credit \/ Stagnate \/ EndLoop \/ Settle

Handoff ==
  \/ \E f \in Features : FeatureFails(f) \/ Incomplete(f)
  \/ \E items \in SUBSET (Features \cup Extras) : Skipped(items)
  \/ \E i \in Items : Blocker(i) \/ Discovered(i)
  \/ NeedsHuman \/ Overspends

Operator ==
  \/ Freeze \/ Resume
  \/ \E spec \in Specs : Import(spec)
  \/ \E refill, unblock, resume \in BOOLEAN : RunAgain(refill, unblock, resume)

Next == Step \/ Handoff \/ MirrorFails \/ Operator \/ Crash \/ Fail

Spec == Init /\ [][Next]_vars

(* The coroutine goes on, its calls time out; the other actions are bounded  *)
(* and owe nothing.                                                         *)
FairSpec == Spec /\ WF_vars(Step)

-----------------------------------------------------------------------------
(* Properties. *)

(* A phase is done only with all its features, and a feature only with its  *)
(* check in best_state: through skipped and failed assignments, lost        *)
(* commits, kills, and imports that add, move and remove features and       *)
(* phases.  The exceptions are all there are: a feature that a worker        *)
(* reopens; one that is not done, or in work, when an import puts it into a *)
(* phase that is under validation or done; one that is imported as done;    *)
(* and one whose checks or item an import changes while it is done,         *)
(* accepted or in work.                                                     *)
DonePhaseIsWhole ==
  \A f \in Features :
    /\ phase[home[f]] = "done" => feature[f] \in {"done", "absent"} \/ f \in disturbed
    /\ feature[f] = "done" => f \in accepted \/ f \in unproved

(* A phase is done only when its own user-testing assertion, if it has one,  *)
(* has passed, also when several phases wait for their boundary at once and *)
(* their results come one at a time; but for a phase an import declares     *)
(* done, or whose assertion it replaces after.                              *)
DonePhaseIsValidated ==
  \A p \in Phases : phase[p] = "done" => asserted[p] \in {"passed", "absent"} \/ p \in redrawn

(* What a phase is validated on is in best/ when it becomes done: the tree  *)
(* of a boundary without a plan is best/, and a candidate that passed its   *)
(* boundary and was not committed does not count.  A phase the mission did  *)
(* not have comes as its file says.                                         *)
PhaseDoneOnCommittedWork ==
  [][\A p \in Phases : phase[p] \notin {"absent", "done"} /\ phase'[p] = "done"
                         => pc = "settle" \/ committed]_vars

(* DONE means done when a run ends with it, although the ledger and the     *)
(* mission are two states kept by two writers: no phase is left, and no     *)
(* feature.                                                                 *)
DoneIsDone ==
  [][stop # "DONE" /\ stop' = "DONE" =>
       /\ PhasesDone(phase')
       /\ \A f \in Features : feature'[f] \in {"done", "absent"} \/ f \in disturbed]_vars

(* What a run starts with to work on.                                       *)
Works == (Features \ Late) \cup Extras

(* A loop for each of its items, one more for each phase, no empty phase:   *)
(* what a run needs to get to DONE at all.                                  *)
RoomForAll ==
  /\ MaxLoops >= Cardinality(Works) /\ LoopCap > Cardinality(Works) + Cardinality(Phases)
  /\ \A p \in Phases \ LatePhases : \E f \in Features \ Late : PhaseOf[f] = p

(* A run in which every candidate passes and nothing else happens ends DONE, *)
(* whatever the order of its plans: no phase is left waiting for a boundary *)
(* nobody runs, and no loop is wasted (HungerEngine.tick,                   *)
(* LoopOrchestrator._step_inner).                                           *)
FlawlessRunIsDone == pc = "stop" /\ flawless => stop = "DONE"

(* Every run ends, although a phase that fails its boundary is validated    *)
(* again and again and its tick takes every stop back.                      *)
EveryRunEnds == pc \in InLoop \cup {"tick"} ~> pc \in {"stop", "down"}

-----------------------------------------------------------------------------
(* What docs and comments say, checked in runs that refute it.               *)

(* A boundary whose commands all succeed and whose user-testing assertion   *)
(* passes with its evidence has passed.                                     *)
BoundaryPasses == [][Testing("passed", FALSE) => result'.testing = "PASS"]_vars
=============================================================================
