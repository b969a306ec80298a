# HungerLoop, specified

TLA+ specifications of HungerLoop, a runtime that drives a language-model
worker through a task as a loop of *plan, work, validate, commit* until a stop
reason holds. The modules are translated from `src/hungerloop`; TLC checks them
on small instances and TLAPS proves the theorems named at the end. Source
paths are relative to `src/hungerloop/`.

## 1. The system

A **task** is a ledger of *hunger items*, each with acceptance checks, a status
and a `gap_score`. `hungerloop run` takes the task's lock and calls
`LoopOrchestrator.step` until a `StopReport`. All state is in one SQLite file and in a
workspace directory (`best/` and one directory per candidate).

| Component | State it keeps | Operations | What makes it correct |
|---|---|---|---|
| `LoopOrchestrator` | none; the loop id of the step in flight | `step`, `run`, error stops, draft sampling, post-commit synthesis | every run ends; a loop that starts has work; a crash between any two writes is survivable |
| `HungerEngine` | phases of the mission | `tick`, phase advance | stop reasons mean what they say, in a fixed order |
| Ledger, policy, clock (`models/hunger.py`) | items, `loop_count`, `frozen`, limits | predicates | blocked is not done; no loop beyond the limit |
| `ValidationGate`, `ValidationPipeline`, validators | reports | `validate`, `run` | a verdict never hides a regression |
| `CommitManager` | best state, accepted checks | `apply` | I-3: an accepted check is not lost; `best/` satisfies what is accepted |
| `HungerUpdateService`, `StagnationDetector` | gap, status, failure count, streak | `apply_validation`, `update` | credit follows acceptance; the fuse blows on time |
| `RefactorTransactionManager` | transactions, snapshots | `open`, `close`, `settle_if_due` | a rollback loses nothing |
| Check synthesis (`spec_check_synthesizer`, `check_proposal_gate`, `synthesized_check_lifecycle`, `refinement_compiler`) | generated items, conflicts | synthesize, baseline, quarantine, tier expansion | caps hold, a quarantined check stays so, credit and acceptance agree |
| `RuleBasedPlanner`, `MissionPlanner` | plans | `plan` | only eligible work is assigned |
| `WorkerScheduler`, `WorkerRuntime`, `ExecutionWorker`, `ToolHarness`, `BudgetGuard`, `CostGuard` | retries, usage | run assignments, call tools | dependents of a failure are skipped; budgets hold |
| `HandoffProcessor` | facts, injected items | `process_handoffs` | each item is applied once, under its cap |
| `WorkspaceManager`, `MissionStateUpdater` | `best/`, candidates, drafts | create, promote, reject, archive, restore | `best/` is always an old or a new tree |
| Repositories, `SQLiteMigrator`, `RepairState` | the database | saves, lock, migrations, detectors | one owner per task; the schema only moves forward |
| `MemoryManager`, `SkillManager` | memory and skill rows | propose, promote, retire | promoted once, after DONE |
| CLI (`run_cmd`, `preflight`, `hunger_cmd`, ...) | none | run, resume gate, overrides, freeze | a stopped task resumes only with the flag its stop asks for |

`ContextBuilder`, `RepairState` and the report formatters are text and read-only queries and
are not specified.

How they interact: one process owns a run and calls its components one after the
other; the only concurrency is between processes on one database (two runs, a run and
`hunger freeze`), inside a worker's awaits, and with the operating system, which may kill
the process anywhere. Every repository call outside `repo.transaction()` commits by
itself, so a loop is a sequence of durable writes and a crash may fall between any two.
What is hard: the order of those writes; files and rows that change together
but not atomically; a report computed against keys read earlier; budgets and counters at
their limits; resumes after every kind of stop. `PROJECT.json` lists each such hazard at its
line.

## 2. The modules

| Module | Models |
|---|---|
| `TaskLock` | `acquire_task_lock`, `release_task_lock` and the runs that use them, one action per SQL statement |
| `Migrator` | `SQLiteMigrator`: the version read and one transaction per migration, for several processes |
| `Startup` | composes the two: a run opens (and migrates) the database before it asks for the lock |
| `CheckGate` | pure: what `ValidationGate.validate` reports, `_can_commit`, the effective report |
| `LoopCore` | extends `CheckGate`: the orchestrator's loop for a task without a mission, the ledger, stagnation, refactor transactions, handoffs, stops, crashes and resumes |
| `Boundary` | pure: the gate with several targets, the validators' verdicts, the moves of `HungerEngine._advance_mission_phases` |
| `Mission` | extends `Boundary`: the loop of a task with a mission: phases, features, boundaries, validation-only loops, imports |
| `MissionPlan` | pure: `MissionPlanner.plan`: closures, topological order, lanes, rotation |
| `Attempt` | abstract: what the scheduler may rely on when a worker attempts an assignment |
| `Worker` | extends `Attempt`, which it implements: runtime, worker, model client, tool harness and the two guards |
| `Dispatch` | extends `MissionPlan` and `Attempt`: the scheduler's pass over a plan, and draft sampling around it |
| `Workspace` | the directories: `promote_candidate`, `reject_candidate`, the mission mirror and a transaction's restore, one action per rename, copy or write |
| `BestStore` | abstract: what a task may rely on about `best/`; `Workspace` implements it |
| `Synthesis` | checks proposed by a model during a run: injection, baseline, conflicts, quarantine, post-commit rounds, with the ledger and the commits they interact with |
| `Memory` | memory and skill candidates: proposed by runs, promoted by them, decided on by operators at the same time |
| `MC*` | the constants and symmetry of the TLC runs; `Worker` needs none |
| `StartupProofs` (and `TaskLock`), `WorkerProofs`, `LoopCoreProofs`, `MissionProofs`, `WorkspaceProofs`, `SynthesisProofs`, `MemoryProofs`, `DispatchProofs` | the theorems |

**TaskLock.** `lock` and `age` are the row; `pc`, `pid`, `flag`, `seen`, `outcome` belong to
each run. `Select` reads the row; `Insert`, `Reenter`, `Refuse` and `Steal` are the
answers of `acquire_task_lock`, decided on what was read and applied to what is there
now; `Release` is the `finally` of `run`; `Crash` kills a run, and a dead run's pid may be
given to another. `Tick` ages the row, which nothing refreshes.

**Migrator, Startup.** `version` is `user_version`, `schema` the migrations whose statements the file has had,
`step` and `next` belong to each opener. `Look` reads the version outside any transaction; `Apply` is one migration's
transaction; `Fails` is a statement that fails, or a lock another process holds too long. Which migrations can be
run on a schema that has had them (`Rerunnable`) is read off the SQL files: v3, v6 and v7. Every command opens the
database for writing (`cli/main.py:93`), so an opener always migrates. `Startup` refuses a run its lock until its database is open; `Open`
and `OpenFails` stutter or crash in `TaskLock`.

**LoopCore.** Durable variables: `accepted` (best state), `best` (the set of checks the
files of `best/` satisfy: the only thing about files any property needs), `lost` (a kill between the two renames of a
promote left `best/` empty, and nothing was committed since), the ledger (`status`, `gap`,
`fails`), `streak`, the clock (`loops`, `paused`), `overspent`, `loopId`, `txn`, `brokenBy` (what the last trace
of a rejected candidate lists as regressed) and `last` (the saved stop). Process variables: `pc`, the item in
hand, the candidate, its report, whether it was committed, the verdict of the stop. One
pass of `pc` through *tick, plan, work, commit, record, credit, stagnate, settle* is one `step`:

- `TickStop`/`TickGo`: `HungerEngine.tick`, and the loop unit spent at once;
- `Plan`: the rule-based planner's item;
- `Blocker`, `Discover`, `WorkerOpens`, `WorkerCloses`, `WorkerNeedsHuman`, `WorkerOverspends`: what a worker's
  handoff or its cost does, in any order and number;
- `Validate`/`LeaveUnchanged`: the report of a candidate with any files; a flaky check answers anything;
- `Promote`, `Record`, `Reject`: files first, rows after, as inside `CommitManager.apply`; `KillInSwap` is the one
  moment of a promote that a kill can make visible to the next run, and `Workspace` takes the rest apart;
- `Credit`, `Stagnate`: `apply_validation` and `StagnationDetector.update`;
- `SettleNothing`/`SettleDue`: auto-open, the due transaction, the trace, a BLOCKED stop;
- `SaveStop`: the CLI saves the report;
- `Crash`, `Fail`: a kill, or an exception turned into an ERROR stop, between any two of these;
- `SetPaused`, `Unblock`, `RunAgain`: the operator, with the flags the resume gate asks for.

Gaps are counted in checks, not in fractions of the item (`gap_score` times the number
of checks), which keeps the arithmetic exact and every comparison the same.
The model assumes the rule-based planner, LOOP_COUNT decay, `respect_stagnation`, no draft sampling, no
synthesis and no spend-budget tiers. It reads and writes the clock in one step.

**Boundary, Mission.** Every item has one check, named by the item; a feature is the number of its item. Durable: `phase`, `feature`,
`home` (`feature.phase_id`), `listed` (`phase.feature_ids`), `asserted` (the user-testing assertion of each phase), `scarred` (the
phases whose contract holds the answers of an earlier scrutiny), the ledger (`status`, `owed`, `fails`), `accepted`, `relics` (it has
checks of items that an import replaced), `streak`, the clock, `marked` (`task.status`), `hindered`. Of the process: `pc`,
`plan`, `at` (the phase a validation is for), `boundary`, `result` (the pipeline's), `committed`. One pass through *tick, plan, work,
commit, credit, stagnate, end* is a loop with a plan; through *tick, plan, validate, settle* one that only validates a phase.

- `Tick`: `HungerEngine.tick` without a result. It moves phases, decides, and takes the decision back when the last phase it looked at is
  validating, or the ledger is done and the phases are not (`Decision`);
- `MakePlan` marks features and starts phases (the second tick of a step); `EmptyPlan` validates a phase on `best/` or counts a loop without
  progress;
- `FeatureFails`, `Skipped`, `Blocker`, `Discovered`, `Incomplete`, `NeedsHuman`, `Overspends`: what the workers' answers do;
- `Deterministic`, `Scrutiny`, `Testing`: the three stages; the later two only at a boundary, each only if the one before did not fail;
- `Commit` (rows and features in one transaction), `CommitRaises` (a feature that is blocked or gone cannot be made done, the transaction rolls
  back, the run ends with ERROR and the candidate stays in `best/`), `MirrorFails`, `Reject`, `Credit`, `Stagnate`;
- `EndLoop`, `Settle`: the tick is told of the effective result of a candidate, or of the raw one of a validation on `best/`;
- `Freeze`, `Resume`, `RunAgain`, `Crash`, `Fail`;
- `Import`: `compile_mission_changes`, while a run may be at work. A mission to import (`MissionSpecs`) says which of its files there are,
  which features, phases and assertions they list, in which phase and with which status, and what of it has other checks or another
  identity than before. A file that is not there leaves its part alone. `Merged` is the rule of every part: what was there keeps its status,
  what is new has the status its file declares, what the file does not list is gone. So a feature may be moved, rewritten, given another
  item, or dropped while the plan still has it; a phase may come as done; a contract's rows replace all rows. `MergeLedger` gives every
  feature's item its gap back and leaves its status and its accepted check; the check of an item nothing stands for any more is rerun by
  the gate for ever (`relics`). `Change` is one transaction, and fails when a feature or a row of the contract is left without its phase.

`flawless`, `disturbed`, `unproved` and `redrawn` are history: nothing has gone wrong; which features a worker reopened, or an import put
into a phase past them; which features an import brought as done, or gave other checks or another item once they were done, accepted or in work;
which phases an import declared done, or whose assertion it replaced once they were.
The module takes the plan as any candidates up to `Slots`; `MissionPlan` says which, `Dispatch` how they are run.

**MissionPlan, Dispatch.** Candidates are numbered in the planner's sort order. `Dispatch` makes the plan of a `backlog`, runs its assignments one
after the other (`Skip`, `Take`, an attempt's steps, `Conclude` or `Retry`, `Answer`), and for a task's first loop repeats it for
each draft, evaluates (`Evaluate`) and archives them, and leaves the winner's tree (`Restore`), rows in one transaction (`Settle`)
and audit files (`RewriteAudit`). `Stray` is a command that outlives the attempt that started it. A kill is not an action: only rows, audit, evidence and tree
survive it, and the properties are about these in every state.

**Attempt, Worker.** `Attempt` promises that an attempt is answered once, spends while there is room under the ceiling, touches the tree only while it
runs, and leaves a command behind only when the wall clock ends it. `Worker` takes one apart: `Request` (the cost guard),
`RetryOrFail` (the client's own retries), `Unusable`, `Garbled`, `Unauthorized`, `Answered` (both guards are told), each tool call with
its permission and budget (`Denied`, `NoCallLeft`, `ReadFile`, `WriteFile`, `PatchFile`, `StartShell` to `ShellEnds`), `Decide` (repair
or complete), and `TimeOut` at every await. Its steps are `Attempt`'s under the identity mapping. What the provider charges (`billed`) and what the
client records (`spent`) are two things: an envelope the client cannot read and a stream that breaks (`Unusable`), an answer that
reports no usage (`told` is 0) and a call cancelled on the wire (`TimeOut`) may have been charged and are recorded by nobody; `lost` is their sum.

**Memory.** `row` is the state of each candidate's row, `kept` the promoted memories and active cards, `report` and `stop` those of
the run. `Propose`, `MakeCard`, `SaveReport`, `List`, `Promote`, `Finish` are writes of the run in their order; `Read` and `Approve`, `Activate`,
`Reject`, `Dismiss`, `Defer`, `Expire` are the two halves of an operator's command, whose row may be stale when it is written. `raced` is
history: the candidates a decision was written over another.

**Workspace.** On disk: `files` and `manifest` of `best/`, `aside` (the `.best.old.<token>` directories nobody
removed), `rejected` (the candidate the next loop may continue from) and, with the row, `txn` (its snapshot).
`row` is the `best_states` row. A tree is the worker's files and the loops whose mission state its mirror renders.
A promote is *swap, moved, placed, manifest, mirror, mirrored, remanifest, rows*; a restore *tear, copy, restored,
unopen*; each name is the place before a step, and `Kill` may fall at any of them. `MoveBack`, `MirrorFails` and `RestoreFails` are the
error paths the code handles. Whether the gate accepts is either answer (`LoopCore` says which), so `Workspace` is about
what happens to the files once it has. `before` and `ahead` are history variables: the tree a candidate was made from, and whether `best/`
holds a promoted candidate that no row knows.

`BestStore` promises that `best/` is one whole tree, replaced whole; that whoever finds it empty finds the tree
that was there beside it; that it is torn only while a kept tree can mend it. Under the mapping
`best` is the tree of `files` or, between the two renames of a living process, the tree it has moved aside; `kept` is everything
moved aside and the open snapshot. So the window of the renames is invisible at the abstract level until a kill falls into it, which
is the abstract `Lose`.

**Synthesis.** An item of `Syn` is an H-SYN item; each has one check, so the item stands for its check. `status`, `owed`
(a gap is left), `pending` (`synthesis_baseline_pending`) and `proposed` (a worker's, not the synthesizer's) are the ledger;
`accepted`, `best` and `stale` (the manifest of `best/` does not describe its files) the best state;
`clashes` the conflict signatures. `ready`, `passed`, `back` and `round` are the locals of a baseline and
of the rounds after a commit; `plan`, `cand`, `report`, `committed` those of a step. The actions:

- `Start`, `Baseline...`, `FixtureRejects`: `validate_pending_baseline`, whose fixture verdicts, credit, record and completions
  are durable writes of their own; `back` says who called it (a step, a commit, a round);
- `Plan`/`PlanNothing`: several assignments at once, as the mission's planner may make them;
- `Blocker`, `WorkerProposes`: handoffs; a worker's check waits for no baseline;
- `Validate`: the gate for several targets, with flaky checks; `Commit`, `CommitFails`, `Reject`; `Credit`; `Clash`/`NoClash`;
  `Stagnate`; then `AfterLoop`, `Synthesize`, `RoundsEnd`: `_run_post_commit_synthesis`;
- `Crash`, `RunAgain`, `Unblock`: a kill (which leaves what a stop or an exception leaves at the same place) and the operator.

`orphans` is a history variable: accepted items whose credit a kill prevented.
An empty loop and one that only validates a finished phase are one action here (`PlanNothing`); the second belongs to `Mission`,
as do refactor transactions to `LoopCore` and the renames of a promote to `Workspace`.

## 3. The runs

| Run | Question | Bounds |
|---|---|---|
| `lock` | does the row keep runs apart until somebody steals it, with runs that migrate first? | 3 runs (a holder, a thief and a third), 3 pids so that one can be reused, a threshold of one tick; a database of version 3 |
| `migrate_old` | and from version 2, do migrations only go forward? No | the same |
| `loop` | do stops mean what they say, do commits and ledger survive flaky checks, tiers, "any" items and continuation, does every run end? | 2 items (one discovered), 4 checks, one flaky, 3 loops, limits of 2 |
| `refactor` | does a rollback lose anything? | 1 item of 2 checks, 2 runs, 3 loops, one declared key, deadline of one loop, restores that fail |
| `workspace` | does `best/` keep its promise through kills, and do rows and manifest name what is there? | 3 works, so that old, new and snapshot can differ; 4 loops (commit, open, reject or commit, continue); 3 runs, so that a kill can fall into a promote and then into a restore |
| `synthesis` | do caps, quarantine, baseline and credit hold together through kills? | 1 core item, 3 H-SYN items (one of which a worker may propose, with a flaky check), batches of 1, 2 in the life of the task, 2 active, quarantine at the second conflict, fuse at 2, 2 assignments a loop, 3 loops |
| `worker` | do budgets, retries and the wall clock leave an attempt the scheduler understands, and what do the guards not see of its cost? | 2 attempts, answers of up to 2 tool calls, 3 tool calls and 3 tokens a budget, a ceiling of 5, answers that cost 2, recorded or not, one client retry, 2 repairs |
| `dispatch` | are plans closed and fair, skips exact, rows complete, drafts whole? | every dependency graph of 3 features with 2 or 3 slots; a feature or none beside up to 3 ledger items with 0 to 2 slots over 6 loops; 2 drafts of 2 dependent features; one retry, one stray command |
| `mission` | is a phase done on its own validation and on committed work, does DONE mean done, does a run get there and end? | 2 phases of one feature, an item without feature, a discovered issue, 2 slots, 3 loops of budget and a cap of 6, limits of 2, one trouble |
| `mission_import` | what is left of "a done phase is whole" through imports, skips and kills? | 2 phases and one that is imported, 2 features and one that is imported, 2 runs, 2 troubles, and 10 missions to import: a feature more, the same as done, one less; other checks, another item; a move with and without a phases file; a phase less; a phase that comes as done with a feature in it; another assertion |
| `second_boundary` | can a phase pass its second boundary? No | as `mission` |
| `memory` | do runs and operators who decide at the same time keep memories straight? | 2 checks, 2 loops, 2 runs, 2 operators with a command each at a time and 2 in all |

A limit of 2 is the smallest at which "one failure" and "the limit" differ; three loops let a
transaction open, commit and fall due; two runs let a resume follow each stop.
In `synthesis` three items against a cap of two let the cap refuse one, and three loops let two conflicts
with the same regression follow a commit; its plan of two items is what tells a single-target conflict from others.
In `mission` a budget of three is what the three items take when a plan is given one at a time, and a cap of six what the two boundaries
and the last tick add: `FlawlessRunIsDone` also says that no loop is wasted. Two slots let both phases wait for their boundary at once. The
cap also lets a phase fail its boundary until the run gives up. In `mission_import` a freeze and an import are two troubles.
In `worker` either guard can fire first: the token budget is below what two answers may cost, the ceiling below what two attempts may. In
`dispatch` cycles, chains and forks are among the graphs, and six loops take the rotation over three items round, also when
one slot is shared.
`memory` needs two operators, since one alone never overlaps.
`CHECK_DEADLOCK FALSE` everywhere: a task may be left stopped for good.

`loop`, `mission`, `worker` and `dispatch` also check liveness. `FlawlessRunIsDone` is stated as safety: a flawless run that stops, stops with
DONE; that it stops is `EveryRunEnds`. It needs `RoomForAll`: a loop for each item, one more for each phase below the cap, and no phase
without a feature. `MCMission` assumes this of its instance.

**Fairness.** `FairSpec` (in `LoopCore` and `Mission`) assumes weak fairness of `Step`, the process's own progress, and nothing of
workers' handoffs, crashes or the operator. The code justifies it: `step` is a coroutine with no lock to wait for,
model calls and tools time out, and a worker returns after a bounded number of
rounds. A worker that hands over for ever is excluded by the finite number of
things it can report. `Worker` assumes weak fairness of `Proceeds`: the event loop runs what is ready, and what an attempt waits for
answers or the wall clock fires; a command's own writes and what is left behind owe nothing. `Dispatch` assumes it of the scheduler's steps and of
the attempt's end, which `EveryAttemptAnswers` provides.

### What the violated runs show

- `migrate_old`: two commands open a version 2 database. Both read 2. One migrates to 4 or further; the other applies v3, which succeeds
  on the newer schema, and sets the version back to 3. The next v4 fails with a duplicate column, for every later command. From version
  3 on (`lock`) this cannot happen: v4 and v5 fail for the slower process, and v6 and v7 can be run again.
- `second_boundary`: the scrutiny stage stores its commands' answers as assertions of the phase; the user-testing stage of the next
  boundary reads them, knows no predicate for them, and fails. ADR-007 says both validators passing is enough.

### What the models show that is not a run

Observed in the modules' behaviours and true of the code; where a comment or doc says otherwise it is named.

- Two operators who steal the same dead owner's row both get it: the UPDATE names the task, not the owner it read
  (`repository/sqlite_repo.py:2029`).
- A declared regression is still a FAIL of the gate, and `_can_commit` rejects a FAIL before it looks at the transaction: ADR-010's
  tolerance is unreachable (`services/commit_manager.py:285`). Auto-open is given the effective report, whose newly passed keys are empty for
  every rejection, so it never fires (`services/loop_orchestrator.py:1022`).
- A crash between a commit and its credit leaves an item that can never be credited (`services/loop_orchestrator.py:1008`); in a mission the
  task can then never stop DONE.
- A kill between the renames of `promote_candidate` ("atomically", `services/workspace_manager.py:405`) leaves no `best/`; when the
  mirror cannot be written after the promote, the rejected tree stays in `best/` (`services/commit_manager.py:182`).
- A run whose phase is validating takes back a freeze and a ceiling too (`services/hunger_engine.py:125`): a frozen task goes on until the phase leaves
  validation, and a phase that keeps failing is validated until the safety cap.
- `hunger resume` does not clear `task.status` (`cli/hunger_cmd.py:132`), so a resumed task still accepts `mission import` (`cli/mission_cmd.py:577`).
- What the client does not record never reaches the cost guard: usage is read after the envelope is accepted
  (`services/openai_model_client.py:525`, after the raises at 323-342, 403-418 and 455), and a timeout cancels the call before. "Cost ceiling stops within one
  tool/LLM call" (`docs/architecture/v0.5a/overview.md:32`) is true of recorded charges, and "failed attempts cost 0" (ADR-004) of records only; `LossIsBounded` says how much it can be.
- An import keeps a done feature done, and its key accepted, under other checks or another item (`services/requirement_compiler.py:600`), takes the
  status of a new feature or phase from its file (`services/requirement_compiler.py:607`, `:639`), and moves a feature into a phase that is
  done. In none of these is anything validated again.
- An import into a phase that is done leaves the phase done; a phase without features is never validated, and since the loader
  takes one, a mission that has one ends BLOCKED when all its features are done (`services/hunger_engine.py:245`); no command unblocks a blocked feature.
- A dependency that is no candidate is ignored by the planner (`services/mission_planner.py:390`). A command that outlives a cancelled attempt may
  write into the tree of the next one (`services/worker_runtime.py:112`), and has no terminal event.
- A kill between the stop report and `auto_promote` leaves memories unpromoted, since no later run of a DONE task comes without `--reset`; a
  reset run makes a second skill candidate of the same best state; `memory expire` of an approved candidate leaves its memory in recall.

## 4. The proofs

`StartupProofs`, the lock first, for any set of runs and pids and any threshold:
`TypeCorrect`, `LockExcludes`, `NoForgottenRow`, `OnlyTheftTakesTheRow`. The
inductive invariant says who may be at work: without a steal, a run at work either is the
row's owner or shares its pid with the row's dead owner, and two live runs never
share a pid; a row's owner is at work or dead.

Then the composition: `StartupIsTaskLock` shows that a run that migrates first implements the lock (opening is a stutter, a failed open
a death), and `StartupExcludes` carries the exclusion over. `DatabaseSurvives` is about the other half, for any number of processes and
migrations, under the hypothesis `Orderly`: above the version the database starts from, every migration after a rerunnable one is rerunnable. That is
true of version 3 (only v6 and v7 are) and false of version 2 (v3 is, v4 is not), which is what run `migrate_old` shows. The invariant `NoGaps`: the
migrations a file has had have no gaps, and an opener is at one whose predecessors the file has had.

`LoopCoreProofs`, for any items, checks, modes and limits
(finite sets; positive limits; every item has a check):

- `TypeCorrect`, one step per action.
- `BestKept`, `NothingAcceptedIsLost`, `RollbackLosesNothing`. None is inductive: a promote
  that is killed, or a restore that fails, leaves `best/` and the rows apart.
  `Covered` adds what holds in between. A report the commit manager may take
  has no regression and reran every accepted check, so its current checks
  contain the accepted ones and are green in the candidate (`CommittableReport`);
  this is carried from *commit* to *record*. A transaction's baseline is among the accepted
  checks and its snapshot satisfies it; and `best/` may lag behind only while an open
  transaction has seen no commit, which is exactly when its close rolls back (`CloseKeepsCover`).
- `FuseBlows`, from the observation that a streak reaches the limit only in a loop
  without progress, which ends in a stop.
- `LedgerNeverRunsAhead`, `DoneMeansDone`. `Earned` compares the gap of an item with what it
  owes: its checks that are not accepted, and those a commit accepted whose credit is
  still to be written. A credit takes both down by the same checks (`CreditKeepsGaps`); a
  crash in between only lowers the debt. This is why a lost credit is
  harmless for safety and fatal for progress.

`LoopCore`'s invariant of `best/` is stated for the time until a kill falls between the two renames of a promote
(`~lost`), since after it the claim is false.

`MissionProofs`, for any phases, features, items, bounds and missions to import: `TypeCorrect` and five properties. `WholePhases` rests on
`ClosedIsWhole`, that a phase has its features from the moment its validation *begins*, and that on `PlanIsUnderWay`: while a plan lasts its features'
phases stay open for work, so nothing a worker's answer does to them can reach a phase that is closed (`MovedBack`), unless an import has moved
them. `DonePhaseIsWhole` names its exceptions feature by feature (`disturbed`, `unproved`), `DonePhaseIsValidated` phase by phase (`redrawn`): a
feature that no worker reopened and no import touched has none, whatever was imported around it. `ImportKeeps` and `MergedType` say what an import
leaves of what was there, `Housed` that no feature is without a phase; `DoneMeansDone` is about the step that stops with DONE, since an import may
follow it. `ValidatedPhases` rests on `BoundaryIsOpen` (the phase a
result is about stays under validation until the tick is told) and `PassIsRecorded` (a pass of user testing is in the contract,
for that phase); `AdvanceMoves` says the tick finishes only that phase. `DoneIsAccepted` ties a feature's status to the report's satisfied keys,
which are accepted or about to be. `FirstIsMember`, that the first of a set of numbers is one of them, comes from the well-foundedness of the order.

`FlawlessRunsEndDone`, under `RoomForAll`, is a count. While nothing has gone wrong (`Flawless`), every loop accepts its whole plan or finishes a phase:
`Passing` says that the report in hand passes everything planned, that nothing planned is accepted yet, and that who has no plan is at a boundary with all
the work accepted; `Credits` that ledger and best state agree but for the credit that is due; `Starts` that a phase begins with
its first feature, so a phase whose features are done is one that can be validated. So `Counted`: the loops never exceed the accepted items and finished phases by
more than the loop under way, neither the budget nor the cap comes first, and the tick finds either a phase to validate, an item to plan, or nothing
left. Without the last clause of `RoomForAll` the theorem is false: a phase without features is never started, never validated and never done.

`WorkerProofs`, for any budgets, prices, policies and answers: `TypeCorrect`, `BillingIsBounded`, `LossesAreBounded`, `ToolsAreGoverned`,
`ClientOwnsTheRetry` (of `ClientRetriesFirst`, which no run checks), and `WorkerIsAttempt`, that `Worker` implements `Attempt`. What carries them is `RoomLeft`: a worker at work is below the ceiling, because the cost
guard looks before an attempt and after every answer, garbled ones included. With it every end of an attempt is one the scheduler may see
(`Finish` and `Expire` need room, a `stop` comes only from a payment), and what was recorded exceeds the ceiling by less than the last
answer (`Counted`); what was not is at most one charge for each call an attempt has made (`Lossy`), and its calls are counted by its repairs and tries. `OneCommand` bounds what a cancelled attempt leaves behind by one command.

`WorkspaceProofs`, for any works, loops, runs and switches: `TypeCorrect`, `CommittedWorkIsOnDisk`, and
`PromiseKept`, that `Workspace` implements `BestStore`. The inductive invariant has four parts besides the types. `Shape` says
which variables are set at which place (the moved-aside tree exists only between the renames and its removal, a candidate
only while there is one to judge). `Mendable`: a torn `best/` implies an open transaction with a whole snapshot.
`Dated`: rows carry loops that were started, and a promote in progress is of a later loop than the row,
which is why "nothing was committed since the transaction opened" can be read off the row as the code does. `Backed`: the row's
work is in `best/`, aside or in the snapshot, unless a promote has gone ahead of it; a snapshot taken while `best/` was
ahead remembers so. Each action is then a step of `BestStore` or a stutter.

`RowsNameTheirFiles` adds `Listed`, that the manifest describes the files at the places just before rows are written. A commit then writes its row over the tree it
names, and a rollback that closes its transaction has the snapshot back, whatever was killed or half restored before.

`SynthesisProofs`, for any items, caps, batch sizes and thresholds: `TypeCorrect` and all properties of the run, in
`CreditMeansGuard`, `GuardMeansCredit`, `BaselineComesFirst`, `BaselineIsDoneAtPlan`, `CapHolds` and `ClosedStaysClosed`. The
inductive invariant `IInv` adds to the types: `Shape` (what is remembered at which place), `Fresh` (an item that was not injected is
untouched, a closed one owes nothing, a live one is below the fuse), `Assigned` (a plan takes no pending item and
its items stay open until the credit) and `Tested` (what the baseline's writes have done so far to the items under test). With it
every property is kept by each action. `CapHolds` counts: an injection is at most what the cap leaves over everything ever created, and no
other action adds a synthesized item (`InjectStep`).

`MemoryProofs`, for any checks, operators, loops and runs: `TypeCorrect`, `OneMemoryEach`, `NothingApprovedIsLost`, `OnlyRacesDisagree` and
`PromotionIsWhole`. The invariant adds: an operator at a desk has read a state its command allows (`DesksAreAllowed`), a memory that is kept was
decided on or raced for (`KeptIsDecided`), each run makes at most one card (`CardsFollowRuns`), and the list of a promotion holds every
eligible candidate not yet dealt with (`ListIsWhole`). A race is the only way for the two records of a decision to differ.

`DispatchProofs`, for every dependency graph (with cycles, too), ledger, number of slots, loops, retries and drafts, and every answer: `TypeCorrect` and
all safety properties of the run. The first half is about the planner and speaks of operators alone:

- The code's loops are folds over sequences. `FoldTrace` shows once, from the definition of the fold as a function on sets of indices, that
  a fold's value is the end of a trace with one state per index; `Induction`, for sets and from the well-foundedness of the naturals, carries a
  fact along it. No induction theorem with an operator parameter is needed.
- `AncestorsClosed` and `AncestorsLeast`: as many rounds as there are features close a set of dependencies, and what they find is the least closed set, so
  it is what a feature needs, directly or not. A round that does not end the search adds a feature, so there are enough of them.
- `TopologicalSorts`: what Kahn's loop takes is distinct and each comes after all of its dependencies in the base; `TopologicalTakes`: without a cycle
  it takes everything (`SomethingIsReady`: of features closed under their dependencies the one with fewest ancestors has none).
- `SelectFeaturesSelects`: a prefix of a closure in order is still closed, so cutting a closure at the last slot leaves no feature without its dependencies.
- `PlanIsSound` puts these together with the ledger's lane. `ArrangedIsPlan`: the order the scheduler makes once more is the plan itself.
- `LedgerServed`, `FeaturesServed`: the rotation takes consecutive remainders, so `n` turns meet each of `n` candidates (`EveryRemainder`); with one shared slot
  turns are every other loop, hence `2n`.

The second half is about the pass. `DispatchInv` adds to the types `Remaining` (the plan is sound, and what is still to do is its end), `Shape` (what is known at which
place), `Passes` (which draft left what), `EveryAnswerHasItsRow`, inductive with these, and `Skipping` (of what has been processed exactly the features with a failed or
skipped dependency are skipped). `SkipsAreExact` turns that into a statement about all ancestors: along the plan, which holds dependencies first, a skipped feature
has a failed ancestor, and one with a failed ancestor is skipped. `BestDraftLeaves` needs that `Better` is a strict total order on drafts (`BetterOrders`), so that the
winner is one draft (`WinnerIsBest`).

Assumptions: only the named ASSUMEs of the modules (finite sets, positive limits, features belong to phases), which TLC evaluates in every run, and
`Orderly` and `RoomForAll` where they are written.

**Model-checked only.** Liveness, which needs fairness and ENABLED: `EveryRunEnds`, `EveryAttemptAnswers`, `WorkEnds`; and the two violated claims.

## 5. Not modelled, and what is left

- An import is not taken apart from the run it lands in at every place: none falls between reading a phase's targets and testing them, and one that
  is about more than features, or replaces an item, comes between two loops. The order of phases and features is fixed; each phase
  has one assertion and each item one check, which keeps its key when an import rewrites it, as the code's keys do (item and index). Two features
  that share an item, a replaced item that takes the name of an old one, contract files that list the rows of a scrutiny, and a change of the
  services manifest are left out.
- `RepairState`, `ContextBuilder`, report formatting and the parsing half of `RequirementCompiler` and `MissionLoader` change nothing the
  properties can see. Events and traces are written and, but for the one trace field `LoopCore` keeps, not read back.
- The clock is read and written in one step: a freeze written in between by another process is lost in the code (`services/loop_orchestrator.py:547`).
  A module `Clock` would compose the operator's commands with a run at work, and with the overrides a refused run applies before it asks for the lock.
- Every module is about one task. Items are looked up by item id alone, although every task has an H-001
  (`repository/sqlite_repo.py:260`): an `ItemStore` of two tasks is what would show its effect.
- The pressure arithmetic of `HungerEngine`, the other decay modes, tier expansion under `spend-budget`, skill export and import.
- Every safety and action property a passing run checks is proved. What a proof could still add is a bound behind the liveness properties: that a run, or
  a pass, makes no more than so many steps of its own.
