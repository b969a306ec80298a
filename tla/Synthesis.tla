----------------------------- MODULE Synthesis ------------------------------
(***************************************************************************)
(* Checks that a model proposes while a mission runs: H-SYN items injected *)
(* at plan time and after commits, validated against best/ before a worker *)
(* may be given one, credited and accepted when best/ already satisfies    *)
(* them, closed when their fixture fails or when they keep conflicting     *)
(* with what is accepted, and worked on otherwise.  Each item has one      *)
(* check, so an item stands for its check.  Stops, and exceptions that end *)
(* a run, leave what a kill leaves at the same place: Crash stands for all *)
(* three.  A kill inside a promote and refactor transactions are the       *)
(* matter of Workspace and LoopCore.                                       *)
(***************************************************************************)
EXTENDS Naturals, FiniteSets

CONSTANTS
  Core,            \* items of the mission's features
  Syn,             \* the H-SYN items that may ever be proposed
  Noticed,         \* bound: those of them a worker may propose
  Flaky,           \* items whose check does not depend on the files alone
  Batch,           \* policy.synthesis_batch_size
  MaxTotal,        \* policy.synthesis_max_total_items
  MaxActive,       \* policy.synthesis_max_active_items
  Threshold,       \* policy.synthesis_conflict_threshold
  Continuation,    \* policy.rejected_candidate_continuation_enabled
  MaxItemFailures, \* StagnationDetector.max_item_failures
  MaxParallel,     \* mission.max_parallel_features
  MaxLoops         \* policy.decay_duration_seconds under LOOP_COUNT

ASSUME ItemsAssumption == IsFiniteSet(Core \cup Syn) /\ Core \cap Syn = {}
ASSUME KindsAssumption == Noticed \subseteq Syn /\ Flaky \subseteq Core \cup Syn
ASSUME LimitsAssumption ==
  /\ {Batch, MaxTotal, MaxActive, Threshold, MaxItemFailures, MaxParallel, MaxLoops}
       \subseteq Nat \ {0}
  /\ Continuation \in BOOLEAN

VARIABLES
  (* durable *)
  accepted,  \* best_state.accepted_check_keys; a best state exists when not empty
  best,      \* the items whose check best/files satisfies
  stale,     \* the manifest of best/ does not describe its files
  status,    \* status of each ledger item, "absent" before it is injected
  owed,      \* items with gap_score > 0
  pending,   \* items with synthesis_baseline_pending
  proposed,  \* H-SYN items generated by a worker; the others are the synthesizer's
  fails,     \* consecutive_failure_count of each item
  clashes,   \* synthesis_conflict_signatures: <<item, regressed checks, which time>>
  loops,     \* clock.loop_count
  (* of the running process *)
  pc, back, plan, cand, apart, report, committed, carried, ready, passed, round,
  (* history *)
  orphans    \* accepted items whose credit a kill prevented

Items == Core \cup Syn
durable == <<accepted, best, stale, status, owed, pending, proposed, fails, clashes, loops>>
baseVars == <<back, ready, passed, round>>
loopVars == <<plan, cand, apart, report, committed, carried>>
vars == <<durable, pc, baseVars, loopVars, orphans>>

Statuses == {"absent", "open", "working", "blocked", "satisfied", "closed"}
Baseline == {"base", "fixture", "bcredit", "brecord", "bcomplete"}
Reports == [newly : SUBSET Items, regressed : SUBSET Items, passing : SUBSET Items]
NoReport == [newly |-> {}, regressed |-> {}, passing |-> {}]

Least(S) == CHOOSE m \in S : \A n \in S : m <= n
MaxRounds == (MaxTotal + Batch - 1) \div Batch

RoundsLeft == round < MaxRounds

TypeOK ==
  /\ {accepted, best, owed, pending, plan, cand, ready, passed, orphans} \subseteq SUBSET Items
  /\ proposed \subseteq Syn
  /\ status \in [Items -> Statuses] /\ fails \in [Items -> 0..MaxItemFailures]
  /\ clashes \subseteq Syn \X (SUBSET Items) \X Nat
  /\ stale \in BOOLEAN /\ apart \in BOOLEAN /\ committed \in BOOLEAN /\ carried \in BOOLEAN
  /\ loops \in 0..MaxLoops /\ round \in 0..MaxRounds
  /\ report \in Reports
  /\ back \in {"start", "carry", "round"}
  /\ pc \in Baseline \cup {"start", "plan", "work", "commit", "clash", "credit",
                           "stagnate", "after", "round", "off"}

-----------------------------------------------------------------------------
(* The ledger's predicates.                                                 *)
Ledger == {i \in Items : status[i] # "absent"}
Live == {i \in Ledger : status[i] \in {"open", "working"}}
Synthesized == (Ledger \cap Syn) \ proposed

(* Mutant: whatever still carries the flag. *)
PendingByFlag == Synthesized \cap pending

Pending == Synthesized \cap pending \cap Live \cap owed

(* Mutant: a pending item may be planned. *)
PlannableUntested == Live \cap owed

(* Feature items, and the H-SYN items that wait for no baseline.            *)
Plannable == (Live \cap owed) \ pending

(* Mutant: resolved items give their place in the lifetime cap back. *)
CreatedUnresolved ==
  {i \in Ledger \cap Syn : status[i] \notin {"closed", "satisfied"}}

Created == Ledger \cap Syn
Occupying == {i \in Synthesized : status[i] \in {"open", "working"} /\ i \in owed}

(* How many items one call of the synthesizer may inject.                   *)
Left(limit, used) == IF limit > Cardinality(used) THEN limit - Cardinality(used) ELSE 0
Room == Least({Batch, Left(MaxTotal, Created), Left(MaxActive, Occupying)})

(* What the checks can answer on files that satisfy `files`.                *)
Answers(files) == {green \in SUBSET Items : green \ Flaky = files \ Flaky}

Init ==
  /\ \E planned \in SUBSET Syn :
       /\ Cardinality(planned) <= Least({Batch, MaxTotal, MaxActive})
       /\ status = [i \in Items |-> IF i \in Core \cup planned THEN "open" ELSE "absent"]
       /\ pending = planned
  /\ owed = Items
  /\ accepted = {} /\ best = {} /\ stale = FALSE /\ proposed = {}
  /\ fails = [i \in Items |-> 0] /\ clashes = {} /\ loops = 0
  /\ pc = "start" /\ back = "start" /\ ready = {} /\ passed = {} /\ round = 0
  /\ plan = {} /\ cand = {} /\ apart = FALSE /\ report = NoReport
  /\ committed = FALSE /\ carried = FALSE
  /\ orphans = {}

-----------------------------------------------------------------------------
(* Control.                                                                 *)
Goto(place) == pc' = place

ForgetBaseline == back' = "start" /\ ready' = {} /\ passed' = {} /\ round' = 0

ForgetLoop(still) ==
  /\ plan' = {} /\ cand' = {} /\ apart' = still /\ report' = NoReport
  /\ committed' = FALSE /\ carried' = FALSE

NextLoop == Goto("start") /\ ForgetBaseline /\ ForgetLoop(FALSE)

(* The baseline returns to whoever asked: the start of a step, the commit   *)
(* of a loop that began with pending items, or a round of synthesis, which  *)
(* goes on while something failed and rounds are left.                      *)
BaselineReturns(failed) ==
  /\ ready' = {} /\ passed' = {}
  /\ CASE back = "start" -> Goto("plan") /\ UNCHANGED <<back, round, loopVars>>
       [] back = "carry" -> Goto("round") /\ back' = "round" /\ round' = 1 /\ UNCHANGED loopVars
       [] back = "round" /\ failed # {} /\ RoundsLeft ->
            Goto("round") /\ round' = round + 1 /\ UNCHANGED <<back, loopVars>>
       [] OTHER -> Goto("start") /\ back' = "start" /\ round' = 0 /\ ForgetLoop(FALSE)
  /\ UNCHANGED orphans

-----------------------------------------------------------------------------
(* validate_pending_baseline, one action per durable write.                 *)

Start ==
  /\ pc = "start" /\ Goto("base")
  /\ UNCHANGED <<durable, baseVars, loopVars, orphans>>

BaselineNothing ==
  /\ pc = "base" /\ (accepted = {} \/ Pending = {})
  /\ BaselineReturns({}) /\ UNCHANGED durable

(* At the start of a step best/ itself is compared with its manifest, later *)
(* the candidate it was promoted from.                                      *)
Matches == ~stale /\ (back = "start" \/ ~apart)

BaselineMismatch ==
  /\ pc = "base" /\ accepted # {} /\ Pending # {} /\ ~Matches
  /\ BaselineReturns(Pending) /\ UNCHANGED durable

BaselineBegins ==
  /\ pc = "base" /\ accepted # {} /\ Pending # {} /\ Matches
  /\ Goto("fixture") /\ ready' = Pending
  /\ UNCHANGED <<durable, back, passed, round, loopVars, orphans>>

Resolve(i) ==
  /\ status' = [status EXCEPT ![i] = "closed"]
  /\ owed' = owed \ {i} /\ pending' = pending \ {i}

FixtureRejects(i) ==
  /\ pc = "fixture" /\ i \in ready
  /\ Goto("fixture") /\ ready' = ready \ {i} /\ Resolve(i)
  /\ UNCHANGED <<accepted, best, stale, proposed, fails, clashes, loops, back, passed, round,
                 loopVars, orphans>>

FixturesRejectedAll ==
  /\ pc = "fixture" /\ ready = {}
  /\ BaselineReturns({}) /\ UNCHANGED durable

(* Regressions a flaky check reports of an unchanged best/ are ignored, so  *)
(* the report is taken whenever one of the items passed.                    *)
BaselineValidates(green) ==
  /\ pc = "fixture" /\ ready # {}
  /\ passed' = ready \cap green
  /\ Goto(IF passed' = {} THEN "bcomplete" ELSE "bcredit")
  /\ UNCHANGED <<durable, back, ready, round, loopVars, orphans>>

(* HungerUpdateService.apply_validation: an item's only check newly passed. *)
Satisfy(S) ==
  /\ status' = [i \in Items |-> IF i \in S THEN "satisfied" ELSE status[i]]
  /\ owed' = owed \ S

BaselineCredits ==
  /\ pc = "bcredit" /\ Goto("brecord") /\ Satisfy(passed)
  /\ UNCHANGED <<accepted, best, stale, pending, proposed, fails, clashes, loops, baseVars,
                 loopVars, orphans>>

BaselineRecords ==
  /\ pc = "brecord" /\ Goto("bcomplete") /\ accepted' = accepted \cup passed
  /\ UNCHANGED <<best, stale, status, owed, pending, proposed, fails, clashes, loops, baseVars,
                 loopVars, orphans>>

BaselineCompletes(i) ==
  /\ pc = "bcomplete" /\ i \in ready \cap pending
  /\ Goto("bcomplete") /\ pending' = pending \ {i}
  /\ UNCHANGED <<accepted, best, stale, status, owed, proposed, fails, clashes, loops, baseVars,
                 loopVars, orphans>>

BaselineEnds ==
  /\ pc = "bcomplete" /\ ready \cap pending = {}
  /\ BaselineReturns(ready \ passed) /\ UNCHANGED durable

-----------------------------------------------------------------------------
(* The loop.  P is what the attempted assignments are about.                *)
Plan(P) ==
  /\ pc = "plan" /\ loops < MaxLoops
  /\ P # {} /\ P \subseteq Plannable /\ Cardinality(P) <= MaxParallel
  /\ Goto("work") /\ plan' = P /\ loops' = loops + 1
  /\ carried' = (Pending # {})
  /\ UNCHANGED <<accepted, best, stale, status, owed, pending, proposed, fails, clashes,
                 baseVars, cand, apart, report, committed, orphans>>

(* Nothing to assign: an empty loop, or one that validates a phase whose    *)
(* features are done, which is the matter of missions and not of H-SYN items.*)
PlanNothing ==
  /\ pc = "plan" /\ loops < MaxLoops /\ Plannable = {}
  /\ NextLoop /\ loops' = loops + 1
  /\ UNCHANGED <<accepted, best, stale, status, owed, pending, proposed, fails, clashes, orphans>>

(* Mutant: a blocker reopens what was closed. *)
BlockerOnAny(i) ==
  /\ pc = "work" /\ Goto("work") /\ i \in Ledger
  /\ status' = [status EXCEPT ![i] = "blocked"]
  /\ UNCHANGED <<accepted, best, stale, owed, pending, proposed, fails, clashes, loops, baseVars,
                 loopVars, orphans>>

Blocker(i) ==
  /\ pc = "work" /\ Goto("work") /\ i \in Ledger /\ status[i] # "closed"
  /\ status' = [status EXCEPT ![i] = "blocked"]
  /\ UNCHANGED <<accepted, best, stale, owed, pending, proposed, fails, clashes, loops, baseVars,
                 loopVars, orphans>>

(* A worker's check needs no baseline; its own cap is per loop and phase.   *)
WorkerProposes(i) ==
  /\ pc = "work" /\ Goto("work") /\ i \in Noticed /\ status[i] = "absent"
  /\ status' = [status EXCEPT ![i] = "open"] /\ proposed' = proposed \cup {i}
  /\ UNCHANGED <<accepted, best, stale, owed, pending, fails, clashes, loops, baseVars, loopVars,
                 orphans>>

(* The gate, for several targets: accepted checks are rerun when a target   *)
(* turned green, when all were accepted, or when rejections are continued.  *)
(* A candidate left as it was is reported like one that turns nothing green.*)
Committable(r) == r.newly # {} /\ r.regressed = {}

Reruns(newly) == newly # {} \/ plan \subseteq accepted \/ Continuation

Validate(files, green) ==
  LET newly == (plan \ accepted) \cap green
      ran == (plan \ accepted) \cup (IF Reruns(newly) THEN accepted ELSE {})
  IN /\ pc = "work"
     /\ Goto("commit")
     /\ report' = [newly |-> newly, regressed |-> (ran \cap accepted) \ green,
                   passing |-> plan \cap ran \cap green]
     /\ cand' = IF Committable(report') THEN files ELSE {}
     /\ UNCHANGED <<durable, baseVars, plan, apart, committed, carried, orphans>>

(* The mirror of the mission is rendered into best/ only: the candidate may *)
(* differ from the manifest written after it.                               *)
Commit(mirrorChanged) ==
  /\ pc = "commit" /\ Committable(report)
  /\ Goto("credit") /\ committed' = TRUE
  /\ best' = cand /\ stale' = FALSE /\ cand' = {} /\ apart' = mirrorChanged
  /\ accepted' = accepted \cup report.newly
  /\ UNCHANGED <<status, owed, pending, proposed, fails, clashes, loops, baseVars, plan, report,
                 carried, orphans>>

(* best/ is replaced and the rows are not: the mirror cannot be written     *)
(* (the candidate is then rejected), or the process is killed.              *)
CommitFails(torn, killed) ==
  /\ pc = "commit" /\ Committable(report)
  /\ best' = cand /\ stale' = torn
  /\ IF killed THEN Goto("off") /\ ForgetBaseline /\ ForgetLoop(FALSE)
     ELSE /\ Goto("clash") /\ cand' = {}
          /\ UNCHANGED <<baseVars, plan, apart, report, committed, carried>>
  /\ UNCHANGED <<accepted, status, owed, pending, proposed, fails, clashes, loops, orphans>>

Reject ==
  /\ pc = "commit" /\ ~Committable(report) /\ Goto("clash")
  /\ UNCHANGED <<durable, baseVars, loopVars, orphans>>

(* Mutant: the ledger is credited whatever became of the candidate. *)
CreditAny ==
  /\ pc \in {"credit", "clash"} /\ Goto("stagnate") /\ Satisfy(report.newly \cup report.passing)
  /\ UNCHANGED <<accepted, best, stale, pending, proposed, fails, clashes, loops, baseVars,
                 loopVars, orphans>>

Credit ==
  /\ pc = "credit" /\ Goto("stagnate") /\ Satisfy(report.newly)
  /\ UNCHANGED <<accepted, best, stale, pending, proposed, fails, clashes, loops, baseVars,
                 loopVars, orphans>>

(* A rejected candidate that satisfies its one synthesized target and loses *)
(* accepted checks: the Threshold-th time for the same ones, it is closed.  *)
Clashing ==
  IF Cardinality(plan) = 1 /\ report.regressed # {}
  THEN plan \cap Synthesized \cap report.passing ELSE {}

Times(i) == Cardinality({n \in 1..Threshold : <<i, report.regressed, n>> \in clashes}) + 1

Clash ==
  /\ pc = "clash" /\ Clashing # {} /\ Goto("stagnate")
  /\ \E i \in Clashing :
       /\ clashes' = clashes \cup {<<i, report.regressed, Times(i)>>}
       /\ IF Times(i) >= Threshold THEN Resolve(i) ELSE UNCHANGED <<status, owed, pending>>
  /\ UNCHANGED <<accepted, best, stale, proposed, fails, loops, baseVars, loopVars, orphans>>

NoClash ==
  /\ pc = "clash" /\ Clashing = {} /\ Goto("stagnate")
  /\ UNCHANGED <<durable, baseVars, loopVars, orphans>>

Counted == {i \in plan : status[i] \notin {"closed", "satisfied"}}

Stagnate ==
  /\ pc = "stagnate" /\ Goto("after")
  /\ fails' = [i \in Items |->
                 IF i \notin Counted THEN fails[i]
                 ELSE IF committed /\ i \in report.newly THEN 0 ELSE fails[i] + 1]
  /\ status' = [i \in Items |->
                  IF i \in Counted /\ fails'[i] >= MaxItemFailures THEN "blocked" ELSE status[i]]
  /\ UNCHANGED <<accepted, best, stale, owed, pending, proposed, clashes, loops, baseVars,
                 loopVars, orphans>>

(* Only a commit is followed by a baseline or by synthesis; all they need of *)
(* the loop is its candidate, as it compares with best/.                     *)
AfterLoop ==
  /\ pc = "after" /\ UNCHANGED <<durable, ready, passed, orphans>>
  /\ ForgetLoop(committed /\ apart)
  /\ CASE ~committed -> Goto("start") /\ UNCHANGED <<back, round>>
       [] committed /\ carried -> Goto("base") /\ back' = "carry" /\ UNCHANGED round
       [] OTHER -> Goto("round") /\ back' = "round" /\ round' = 1

-----------------------------------------------------------------------------
(* _run_post_commit_synthesis.                                              *)
Synthesize(N) ==
  /\ pc = "round" /\ N # {} /\ N \subseteq Syn \ Ledger /\ Cardinality(N) <= Room
  /\ Goto("base")
  /\ status' = [i \in Items |-> IF i \in N THEN "open" ELSE status[i]]
  /\ pending' = pending \cup N
  /\ UNCHANGED <<accepted, best, stale, owed, proposed, fails, clashes, loops, baseVars, loopVars,
                 orphans>>

(* Nothing new was injected, or an exception ended the rounds.              *)
RoundsEnd ==
  /\ pc = "round" \/ (pc \in Baseline /\ back = "round")
  /\ NextLoop /\ UNCHANGED <<durable, orphans>>

-----------------------------------------------------------------------------
(* The environment.                                                         *)
Crash ==
  /\ pc # "off" /\ Goto("off") /\ ForgetBaseline /\ ForgetLoop(FALSE)
  /\ orphans' = IF pc = "credit" THEN orphans \cup report.newly ELSE orphans
  /\ UNCHANGED durable

RunAgain ==
  /\ pc = "off" /\ Goto("start") /\ UNCHANGED <<durable, baseVars, loopVars, orphans>>

Unblock(i) ==
  /\ pc = "off" /\ status[i] = "blocked" /\ Goto("off")
  /\ status' = [status EXCEPT ![i] = "open"] /\ fails' = [fails EXCEPT ![i] = 0]
  /\ UNCHANGED <<accepted, best, stale, owed, pending, proposed, clashes, loops, baseVars,
                 loopVars, orphans>>

BaselineStep ==
  \/ BaselineNothing \/ BaselineMismatch \/ BaselineBegins
  \/ FixturesRejectedAll \/ BaselineCredits \/ BaselineRecords \/ BaselineEnds
  \/ \E i \in Items : FixtureRejects(i) \/ BaselineCompletes(i)
  \/ \E green \in Answers(best) : BaselineValidates(green)

LoopStep ==
  \/ Start \/ PlanNothing \/ Reject \/ Credit \/ Clash \/ NoClash \/ Stagnate \/ AfterLoop
  \/ \E P \in SUBSET Items : Plan(P)
  \/ \E i \in Items : Blocker(i) \/ WorkerProposes(i)
  \/ \E files \in SUBSET Items : \E green \in Answers(files) : Validate(files, green)
  \/ \E b \in BOOLEAN : Commit(b)
  \/ \E torn, killed \in BOOLEAN : CommitFails(torn, killed)

Next ==
  \/ BaselineStep \/ LoopStep \/ RoundsEnd
  \/ \E N \in SUBSET Syn : Synthesize(N)
  \/ Crash \/ RunAgain
  \/ \E i \in Items : Unblock(i)

Spec == Init /\ [][Next]_vars

-----------------------------------------------------------------------------
(* An item without a gap that nobody closed is guarded by an accepted check *)
(* (commits rerun it), unless its baseline credited it and has not recorded *)
(* it yet, or was killed in between: then it is a synthesized item that is  *)
(* still marked pending.                                                    *)
CreditIsGuarded ==
  \A i \in (Ledger \ owed) \ accepted :
    status[i] = "closed" \/ i \in Synthesized \cap pending

(* The other way round: what is accepted has no gap left and was not closed *)
(* as invalid, unless a kill fell between a commit and its credit.          *)
GuardIsCredited ==
  \A i \in accepted \ orphans :
    (i \in owed => pc = "credit" /\ i \in report.newly) /\ status[i] # "closed"

(* An item closed as invalid stays closed: no handoff, credit, baseline,    *)
(* fuse or operator brings it back, and none of its checks is accepted.     *)
QuarantineIsFinal ==
  [][\A i \in Items : status[i] = "closed" =>
       status'[i] = "closed" /\ (i \in accepted' => i \in accepted)]_vars

(* synthesis_max_total_items bounds the synthesizer's items over the life   *)
(* of the task, resolved ones included, over all rounds, loops and runs.    *)
LifetimeCap == Cardinality(Synthesized) <= MaxTotal

(* Until its baseline is over a synthesized check costs no worker loop: no  *)
(* assignment is about it, no failure is counted, nothing is accepted.      *)
UntestedUntilBaseline ==
  \A i \in pending \cap owed : fails[i] = 0 /\ i \notin plan \cup accepted

(* When a plan is made, once something is committed and the manifest tells  *)
(* the truth about best/, no check waits for its baseline.                  *)
NothingPendingAtPlan == pc = "plan" /\ accepted # {} /\ ~stale => Pending = {}
=============================================================================
