------------------------------ MODULE Dispatch ------------------------------
(***************************************************************************)
(* The work phase of one loop: the mission planner's plan, its assignments *)
(* run one after the other by WorkerScheduler in one candidate tree, and,  *)
(* in a task's first loop, draft sampling: the plan is run Drafts times,   *)
(* each time from a fresh tree, every draft is evaluated and archived, and *)
(* the best one's tree, handoffs and evidence are put back as if it had    *)
(* been the only one.  An attempt is what Attempt says.  Nothing but rows, *)
(* audit, evidence and tree survives a kill, so what a kill leaves is what *)
(* these hold in any state.                                                *)
(***************************************************************************)
EXTENDS MissionPlan, Attempt

CONSTANTS
  MaxRetries,  \* budget.max_assignment_retries
  Drafts,      \* policy.draft_sampling_k
  Backlogs,    \* bound: what a loop may find to plan for
  Outcomes,    \* bound: what attempts answer
  Evaluations, \* bound: what validating a draft may find
  MaxLoose     \* bound: commands that outlive their attempt

(* needs: which feature refers to which; ledger: number of ledger-only      *)
(* candidates; slots: min(max_workers_per_loop, max_parallel_features);     *)
(* fresh: no check is accepted and no loop has a trace yet.                 *)
Backlog(b) ==
  LET n == Cardinality(DOMAIN b.needs)
  IN /\ n \in Nat
     /\ b \in [needs : [1..n -> SUBSET (1..n)], ledger : Nat, slots : Nat,
               loop : Nat \ {0}, fresh : BOOLEAN]
     /\ \A f \in 1..n : f \notin b.needs[f]

ASSUME DispatchAssumption ==
  /\ {MaxRetries, MaxLoose} \subseteq Nat /\ Drafts \in Nat \ {0}
  /\ Outcomes \subseteq Results
  /\ \A b \in Backlogs : Backlog(b)
  /\ Evaluations \subseteq [gate : BOOLEAN, newly : Nat, failing : Nat]

VARIABLES
  backlog,   \* what the loop found to plan for
  plan,      \* plan.assignments
  pc,
  draft,     \* index of the running pass
  todo,      \* assignments of the pass still to look at
  retries,   \* assignment.retry_count
  failed, skipped,
  handoffs,  \* final handoffs of the pass, in the order they ended
  drafts,    \* what each finished draft left: handoffs, skipped, evaluation
  (* durable *)
  rows,      \* worker_handoffs of the loop: assignment, retry count, answer, draft
  audit,     \* handoffs/<assignment>.json: which draft wrote it
  evidence,  \* drafts whose tool-call evidence exists
  tree,      \* the draft the candidate tree belongs to
  (* history *)
  answered   \* attempts of the pass that returned to the scheduler

passVars == <<todo, failed, skipped, handoffs, answered>>
storeVars == <<rows, audit, evidence, tree>>
vars == <<attemptVars, backlog, plan, pc, draft, passVars, retries, drafts, storeVars>>

needs == backlog.needs
Features == DOMAIN needs
Jobs == 1..(Cardinality(Features) + backlog.ledger)
Handoffs == [job : Jobs, try : 0..MaxRetries, answer : Results]

TypeOK ==
  /\ backlog \in Backlogs /\ draft \in 1..Drafts
  /\ ToSet(plan) \cup ToSet(todo) \cup failed \cup skipped \subseteq Jobs
  /\ retries \in [Jobs -> 0..MaxRetries]
  /\ ToSet(handoffs) \cup answered \subseteq Handoffs
  /\ rows \subseteq [job : Jobs, try : 0..MaxRetries, answer : Results, draft : 1..Drafts]
  /\ audit \in [Jobs -> 0..Drafts]
  /\ evidence \subseteq 1..Drafts /\ tree \in 1..Drafts
  /\ spent \in Nat /\ loose \in 0..MaxLoose

Init ==
  /\ AttemptInit
  /\ backlog \in Backlogs
  /\ plan = <<>> /\ pc = "plan" /\ draft = 1 /\ todo = <<>>
  /\ retries = [j \in Jobs |-> 0] /\ failed = {} /\ skipped = {} /\ handoffs = <<>>
  /\ drafts = <<>> /\ rows = {} /\ audit = [j \in Jobs |-> 0] /\ evidence = {} /\ tree = 1
  /\ answered = {}

-----------------------------------------------------------------------------
(* LoopOrchestrator._step_inner: plan, or stop at a cycle.                  *)

Goto(place) == pc' = place
(* _should_draft_sample                                                     *)
Drafting == Drafts > 1 /\ backlog.fresh /\ plan # <<>>

Depends(job) == DependsOn(needs, plan, job)

(* The scheduler orders what it is given once more, in rounds.              *)
Rounds(assignments) ==
  [i \in 1..(Len(assignments) * Len(assignments)) |-> assignments[1 + ((i - 1) % Len(assignments))]]

Schedule(assignments, done, job) ==
  IF job \notin ToSet(done) /\ DependsOn(needs, assignments, job) \subseteq ToSet(done)
  THEN Append(done, job) ELSE done

Arranged(assignments) ==
  FoldLeft(LAMBDA done, job : Schedule(assignments, done, job), <<>>, Rounds(assignments))

StartPass(assignments) ==
  /\ plan' = assignments
  /\ todo' = Arranged(assignments)
  /\ failed' = {} /\ skipped' = {} /\ handoffs' = <<>> /\ answered' = {}

MakePlan ==
  /\ pc = "plan"
  /\ IF backlog.slots > 0 /\ Cyclic(needs)
     THEN Goto("stopped") /\ UNCHANGED <<plan, passVars>>
     ELSE /\ \E assignments \in {Plan(needs, backlog.ledger, backlog.slots, backlog.loop)} :
               StartPass(assignments)
          /\ Goto("next")
  /\ UNCHANGED <<attemptVars, backlog, draft, retries, drafts, storeVars>>

-----------------------------------------------------------------------------
(* WorkerScheduler.execute_assignments                                      *)

Current == Head(todo)

(* Mutant: what was skipped does not hold back its dependents.              *)
HeldBackByFailure(job) == Depends(job) \cap failed # {}

HeldBack(job) == Depends(job) \cap (failed \cup skipped) # {}

(* Mutant: an assignment waits for what has failed.                         *)
SkipWaits == pc = "next" /\ todo # <<>> /\ HeldBack(Current) /\ UNCHANGED vars

Skip ==
  /\ pc = "next" /\ todo # <<>> /\ HeldBack(Current)
  /\ skipped' = skipped \cup {Current} /\ todo' = Tail(todo)
  /\ UNCHANGED <<attemptVars, backlog, plan, pc, draft, retries, failed, handoffs, drafts,
                 storeVars, answered>>

(* The cost guard's refusal, before or in an attempt, skips the rest of the *)
(* plan, and the scheduler's result is lost with it.                        *)
Stopped == Goto("stopped") /\ skipped' = skipped \cup ToSet(todo) /\ todo' = <<>>

Take ==
  /\ pc = "next" /\ todo # <<>> /\ ~HeldBack(Current)
  /\ Begin
  /\ IF result' = "stop" THEN Stopped ELSE Goto("attempt") /\ UNCHANGED <<todo, skipped>>
  /\ UNCHANGED <<backlog, plan, draft, retries, failed, handoffs, drafts, storeVars, answered>>

TakeNobody ==
  /\ pc = "next" /\ todo # <<>> /\ ~HeldBack(Current) /\ spent < Ceiling
  /\ Unmanned /\ Goto("attempt")
  /\ UNCHANGED <<backlog, plan, draft, passVars, retries, drafts, storeVars>>

(* What the attempt does meanwhile; its tool calls leave evidence.          *)
Works ==
  /\ pc = "attempt"
  /\ (Spend \/ Touch \/ Finish \/ (Expire /\ loose' <= MaxLoose))
  /\ result' \in Outcomes \cup {"running", "stop"}
  /\ evidence' = IF touched' THEN evidence \cup {draft} ELSE evidence
  /\ UNCHANGED <<backlog, plan, pc, draft, passVars, retries, drafts, rows, audit, tree>>

Handoff == [job |-> Current, try |-> retries[Current], answer |-> result]
Row == [job |-> Current, try |-> retries[Current], answer |-> result, draft |-> draft]

(* Mutant: only the last attempt of an assignment is persisted.             *)
PersistLast ==
  IF result \in Retryable /\ retries[Current] < MaxRetries
  THEN UNCHANGED <<rows, audit>>
  ELSE rows' = rows \cup {Row} /\ audit' = [audit EXCEPT ![Current] = draft]

(* Every attempt has a row of its own; the audit file is the last one's.    *)
Persist == rows' = rows \cup {Row} /\ audit' = [audit EXCEPT ![Current] = draft]

Conclude ==
  /\ handoffs' = Append(handoffs, Handoff)
  /\ failed' = IF result = "done" THEN failed ELSE failed \cup {Current}
  /\ todo' = Tail(todo)
  /\ Goto("next") /\ UNCHANGED <<retries, skipped, attemptVars>>

(* assignment.retry_count belongs to the plan, and stays when a later draft *)
(* runs the plan again.                                                     *)
MayRetry == result \in Retryable /\ retries[Current] < MaxRetries

(* The retry works in the tree the failed attempt left.                     *)
Retry ==
  /\ retries' = [retries EXCEPT ![Current] = @ + 1]
  /\ Begin
  /\ UNCHANGED <<handoffs, failed>>
  /\ IF result' = "stop" THEN Stopped ELSE Goto("attempt") /\ UNCHANGED <<todo, skipped>>

Answer ==
  /\ pc = "attempt" /\ ~Running
  /\ IF result = "stop"
     THEN Stopped /\ UNCHANGED <<attemptVars, handoffs, failed, retries, rows, audit, answered>>
     ELSE /\ Persist /\ answered' = answered \cup {Handoff}
          /\ IF MayRetry THEN Retry ELSE Conclude
  /\ UNCHANGED <<backlog, plan, draft, drafts, evidence, tree>>

(* Commands left behind go on in the candidate tree.                        *)
Stray ==
  /\ pc \notin {"plan", "stopped"}
  /\ (LooseTouch \/ LooseEnds)
  /\ UNCHANGED <<backlog, plan, pc, draft, passVars, retries, drafts, storeVars>>

PassEnds == pc = "next" /\ todo = <<>>

(* Without draft sampling the handoffs are delivered as they are.           *)
Deliver ==
  /\ PassEnds /\ ~Drafting
  /\ Goto("over")
  /\ UNCHANGED <<attemptVars, backlog, plan, draft, passVars, retries, drafts, storeVars>>

-----------------------------------------------------------------------------
(* LoopOrchestrator._run_draft_sampling                                     *)

(* validation_pipeline.run for selection only, and archive_draft.           *)
Evaluate ==
  /\ PassEnds /\ Drafting /\ Len(drafts) < draft
  /\ \E evaluation \in Evaluations :
       drafts' = Append(drafts, [handoffs |-> handoffs, evaluation |-> evaluation])
  /\ UNCHANGED <<attemptVars, backlog, plan, pc, draft, passVars, retries, storeVars>>

DropRows == rows' = {}

(* The next draft starts from a fresh tree and without the rows of the last. *)
NextDraft ==
  /\ PassEnds /\ Drafting /\ Len(drafts) = draft /\ draft < Drafts
  /\ draft' = draft + 1 /\ tree' = draft + 1 /\ touched' = FALSE
  /\ DropRows
  /\ StartPass(plan)
  /\ UNCHANGED <<spent, loose, result, backlog, pc, retries, drafts, audit, evidence>>

(* commit_selection.sort_key: newly passed, failing, then the draft's id.   *)
Better(i, j) ==
  LET a == drafts[i].evaluation
      b == drafts[j].evaluation
  IN \/ a.newly > b.newly
     \/ a.newly = b.newly /\ a.failing < b.failing
     \/ a.newly = b.newly /\ a.failing = b.failing /\ i < j

PassesGate(i) == drafts[i].evaluation.gate

(* Mutant: the fallback order for everyone.                                 *)
ContendersAll == DOMAIN drafts

(* select_commit_candidate, or select_fallback_base when nothing passes.    *)
Contenders ==
  IF \E i \in DOMAIN drafts : PassesGate(i)
  THEN {i \in DOMAIN drafts : PassesGate(i)}
  ELSE DOMAIN drafts

Winner == CHOOSE i \in Contenders : \A j \in Contenders \ {i} : Better(i, j)

Restore ==
  /\ PassEnds /\ Drafting /\ Len(drafts) = Drafts
  /\ tree' = Winner
  /\ touched' \in BOOLEAN
  /\ Goto("settle")
  /\ UNCHANGED <<spent, loose, result, backlog, plan, draft, passVars, retries, drafts,
                 rows, audit, evidence>>

WinnersRows ==
  {[job |-> h.job, try |-> h.try, answer |-> h.answer, draft |-> Winner] :
     h \in ToSet(drafts[Winner].handoffs)}

(* Mutant: the losers' evidence goes in a transaction of its own, first.    *)
SettleApart ==
  /\ pc = "settle"
  /\ \/ evidence \ {Winner} # {} /\ evidence' = evidence \cap {Winner} /\ UNCHANGED <<rows, pc>>
     \/ evidence \ {Winner} = {} /\ rows' = WinnersRows /\ Goto("audit") /\ UNCHANGED evidence
  /\ UNCHANGED <<attemptVars, backlog, plan, draft, passVars, retries, drafts, audit, tree>>

(* One transaction: the rows become the winner's, the losers' tool-call     *)
(* evidence goes.                                                           *)
Settle ==
  /\ pc = "settle"
  /\ rows' = WinnersRows
  /\ evidence' = evidence \cap {Winner}
  /\ Goto("audit")
  /\ UNCHANGED <<attemptVars, backlog, plan, draft, passVars, retries, drafts, audit, tree>>

(* The audit files of the winner's handoffs are written again.              *)
RewriteAudit ==
  /\ pc = "audit"
  /\ audit' = [j \in Jobs |-> IF \E h \in ToSet(drafts[Winner].handoffs) : h.job = j
                              THEN Winner ELSE audit[j]]
  /\ handoffs' = drafts[Winner].handoffs
  /\ Goto("over")
  /\ UNCHANGED <<attemptVars, backlog, plan, draft, todo, failed, skipped, answered,
                 retries, drafts, rows, evidence, tree>>

-----------------------------------------------------------------------------
Planned == pc = "plan" /\ pc' \in {"next", "stopped"}

Proceeds ==
  \/ Skip \/ Take \/ TakeNobody \/ (Works /\ ~Running') \/ Answer \/ Deliver
  \/ Evaluate \/ NextDraft \/ Restore \/ Settle \/ RewriteAudit

Next == MakePlan \/ Proceeds \/ Works \/ Stray

(* The planner returns, an attempt answers, and the scheduler goes on.      *)
Spec == Init /\ [][Next]_vars /\ WF_pc(Planned) /\ WF_vars(Proceeds)

-----------------------------------------------------------------------------
(* A plan contains what its features need, in an order in which each comes  *)
(* after all it needs, within its slots, and no cycle reaches the scheduler *)
(* (MissionPlanner.plan; LoopPlan: dependencies appear before dependents).  *)
PlanIsClosed ==
  /\ Len(plan) <= backlog.slots
  /\ \A i \in DOMAIN plan :
       plan[i] \in Features => needs[plan[i]] \subseteq {plan[k] : k \in 1..(i - 1)}
  /\ \A i, j \in DOMAIN plan : plan[i] = plan[j] => i = j

(* Whatever the slots, in any 2n loops with the same candidates every one   *)
(* of the n ledger candidates is planned, and in any two a feature is       *)
(* (MissionPlanner._ledger_slot_count and _select_ledger_candidates).       *)
NoLaneStarves ==
  pc = "plan" /\ backlog.slots > 0 /\ ~Cyclic(needs) =>
    LET planned(last) ==
          UNION {ToSet(Plan(needs, backlog.ledger, backlog.slots, l)) : l \in backlog.loop..last}
    IN /\ Jobs \ Features \subseteq planned(backlog.loop + 2 * backlog.ledger - 1)
       /\ Features # {} => planned(backlog.loop + 1) \cap Features # {}

(* A pass skips exactly the assignments something they need, directly or    *)
(* not, has failed for, unless the ceiling ended it, and loses none.        *)
SkipsExactly ==
  PassEnds =>
    skipped = {j \in ToSet(plan) \cap Features : Ancestors(needs, j) \cap failed # {}}

(* Every attempt that returned has its row, also when the ceiling ends the  *)
(* pass or at a kill, and the rows of two drafts never mix                  *)
(* (WorkerScheduler._persist_handoff).                                      *)
EveryAnswerHasItsRow ==
  pc \notin {"audit", "over"} \/ ~Drafting =>
    rows = {[job |-> h.job, try |-> h.try, answer |-> h.answer, draft |-> draft] : h \in answered}

(* Evidence of a draft that ran is missing only where the rows are the      *)
(* winner's: the settlement of draft sampling is never seen half done.      *)
SettlesAtOnce ==
  [][Len(drafts) = Drafts /\ evidence' # evidence => rows' = WinnersRows]_vars

(* What leaves draft sampling is one draft: a best one that passes the gate *)
(* if any does, with its tree, its rows, its evidence and its audit files.  *)
OneDraftLeaves ==
  pc = "over" /\ Drafting =>
    /\ \A i \in DOMAIN drafts : PassesGate(i) => PassesGate(tree)
    /\ \A i \in DOMAIN drafts : PassesGate(i) = PassesGate(tree) => ~(i # tree /\ Better(i, tree))
    /\ rows = WinnersRows /\ \A row \in rows : row.draft = tree /\ audit[row.job] = tree
    /\ evidence \subseteq {tree}

(* The work phase ends: with handoffs, at the ceiling or at a cycle.        *)
WorkEnds == <>(pc \in {"over", "stopped"})
=============================================================================
