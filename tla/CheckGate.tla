------------------------------ MODULE CheckGate ------------------------------
(***************************************************************************)
(* What the validation gate reports of a candidate, and whether the commit *)
(* manager takes it.  Every acceptance check belongs to one hunger item;   *)
(* `accepted` is the best state's accepted_check_keys, and `green` the     *)
(* checks whose command succeeds on the candidate's files, confirmation    *)
(* reruns of regressed checks included.                                    *)
(***************************************************************************)
EXTENDS Naturals, FiniteSets

CONSTANTS
  Items,         \* hunger items
  Checks,        \* acceptance check keys, "item:index"
  ItemOf,        \* the item of each check
  Mode,          \* acceptance_mode of each item: "all" or "any"
  Continuation   \* policy.rejected_candidate_continuation_enabled

ASSUME ItemsAssumption == IsFiniteSet(Items)
ASSUME ChecksAssumption == IsFiniteSet(Checks)
ASSUME ItemOfAssumption == ItemOf \in [Checks -> Items]
ASSUME ModeAssumption == Mode \in [Items -> {"all", "any"}]
ASSUME ContinuationAssumption == Continuation \in BOOLEAN

ChecksOf(i) == {c \in Checks : ItemOf[c] = i}

Verdicts == {"PASS", "PARTIAL", "FAIL"}
Reports == [verdict : Verdicts, newly : SUBSET Checks, regressed : SUBSET Checks,
            current : SUBSET Checks, satisfied : BOOLEAN, evidence : BOOLEAN]

-----------------------------------------------------------------------------
(* Phase 1 runs the target's checks that are not accepted yet; phase 2 runs  *)
(* the accepted ones when phase 1 turned one green, had none to run, or when *)
(* a rejected candidate may be continued.                                    *)
PhaseOne(accepted, i) == ChecksOf(i) \ accepted

(* Mutant: accepted checks are not run again. *)
PhaseTwoNever(accepted, i, green) == {}

PhaseTwo(accepted, i, green) ==
  IF PhaseOne(accepted, i) \cap green # {} \/ PhaseOne(accepted, i) = {} \/ Continuation
  THEN accepted ELSE {}

Ran(accepted, i, green) == PhaseOne(accepted, i) \cup PhaseTwo(accepted, i, green)

(* Mutant: an "any" reading of every item. *)
SatisfiedByOne(i, ran, green) == ran \cap ChecksOf(i) \cap green # {}

(* Only the checks of this run count: an item none of whose checks ran is   *)
(* unsatisfied.                                                             *)
Satisfied(i, ran, green) ==
  LET mine == ran \cap ChecksOf(i)
  IN  IF Mode[i] = "all" THEN mine # {} /\ mine \subseteq green ELSE mine \cap green # {}

(* The target is one item (the rule-based planner assigns one).             *)
Verdict(newly, regressed, satisfied, evidence) ==
  CASE regressed # {} \/ ~evidence -> "FAIL"
    [] regressed = {} /\ evidence /\ satisfied -> "PASS"
    [] regressed = {} /\ evidence /\ ~satisfied /\ newly # {} -> "PARTIAL"
    [] OTHER -> "FAIL"

Report(accepted, i, green, evidence) ==
  LET ran == Ran(accepted, i, green)
      newly == PhaseOne(accepted, i) \cap green
      regressed == (ran \cap accepted) \ green
      satisfied == Satisfied(i, ran, green)
  IN  [verdict   |-> Verdict(newly, regressed, satisfied, evidence),
       newly     |-> newly,
       regressed |-> regressed,
       current   |-> (ran \cap green) \cup (accepted \ ran),
       satisfied |-> satisfied,
       evidence  |-> evidence]

(* The synthetic report of a candidate its worker left as it found it.      *)
UnchangedReport(accepted) ==
  [verdict |-> "FAIL", newly |-> {}, regressed |-> {}, current |-> accepted,
   satisfied |-> FALSE, evidence |-> TRUE]

-----------------------------------------------------------------------------
(* Mutant: newly passed checks are enough, whatever regressed. *)
CommitsAnyPass(report, declared) == report.evidence /\ report.newly # {}

(* CommitManager._can_commit: `declared` are the declared_regression_keys of *)
(* the open transaction of the task, {} when there is none.                  *)
CanCommit(report, declared) ==
  /\ report.verdict \in {"PASS", "PARTIAL"}
  /\ report.newly # {}
  /\ report.evidence
  /\ report.regressed \subseteq declared

(* What the ledger, the stagnation detector and the auto-open trigger see of *)
(* a report: nothing new of a candidate that was not committed.              *)
Effective(report, committed) ==
  IF committed THEN report
  ELSE [report EXCEPT !.newly = {}, !.satisfied = FALSE]

(* The acceptance mode of an item, read off the accepted checks.            *)
Accepts(i, accepted) ==
  IF Mode[i] = "all" THEN ChecksOf(i) \subseteq accepted
  ELSE ChecksOf(i) \cap accepted # {}
=============================================================================
