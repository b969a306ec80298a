------------------------------ MODULE Boundary ------------------------------
(***************************************************************************)
(* The rules of a mission's phases: what the deterministic gate reports of *)
(* a candidate with several targets, what the validation pipeline answers  *)
(* at a phase boundary, and how HungerEngine.tick moves the phases.  Every *)
(* item has one acceptance check, so a check is named by its item.         *)
(***************************************************************************)
EXTENDS Naturals, FiniteSets

CONSTANTS
  Phases,   \* a set of numbers, in the order of mission.phases
  Features  \* a set of numbers, in the order of mission.features

ASSUME BoundaryAssumption ==
  /\ Phases \subseteq Nat \ {0} /\ IsFiniteSet(Phases)
  /\ Features \subseteq Nat /\ IsFiniteSet(Features)

PhaseStatuses == {"absent", "pending", "in_progress", "validating", "done"}
FeatureStatuses == {"absent", "pending", "in_progress", "blocked", "done"}
AssertionStatuses == {"absent", "pending", "passed", "failed", "blocked"}
Verdicts == {"PASS", "PARTIAL", "FAIL"}

(* What of a ValidationPipelineResult anything reads, and whether the        *)
(* contract it was made with held the rows of an earlier scrutiny.          *)
Results(items) ==
  [gate : Verdicts, newly : SUBSET items, satisfied : SUBSET items, rows : BOOLEAN,
   scrutiny : {"none", "PASS", "FAIL"}, testing : {"none"} \cup Verdicts]

FirstOf(set) == CHOOSE x \in set : \A y \in set : x <= y
LastOf(set) == CHOOSE x \in set : \A y \in set : y <= x

-----------------------------------------------------------------------------
(* ValidationGate.validate: the targets' checks that are not accepted yet   *)
(* run first; the accepted ones when one of those is green, or none ran.    *)
(* `intact`: so are the checks of items nothing stands for any more.         *)
Gate(targets, accepted, green, intact) ==
  LET fresh == targets \ accepted
      newly == fresh \cap green
      reruns == newly # {} \/ fresh = {}
      again == IF reruns THEN accepted ELSE {}
      satisfied == targets \cap (fresh \cup again) \cap green
      regressed == reruns /\ (~(accepted \subseteq green) \/ ~intact)
      verdict == CASE regressed -> "FAIL"
                   [] ~regressed /\ targets # {} /\ targets \subseteq satisfied -> "PASS"
                   [] ~regressed /\ ~(targets \subseteq satisfied) /\ newly # {} -> "PARTIAL"
                   [] OTHER -> "FAIL"
  IN  [gate |-> verdict, newly |-> newly, satisfied |-> satisfied,
       rows |-> FALSE, scrutiny |-> "none", testing |-> "none"]

(* The synthetic report of a candidate its workers left as they found it.   *)
Untouched == [gate |-> "FAIL", newly |-> {}, satisfied |-> {}, rows |-> FALSE,
              scrutiny |-> "none", testing |-> "none"]

-----------------------------------------------------------------------------
(* ScrutinyValidator._decide_verdict over what the mission's commands        *)
(* answered: passed, failed, or blocked by the timeout.                      *)
ScrutinyVerdict(answers) == IF answers \subseteq {"passed"} THEN "PASS" ELSE "FAIL"

(* UserTestingValidator._decide_verdict.                                    *)
TestingVerdict(answers, missing) ==
  CASE missing -> "FAIL"
    [] ~missing /\ answers \subseteq {"passed"} -> "PASS"
    [] ~missing /\ "failed" \in answers -> "FAIL"
    [] OTHER -> "PARTIAL"

(* ValidationPipelineResult.pipeline_verdict.                               *)
PipelineVerdict(result) ==
  IF "FAIL" \in {result.gate, result.scrutiny, result.testing} THEN "fail" ELSE "pass"

-----------------------------------------------------------------------------
(* HungerEngine._validation_failed and _validation_passed.  `effective` is  *)
(* the verdict of the result the orchestrator hands to the tick.            *)
Failed(effective) == effective = "fail"
Passed(result, effective) ==
  effective = "pass" /\ result.scrutiny = "PASS" /\ result.testing = "PASS"

(* Mutant: whatever passed last, it was for the phase under validation.     *)
MovesForAny(p, phase, feature, home, at, result, effective) ==
  LET mine == {f \in Features : home[f] = p /\ feature[f] # "absent"}
  IN  CASE phase[p] = "validating" /\ at # 0 /\ Failed(effective) -> "in_progress"
        [] phase[p] = "validating" /\ at # 0 /\ Passed(result, effective) -> "done"
        [] phase[p] = "pending" /\ (\E f \in mine : feature[f] = "in_progress") -> "in_progress"
        [] phase[p] = "in_progress" /\ mine # {} /\ (\A f \in mine : feature[f] = "done")
             -> "validating"
        [] OTHER -> phase[p]

(* One phase in _advance_mission_phases; `home` is feature.phase_id, and     *)
(* `at` the phase the result is about, 0 when the tick has none.            *)
Moves(p, phase, feature, home, at, result, effective) ==
  LET mine == {f \in Features : home[f] = p /\ feature[f] # "absent"}
  IN  CASE phase[p] = "validating" /\ p = at /\ Failed(effective) -> "in_progress"
        [] phase[p] = "validating" /\ p = at /\ Passed(result, effective) -> "done"
        [] phase[p] = "pending" /\ (\E f \in mine : feature[f] = "in_progress") -> "in_progress"
        [] phase[p] = "in_progress" /\ mine # {} /\ (\A f \in mine : feature[f] = "done")
             -> "validating"
        [] OTHER -> phase[p]

Advance(phase, feature, home, at, result, effective) ==
  [p \in Phases |-> Moves(p, phase, feature, home, at, result, effective)]

Quiet(phase, feature, home) == Advance(phase, feature, home, 0, Untouched, "fail")

(* The status the tick remembers: that of the last phase it moved or found   *)
(* validating.                                                               *)
LastMove(phase, after) ==
  LET seen == {p \in Phases : phase[p] = "validating" \/ after[p] # phase[p]}
  IN  IF seen = {} THEN "none" ELSE after[LastOf(seen)]
=============================================================================
