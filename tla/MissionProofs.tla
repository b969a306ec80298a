---------------------------- MODULE MissionProofs ----------------------------
(***************************************************************************)
(* What a phase that is done has behind it, for any phases, features and   *)
(* bounds: its features, its own assertion, committed work.  The           *)
(* properties are not inductive.  That the work of a plan never undoes a   *)
(* validated phase rests on its features' phases being under way while the *)
(* plan lasts; that a result finishes the phase it was found for rests on  *)
(* that phase staying under validation until the tick that is told of it.  *)
(***************************************************************************)
EXTENDS Mission, FiniteSetTheorems, WellFoundedInduction, TLAPS

LEMMA FirstIsMember == ASSUME NEW S, S \subseteq Nat, S # {} PROVE FirstOf(S) \in S
<1> DEFINE R == {ss \in Nat \X Nat : ss[1] < ss[2]}
<1>1. OpToRel(<, Nat) = R
  BY Zenon DEF OpToRel
<1>2. IsWellFoundedOn(R, Nat)
  BY <1>1, NatLessThanWellFounded, Zenon
<1>3. PICK x \in S : \A y \in S : ~ (<<y, x>> \in R)
  BY <1>2, WFMin, Zenon
<1>4. ASSUME NEW y \in S PROVE x <= y
<2>1. <<y, x>> \in R <=> y < x
  OBVIOUS
<2>2. x \in Nat /\ y \in Nat
  OBVIOUS
<2>. QED
  BY <1>3, <2>1, <2>2
<1>. QED
  BY <1>4 DEF FirstOf

(* What the constants are. *)
LEMMA Assumptions ==
  /\ Phases \subseteq Nat /\ 0 \notin Phases /\ Features \subseteq Nat
  /\ PhaseOf \in [Features -> Phases] /\ Specs \subseteq MissionSpecs
  /\ Late \subseteq Features
  /\ MaxLoops \in Nat \ {0} /\ LoopCap \in Nat \ {0}
  /\ Features \subseteq Items /\ Extras \subseteq Items /\ Issues \subseteq Items
BY BoundaryAssumption, MissionAssumption DEF Items

(* A gate's report is about items.                                          *)
LEMMA GateType ==
  ASSUME NEW targets \in SUBSET Items, NEW keys \in SUBSET Items, NEW green, NEW intact
  PROVE  /\ Gate(targets, keys, green, intact) \in Results(Items)
         /\ Gate(targets, keys, green, intact).testing = "none"
         /\ Gate(targets, keys, green, intact).satisfied
              \subseteq keys \cup Gate(targets, keys, green, intact).newly
BY DEF Gate, Results, Verdicts

(* The phase a plan or an empty plan is validated for exists.               *)
LEMMA AssessedType ==
  ASSUME NEW items, NEW ph \in [Phases -> PhaseStatuses], home \in [Features -> Phases]
  PROVE  /\ Assessed(items, ph) \in Phases \cup {0}
         /\ items = {} /\ Assessed(items, ph) # 0 => ph[Assessed(items, ph)] = "validating"
<1>1. items \cap Features # {} => FirstOf(items \cap Features) \in Features
  BY FirstIsMember, Assumptions
<1>2. Validating(ph) # {} => FirstOf(Validating(ph)) \in Validating(ph)
  BY FirstIsMember, Assumptions DEF Validating
<1>. QED
  BY <1>1, <1>2, Assumptions DEF Assessed, Validating

(* The tick moves phases to statuses.                                       *)
LEMMA AdvanceType ==
  ASSUME NEW ph \in [Phases -> PhaseStatuses], NEW ft, NEW hm, NEW p, NEW res, NEW effective
  PROVE  Advance(ph, ft, hm, p, res, effective) \in [Phases -> PhaseStatuses]
BY DEF Advance, Moves, PhaseStatuses

LEMMA MarkFeaturesType ==
  ASSUME NEW set, NEW to \in FeatureStatuses, feature \in [Features -> FeatureStatuses]
  PROVE  MarkFeatures(set, to) \in [Features -> FeatureStatuses]
BY DEF MarkFeatures

LEMMA MarkItemsType ==
  ASSUME NEW set, NEW to \in {"absent", "open", "blocked", "satisfied"},
         status \in [Items -> {"absent", "open", "blocked", "satisfied"}]
  PROVE  MarkItems(set, to) \in [Items -> {"absent", "open", "blocked", "satisfied"}]
BY DEF MarkItems

LEMMA TroubleType == ASSUME troubles \in Nat, Trouble
                     PROVE  troubles' \in Nat /\ flawless' \in BOOLEAN
<1>1. troubles' \in Nat
  BY DEF Trouble
<1>2. flawless' \in BOOLEAN
  BY Zenon DEF Trouble
<1>. QED
  BY <1>1, <1>2

LEMMA InitType == Init => TypeOK
<1> SUFFICES ASSUME Init PROVE TypeOK
  OBVIOUS
<1> USE Assumptions DEF Init
<1>1. /\ phase \in [Phases -> PhaseStatuses] /\ feature \in [Features -> FeatureStatuses]
      /\ asserted \in [Phases -> AssertionStatuses] /\ home \in [Features -> Phases]
      /\ listed \in [Phases -> SUBSET Features]
  BY DEF PhaseStatuses, FeatureStatuses, AssertionStatuses
<1>2. /\ status \in [Items -> {"absent", "open", "blocked", "satisfied"}]
      /\ fails \in [Items -> Nat]
  OBVIOUS
<1>3. result \in Results(Items)
  BY DEF Untouched, Results, Verdicts
<1>4. stop \in StopReasons \cup {"none"} /\ pc \in InLoop \cup {"tick", "stop", "down"}
  OBVIOUS
<1>5. loops \in 0..MaxLoops /\ turns \in 0..LoopCap /\ runs \in Nat /\ streak \in Nat
      /\ troubles \in Nat
  OBVIOUS
<1>. QED
  BY <1>1, <1>2, <1>3, <1>4, <1>5 DEF TypeOK

(* A plan starts from nothing. *)
AtRest == pc \in {"tick", "plan"} => plan = {} /\ ~boundary /\ result = Untouched

(* A loop is under way, or about to be. *)
Running == pc \notin {"stop", "down"}

(* A boundary is that of a phase under validation, until its result is told *)
(* to the tick.                                                             *)
BoundaryIsOpen ==
  /\ Running /\ boundary => at \in Phases /\ phase[at] = "validating"
  /\ pc \in {"scrutiny", "testing"} => boundary

(* A pass of user testing is in the contract, for the phase it is about.    *)
PassIsRecorded ==
  Running /\ result.testing = "PASS" => at \in Phases /\ asserted[at] \in {"passed", "absent"}

(* The features of a plan belong to phases that are open for work, unless an *)
(* import has put them elsewhere.                                           *)
PlanIsUnderWay ==
  \A f \in plan \cap Features :
    \/ phase[home[f]] \notin {"validating", "done"}
    \/ feature[f] = "absent"
    \/ f \in disturbed

(* A phase has all its features from the moment its validation begins.      *)
ClosedIsWhole ==
  \A f \in Features :
    phase[home[f]] \in {"validating", "done"}
      => feature[f] \in {"done", "absent"} \/ f \in disturbed

(* A feature is done with its check, and a report counts satisfied only what *)
(* is accepted already or will be with it.                                  *)
DoneIsAccepted ==
  /\ \A f \in Features : feature[f] = "done" => f \in accepted \/ f \in unproved
  /\ Running => result.satisfied \subseteq accepted \cup result.newly

(* A feature has a phase. *)
Housed == \A f \in Features : feature[f] # "absent" => phase[home[f]] # "absent"

Rest == /\ AtRest /\ BoundaryIsOpen /\ PassIsRecorded /\ PlanIsUnderWay
        /\ ClosedIsWhole /\ DoneIsAccepted /\ DonePhaseIsValidated /\ Housed

Inv == TypeOK /\ Rest

(* What an import leaves of what was there.                                 *)
LEMMA MergedType ==
  ASSUME NEW D, NEW S, "absent" \in S, NEW old \in [D -> S], NEW given \in [D -> S], NEW there
  PROVE  /\ Merged(old, there, given) \in [D -> S]
         /\ \A x \in D : old[x] # "absent" => Merged(old, there, given)[x] \in {"absent", old[x]}
BY DEF Merged

LEMMA SpecType ==
  ASSUME NEW spec \in Specs
  PROVE  /\ spec.home \in [Features -> Phases]
         /\ spec.claim \in [Features -> FeatureStatuses]
         /\ spec.declared \in [Phases -> PhaseStatuses]
         /\ spec.verdict \in [Phases -> AssertionStatuses]
<1>1. spec \in MissionSpecs
  BY Assumptions
<1>. QED
  BY <1>1 DEF MissionSpecs

LEMMA ImportKeeps ==
  ASSUME TypeOK, NEW spec \in Specs
  PROVE  /\ WithFeatures(spec) \in [Features -> FeatureStatuses]
         /\ \A f \in Features : feature[f] # "absent"
              => WithFeatures(spec)[f] \in {"absent", feature[f]}
         /\ WithPhases(spec) \in [Phases -> PhaseStatuses]
         /\ \A p \in Phases : phase[p] # "absent" => WithPhases(spec)[p] \in {"absent", phase[p]}
<1>1. "absent" \in FeatureStatuses /\ "absent" \in PhaseStatuses
  BY DEF FeatureStatuses, PhaseStatuses
<1>2. feature \in [Features -> FeatureStatuses] /\ phase \in [Phases -> PhaseStatuses]
  BY DEF TypeOK
<1>3. /\ Merged(feature, spec.features, spec.claim) \in [Features -> FeatureStatuses]
      /\ \A f \in Features : feature[f] # "absent" =>
           Merged(feature, spec.features, spec.claim)[f] \in {"absent", feature[f]}
  BY <1>1, <1>2, SpecType, MergedType
<1>4. /\ Merged(phase, spec.phases, spec.declared) \in [Phases -> PhaseStatuses]
      /\ \A p \in Phases : phase[p] # "absent" =>
           Merged(phase, spec.phases, spec.declared)[p] \in {"absent", phase[p]}
  BY <1>1, <1>2, SpecType, MergedType
<1>. QED
  BY <1>2, <1>3, <1>4 DEF WithFeatures, WithPhases

LEMMA ImportType ==
  ASSUME TypeOK, NEW spec \in Specs, Import(spec)
  PROVE  /\ phase' \in [Phases -> PhaseStatuses] /\ feature' \in [Features -> FeatureStatuses]
         /\ home' \in [Features -> Phases] /\ asserted' \in [Phases -> AssertionStatuses]
         /\ scarred' \subseteq Phases /\ fails' \in [Items -> Nat]
         /\ status' \in [Items -> {"absent", "open", "blocked", "satisfied"}]
         /\ owed' \subseteq Items /\ accepted' \subseteq Items /\ hindered' \subseteq Items
         /\ relics' \in BOOLEAN /\ listed' \in [Phases -> SUBSET Features]
<1>1. Change(spec)
  BY DEF Import
<1>2. phase' \in [Phases -> PhaseStatuses] /\ feature' \in [Features -> FeatureStatuses]
  BY <1>1, ImportKeeps DEF Change
<1>3. home' \in [Features -> Phases]
  BY <1>1, SpecType DEF Change, Homes, TypeOK
<1>4. asserted' \in [Phases -> AssertionStatuses] /\ scarred' \subseteq Phases
  <2> DEFINE before == [p \in Phases |-> IF p \in spec.fresh THEN "absent" ELSE asserted[p]]
  <2>1. "absent" \in AssertionStatuses /\ asserted \in [Phases -> AssertionStatuses]
    BY DEF AssertionStatuses, TypeOK
  <2>2. before \in [Phases -> AssertionStatuses]
    BY <2>1
  <2>3. Merged(before, spec.asserts, spec.verdict) \in [Phases -> AssertionStatuses]
    <3> HIDE DEF before
    <3>. QED
      BY <2>1, <2>2, SpecType, MergedType
  <2>4. \/ asserted' = Merged(before, spec.asserts, spec.verdict) /\ scarred' = {}
        \/ asserted' = asserted /\ scarred' = scarred
    BY <1>1 DEF Change, ContractRows
  <2>. QED
    BY <2>1, <2>3, <2>4 DEF TypeOK
<1>5. /\ status' \in [Items -> {"absent", "open", "blocked", "satisfied"}]
      /\ fails' \in [Items -> Nat]
  <2> DEFINE Statuses == {"absent", "open", "blocked", "satisfied"}
             before == [i \in Items |-> IF i \in Replaced(spec) THEN "absent" ELSE status[i]]
             open == [i \in Items |-> "open"]
             there == {f \in Features : feature'[f] # "absent"}
                        \cup {i \in Extras \cup Issues : status[i] # "absent"}
  <2>1. before \in [Items -> Statuses] /\ open \in [Items -> Statuses] /\ "absent" \in Statuses
    BY DEF TypeOK
  <2>2. status' = Merged(before, there, open)
    BY <1>1 DEF Change, MergeLedger
  <2>3. Merged(before, there, open) \in [Items -> Statuses]
    <3> HIDE DEF before, open, there, Statuses
    <3>. QED
      BY <2>1, MergedType
  <2>4. fails' \in [Items -> Nat]
    BY <1>1 DEF Change, MergeLedger, TypeOK
  <2>. QED
    BY <2>2, <2>3, <2>4
<1>6. /\ owed' \subseteq Items /\ accepted' \subseteq Items /\ hindered' \subseteq Items
  BY <1>1, Assumptions DEF Change, MergeLedger, TypeOK
<1>7. relics' \in BOOLEAN
  BY <1>1, Zenon DEF Change, MergeLedger
<1>8. listed' \in [Phases -> SUBSET Features]
  <2>1. spec.bullets \in [Phases -> SUBSET Features]
    BY Assumptions DEF MissionSpecs
  <2>. QED
    BY <1>1, <2>1 DEF Change, Lists, TypeOK
<1>. QED
  BY <1>2, <1>3, <1>4, <1>5, <1>6, <1>7, <1>8

(* Every step keeps the variables in their types. *)
LEMMA TypeStep == Inv /\ [Next]_vars => TypeOK'
<1>. SUFFICES ASSUME TypeOK, BoundaryIsOpen, [Next]_vars PROVE TypeOK'
  BY DEF Inv, Rest
<1> USE Assumptions
    DEF TypeOK, missionVars, ledgerVars, clockVars, loopVars, runVars,
        history, noted, InLoop, StopReasons
<1>1. CASE Tick
  BY <1>1, AdvanceType DEF Tick, Quiet, Decision, Reason
<1>2. CASE CapReached
  BY <1>2 DEF CapReached, Stop
<1>3. CASE EmptyPlan
  <2>1. streak' \in Nat /\ boundary' \in BOOLEAN /\ at' \in Phases \cup {0}
    BY <1>3, AssessedType DEF EmptyPlan, Fruitless
  <2>2. /\ pc' \in {"validate", "stop", "tick"} /\ stop' \in {stop, "BLOCKED"}
        /\ turns' = turns /\ runs' = runs
    BY <1>3 DEF EmptyPlan, Goto, Stop
  <2>3. result' \in Results(Items)
    BY <1>3 DEF EmptyPlan, Untouched, Results, Verdicts
  <2>. QED
    BY <1>3, <2>1, <2>2, <2>3 DEF EmptyPlan
<1>4. ASSUME NEW items \in SUBSET (Features \cup Extras), MakePlan(items)
       PROVE  TypeOK'
  BY <1>4, AdvanceType, AssessedType, MarkFeaturesType
  DEF MakePlan, Goto, Candidates, Quiet, Untouched, Results, Verdicts, FeatureStatuses
<1>5. ASSUME NEW green \in SUBSET (Features \cup Extras), NEW intact \in BOOLEAN,
         Deterministic(green, intact)
       PROVE  TypeOK'
  BY <1>5, GateType DEF Deterministic, Goto, Targets, AfterGate, Settled
<1>6. ASSUME NEW answers \in SUBSET {"passed", "failed", "blocked"}, NEW found \in SUBSET Issues,
             Scrutiny(answers, found)
       PROVE  TypeOK'
  <2>1. result' \in Results(Items)
    <3>1. ScrutinyVerdict(answers) \in {"PASS", "FAIL"}
      BY DEF ScrutinyVerdict
    <3>2. (at \in scarred) \in BOOLEAN
      OBVIOUS
    <3>3. result' = [result EXCEPT !.scrutiny = ScrutinyVerdict(answers), !.rows = (at \in scarred)]
      BY <1>6 DEF Scrutiny
    <3>. QED
      BY <3>1, <3>2, <3>3, Zenon DEF Results
  <2>2. status' \in [Items -> {"absent", "open", "blocked", "satisfied"}]
    BY <1>6 DEF Scrutiny, Injected
  <2>3. scarred' \subseteq Phases
    BY <1>6 DEF Scrutiny, CommandRows, BoundaryIsOpen, Running
  <2>4. pc' \in {"settle", "commit", "testing"} /\ stop' = stop /\ turns' = turns /\ runs' = runs
    BY <1>6 DEF Scrutiny, Goto, AfterScrutiny, Settled
  <2>5. flawless' \in BOOLEAN
    BY <1>6 DEF Scrutiny
  <2>. QED
    BY <1>6, <2>1, <2>2, <2>3, <2>4, <2>5 DEF Scrutiny
<1>7. ASSUME NEW answer \in {"passed", "failed", "blocked"}, NEW missing \in BOOLEAN,
             Testing(answer, missing)
       PROVE  TypeOK'
  <2>1. asserted' \in [Phases -> AssertionStatuses]
    BY <1>7 DEF Testing, Recorded, AssertionStatuses
  <2>2. TestingVerdict(Answers(answer), missing) \in Verdicts
    BY DEF TestingVerdict, Verdicts
  <2>3. result' \in Results(Items)
    BY <1>7, <2>2 DEF Testing, Results
  <2>4. pc' \in {"settle", "commit"} /\ stop' = stop /\ turns' = turns /\ runs' = runs
    BY <1>7 DEF Testing, Goto, Settled
  <2>5. flawless' \in BOOLEAN
    BY <1>7 DEF Testing
  <2>. QED
    BY <1>7, <2>1, <2>3, <2>4, <2>5 DEF Testing
<1>8. CASE LeftUnchanged
  BY <1>8 DEF LeftUnchanged, Goto, Untouched, Results, Verdicts
<1>9. CASE Unaffordable
  BY <1>9 DEF Unaffordable, Stop
<1>10. CASE Commit
  BY <1>10, MarkFeaturesType DEF Commit, Goto, FeatureStatuses, Results
<1>11. CASE CommitRaises
  BY <1>11 DEF CommitRaises, Stop
<1>12. CASE Reject
  BY <1>12 DEF Reject, Goto
<1>13. CASE Credit
  BY <1>13, MarkItemsType DEF Credit, Goto, Credited
<1>14. CASE Stagnate
  BY <1>14 DEF Stagnate, Goto, Fruitless
<1>15. CASE EndLoop
  BY <1>15, AdvanceType DEF EndLoop, Goto, Stop, Clear, Untouched, Results, Verdicts
<1>16. CASE Settle
  BY <1>16, AdvanceType, MarkItemsType
  DEF Settle, Goto, Credited, Clear, Untouched, Results, Verdicts
<1>17. ASSUME NEW f \in Features, FeatureFails(f)
       PROVE  TypeOK'
  BY <1>17, TroubleType, MarkFeaturesType DEF FeatureFails, Quietly, Goto, FeatureStatuses
<1>18. ASSUME NEW f \in Features, Incomplete(f)
       PROVE  TypeOK'
  BY <1>18, TroubleType, MarkFeaturesType DEF Incomplete, Quietly, Goto, FeatureStatuses
<1>19. ASSUME NEW items \in SUBSET (Features \cup Extras), Skipped(items)
       PROVE  TypeOK'
  BY <1>19, TroubleType DEF Skipped, Quietly, Goto
<1>20. ASSUME NEW i \in Items, Blocker(i)
       PROVE  TypeOK'
  BY <1>20, TroubleType, MarkItemsType DEF Blocker, Quietly, Goto
<1>21. ASSUME NEW i \in Items, Discovered(i)
       PROVE  TypeOK'
  BY <1>21, TroubleType DEF Discovered, Quietly, Goto, Injected
<1>22. CASE NeedsHuman
  <2>1. PICK f \in plan : feature' = MarkFeatures({f}, "blocked")
    BY <1>22 DEF NeedsHuman
  <2>2. feature' \in [Features -> FeatureStatuses]
    BY <2>1, MarkFeaturesType DEF FeatureStatuses
  <2>3. troubles' \in Nat /\ flawless' \in BOOLEAN
    BY <1>22, TroubleType DEF NeedsHuman
  <2>. QED
    BY <1>22, <2>2, <2>3 DEF NeedsHuman, Stop
<1>23. CASE Overspends
  BY <1>23, TroubleType DEF Overspends, Goto
<1>24. CASE MirrorFails
  BY <1>24, TroubleType DEF MirrorFails, Goto
<1>25. CASE Freeze
  BY <1>25, TroubleType DEF Freeze
<1>26. CASE Resume
  BY <1>26 DEF Resume
<1>27. ASSUME NEW spec \in Specs, Import(spec)
       PROVE  TypeOK'
  <2>1. flawless' \in BOOLEAN /\ troubles' \in Nat
    BY <1>27, TroubleType DEF Import
  <2>2. /\ phase' \in [Phases -> PhaseStatuses] /\ feature' \in [Features -> FeatureStatuses]
        /\ home' \in [Features -> Phases] /\ asserted' \in [Phases -> AssertionStatuses]
        /\ scarred' \subseteq Phases /\ fails' \in [Items -> Nat]
        /\ status' \in [Items -> {"absent", "open", "blocked", "satisfied"}]
        /\ owed' \subseteq Items /\ accepted' \subseteq Items /\ hindered' \subseteq Items
        /\ relics' \in BOOLEAN /\ listed' \in [Phases -> SUBSET Features]
    BY <1>27, ImportType
  <2>3. disturbed' \subseteq Features /\ unproved' \subseteq Features /\ redrawn' \subseteq Phases
    BY <1>27 DEF Import, NoteImport
  <2>. QED
    BY <1>27, <2>1, <2>2, <2>3 DEF Import
<1>28. ASSUME NEW refill \in BOOLEAN, NEW unblock \in BOOLEAN, NEW resume \in BOOLEAN,
              RunAgain(refill, unblock, resume)
       PROVE  TypeOK'
  <2>1. loops' \in 0..MaxLoops /\ turns' \in 0..LoopCap /\ runs' \in Nat /\ streak' \in Nat
    BY <1>28 DEF RunAgain
  <2>2. /\ status' \in [Items -> {"absent", "open", "blocked", "satisfied"}]
        /\ fails' \in [Items -> Nat]
    BY <1>28 DEF RunAgain
  <2>3. result' \in Results(Items)
    BY <1>28 DEF RunAgain, Clear, Untouched, Results, Verdicts
  <2>4. frozen' \in BOOLEAN /\ flawless' \in BOOLEAN
    BY <1>28 DEF RunAgain
  <2>. QED
    BY <1>28, <2>1, <2>2, <2>3, <2>4 DEF RunAgain, Clear
<1>29. CASE Crash
  BY <1>29, TroubleType DEF Crash, Clear, Untouched, Results, Verdicts
<1>30. CASE Fail
  BY <1>30, TroubleType DEF Fail, Stop, Clear, Untouched, Results, Verdicts
<1>31. CASE UNCHANGED vars
  BY <1>31 DEF vars
<1> HIDE DEF TypeOK, missionVars, ledgerVars, clockVars, loopVars, runVars, history, noted, InLoop,
     StopReasons
<1>. QED
  BY <1>1, <1>2, <1>3, <1>4, <1>5, <1>6, <1>7, <1>8, <1>9, <1>10, <1>11, <1>12, <1>13, <1>14, <1>15,
     <1>16, <1>17, <1>18, <1>19, <1>20, <1>21, <1>22, <1>23, <1>24, <1>25, <1>26, <1>27, <1>28,
          <1>29, <1>30, <1>31
  DEF Next, Step, Work, Handoff, Operator
-----------------------------------------------------------------------------
(* Where the tick may take a phase: to "done" only the phase the result is   *)
(* about, on a passing result, out of validation; to "validating" only with *)
(* all its features done.                                                   *)
LEMMA AdvanceMoves ==
  ASSUME NEW ph \in [Phases -> PhaseStatuses], NEW ft, NEW hm, NEW at0, NEW res, NEW effective,
         NEW p \in Phases
  PROVE  LET after == Advance(ph, ft, hm, at0, res, effective)[p]
         IN  /\ ph[p] = "done" => after = "done"
             /\ ph[p] # "done" /\ after = "done" =>
                  p = at0 /\ ph[p] = "validating" /\ Passed(res, effective)
             /\ ph[p] # "validating" /\ after = "validating" =>
                  \A f \in Features : hm[f] = p => ft[f] \in {"absent", "done"}
             /\ ph[p] = "validating" /\ p # at0 => after = "validating"
             /\ ph[p] = "absent" <=> after = "absent"
BY DEF Advance, Moves, PhaseStatuses

LEMMA QuietMoves ==
  ASSUME NEW ph \in [Phases -> PhaseStatuses], NEW ft, NEW hm, NEW p \in Phases
  PROVE  LET after == Quiet(ph, ft, hm)[p]
         IN  /\ ph[p] = "done" <=> after = "done"
             /\ ph[p] = "absent" <=> after = "absent"
             /\ ph[p] = "validating" => after = "validating"
             /\ ph[p] # "validating" /\ after = "validating" =>
                  \A f \in Features : hm[f] = p => ft[f] \in {"absent", "done"}
BY AdvanceMoves, Assumptions DEF Quiet

(* A step that leaves the mission and the plan alone, and the process in the *)
(* middle of its work or stopped.                                           *)
LEMMA Undisturbed ==
  ASSUME Rest,
         UNCHANGED <<phase, feature, home, asserted, accepted, plan, at, boundary, result,
                     noted>>,
         \/ UNCHANGED pc
         \/ pc' \notin {"tick", "plan", "scrutiny", "testing"} /\ (Running' => Running)
  PROVE  Rest'
BY DEF Rest, AtRest, BoundaryIsOpen, PassIsRecorded, PlanIsUnderWay, ClosedIsWhole, DoneIsAccepted,
       DonePhaseIsValidated, Housed, Running, noted

(* A step that drops the plan and its result. *)
LEMMA Dropped ==
  ASSUME Rest, UNCHANGED <<phase, feature, home, asserted, accepted, noted>>, Clear,
         pc' \notin {"scrutiny", "testing"}
  PROVE  Rest'
BY DEF Rest, AtRest, BoundaryIsOpen, PassIsRecorded, PlanIsUnderWay, ClosedIsWhole, DoneIsAccepted,
       DonePhaseIsValidated, Housed, Running, noted, Clear, Untouched

(* A tick that starts the validation of whole phases only.                   *)
LEMMA Reopens ==
  ASSUME Rest, UNCHANGED <<feature, home, disturbed>>,
         \A f \in Features : home[f] \in Phases,
         \A p \in Phases :
           /\ phase[p] # "done" /\ phase'[p] = "done" => phase[p] = "validating"
           /\ phase[p] # "validating" /\ phase'[p] = "validating" =>
                \A f \in Features : home[f] = p => feature[f] \in {"absent", "done"}
           /\ phase[p] = "absent" <=> phase'[p] = "absent"
  PROVE  ClosedIsWhole' /\ Housed'
<1>1. ClosedIsWhole'
  <2>1. ASSUME NEW f \in Features, phase'[home[f]] \in {"validating", "done"},
               feature[f] \notin {"done", "absent"}
        PROVE  f \in disturbed
    <3>1. phase[home[f]] \in {"validating", "done"}
      BY <2>1
    <3>. QED
      BY <2>1, <3>1 DEF Rest, ClosedIsWhole
  <2>. QED
    BY <2>1 DEF ClosedIsWhole
<1>2. Housed'
  BY DEF Rest, Housed
<1>. QED
  BY <1>1, <1>2

(* The end of a loop: the tick is told of the result.                       *)
LEMMA Told ==
  ASSUME TypeOK, Rest, Running, NEW effective,
         phase' = Advance(phase, feature, home, at, result, effective),
         UNCHANGED <<feature, home, asserted, accepted, noted>>, Clear,
         pc' \notin {"scrutiny", "testing"}
  PROVE  Rest'
<1> USE DEF Rest, noted
<1>1. \A p \in Phases :
        /\ phase[p] = "done" => phase'[p] = "done"
        /\ phase[p] # "done" /\ phase'[p] = "done" =>
             p = at /\ phase[p] = "validating" /\ Passed(result, effective)
        /\ phase[p] # "validating" /\ phase'[p] = "validating" =>
             \A f \in Features : home[f] = p => feature[f] \in {"absent", "done"}
        /\ phase[p] = "absent" <=> phase'[p] = "absent"
  BY AdvanceMoves DEF TypeOK
<1>2. DonePhaseIsValidated'
  BY <1>1 DEF DonePhaseIsValidated, PassIsRecorded, Passed
<1>3. \A f \in Features : home[f] \in Phases
  BY DEF TypeOK
<1>4. ClosedIsWhole' /\ Housed'
  BY <1>1, <1>3, Reopens
<1>5. AtRest' /\ BoundaryIsOpen' /\ PassIsRecorded' /\ PlanIsUnderWay' /\ DoneIsAccepted'
  BY DEF AtRest, BoundaryIsOpen, PassIsRecorded, PlanIsUnderWay, DoneIsAccepted, Clear, Untouched
<1>. QED
  BY <1>2, <1>4, <1>5

(* A tick without a result. *)
LEMMA TickRest == ASSUME TypeOK, Rest, Tick PROVE Rest'
<1> USE DEF Rest
<1> USE DEF Tick, loopVars, history, noted, ledgerVars
<1>1. \A p \in Phases :
        /\ phase[p] = "done" <=> phase'[p] = "done"
        /\ phase[p] # "validating" /\ phase'[p] = "validating" =>
             \A f \in Features : home[f] = p => feature[f] \in {"absent", "done"}
        /\ phase[p] = "absent" <=> phase'[p] = "absent"
  BY QuietMoves DEF TypeOK
<1>2. DonePhaseIsValidated'
  BY <1>1 DEF DonePhaseIsValidated
<1>3. \A f \in Features : home[f] \in Phases
  BY DEF TypeOK
<1>4. ClosedIsWhole' /\ Housed'
  BY <1>1, <1>3, Reopens
<1>5. plan = {} /\ ~boundary /\ result = Untouched /\ pc = "tick" /\ pc' \in {"plan", "stop"}
  BY DEF AtRest
<1>6. AtRest' /\ BoundaryIsOpen' /\ PassIsRecorded' /\ PlanIsUnderWay' /\ DoneIsAccepted'
  BY <1>5
  DEF AtRest, BoundaryIsOpen, PassIsRecorded, PlanIsUnderWay, DoneIsAccepted, Untouched, Running
<1>. QED
  BY <1>2, <1>4, <1>6

(* A plan takes features of open phases only, and its features are not done. *)
LEMMA MakePlanRest ==
  ASSUME TypeOK, Rest, NEW items \in SUBSET (Features \cup Extras), MakePlan(items)
  PROVE  Rest'
<1> USE DEF Rest
<1> USE DEF MakePlan, Goto, history, noted, ledgerVars
<1>0. \A f \in Features : feature'[f] = IF f \in items THEN "in_progress" ELSE feature[f]
  BY DEF MarkFeatures
<1>1. \A p \in Phases :
        /\ phase[p] = "done" <=> phase'[p] = "done"
        /\ phase[p] # "validating" /\ phase'[p] = "validating" =>
             \A f \in Features : home[f] = p => feature'[f] \in {"absent", "done"}
        /\ phase[p] = "absent" <=> phase'[p] = "absent"
  BY QuietMoves DEF TypeOK
<1>2. \A f \in Features : home[f] \in Phases
  BY DEF TypeOK
<1>3. ASSUME NEW f \in items \cap Features
      PROVE  /\ phase[home[f]] \in {"pending", "in_progress"} /\ feature[f] # "absent"
             /\ phase'[home[f]] \notin {"validating", "done"}
  <2>1. f \notin Extras
    BY MissionAssumption
  <2>2. phase[home[f]] \in {"pending", "in_progress"} /\ feature[f] # "absent"
    BY <2>1 DEF Candidates
  <2>. QED
    BY <1>0, <1>1, <1>2, <2>2
<1>4. DonePhaseIsValidated'
  BY <1>1 DEF DonePhaseIsValidated
<1>5. ClosedIsWhole'
  <2>1. ASSUME NEW f \in Features, phase'[home[f]] \in {"validating", "done"},
               feature'[f] \notin {"done", "absent"}
        PROVE  f \in disturbed
    <3>1. f \notin items /\ feature'[f] = feature[f]
      BY <1>0, <1>3, <2>1
    <3>2. phase[home[f]] \in {"validating", "done"}
      BY <1>1, <1>2, <2>1
    <3>. QED
      BY <2>1, <3>1, <3>2 DEF ClosedIsWhole
  <2>. QED
    BY <2>1 DEF ClosedIsWhole
<1>6. Housed'
  BY <1>0, <1>1, <1>2, <1>3 DEF Housed
<1>7. PlanIsUnderWay'
  BY <1>3 DEF PlanIsUnderWay
<1>8. AtRest' /\ PassIsRecorded' /\ pc' = "work"
  BY DEF AtRest, PassIsRecorded, Untouched
<1>9. BoundaryIsOpen'
  <2>1. phase' \in [Phases -> PhaseStatuses]
    BY AdvanceType DEF Quiet, TypeOK
  <2>2. at' \in Phases \cup {0}
    BY <2>1, AssessedType DEF TypeOK
  <2>. QED
    BY <1>8, <2>2 DEF BoundaryIsOpen
<1>10. DoneIsAccepted'
  BY <1>0 DEF DoneIsAccepted, Untouched
<1>. QED
  BY <1>4, <1>5, <1>6, <1>7, <1>8, <1>9, <1>10

LEMMA EmptyPlanRest == ASSUME TypeOK, Rest, EmptyPlan PROVE Rest'
<1> USE DEF Rest
<1> USE DEF EmptyPlan, history, noted, missionVars
<1>1. boundary' => at' \in Phases /\ phase[at'] = "validating"
  BY AssessedType DEF TypeOK
<1>2. pc' \in {"validate", "stop", "tick"} /\ (pc' = "tick" => ~boundary')
  BY DEF Goto, Stop
<1>3. AtRest' /\ BoundaryIsOpen' /\ PassIsRecorded' /\ PlanIsUnderWay'
  BY <1>1, <1>2 DEF AtRest, BoundaryIsOpen, PassIsRecorded, PlanIsUnderWay, Untouched
<1>4. ClosedIsWhole' /\ DoneIsAccepted' /\ DonePhaseIsValidated' /\ Housed'
  BY DEF ClosedIsWhole, DoneIsAccepted, DonePhaseIsValidated, Untouched, Housed
<1>. QED
  BY <1>3, <1>4

(* A step that only moves a feature back, of a phase open for work or noted  *)
(* as disturbed.                                                            *)
LEMMA MovedBack ==
  ASSUME TypeOK, Rest, NEW set, NEW to \in {"pending", "in_progress", "blocked"},
         feature' = MarkFeatures(set, to),
         disturbed \subseteq disturbed',
         \A f \in set \cap Features :
           /\ feature[f] # "absent"
           /\ phase[home[f]] \in {"validating", "done"} /\ feature[f] = "done" => f \in disturbed',
         UNCHANGED <<phase, home, asserted, accepted, plan, at, boundary, result>>,
         UNCHANGED <<unproved, redrawn>>,
         UNCHANGED pc \/ pc' = "stop"
  PROVE  Rest'
<1> USE DEF Rest
<1>1. \A f \in Features : feature'[f] = IF f \in set THEN to ELSE feature[f]
  BY DEF MarkFeatures
<1>2. ClosedIsWhole'
  <2>1. ASSUME NEW f \in Features, phase[home[f]] \in {"validating", "done"},
               feature'[f] \notin {"done", "absent"}
        PROVE  f \in disturbed'
    <3>1. CASE f \in set /\ feature[f] = "done"
      BY <2>1, <3>1
    <3>2. CASE feature[f] \notin {"done", "absent"}
      BY <2>1, <3>2 DEF ClosedIsWhole
    <3>. QED
      BY <1>1, <2>1, <3>1, <3>2
  <2>. QED
    BY <2>1 DEF ClosedIsWhole
<1>3. DoneIsAccepted' /\ Housed'
  BY <1>1 DEF DoneIsAccepted, Housed, Running
<1>4. PlanIsUnderWay'
  BY <1>1 DEF PlanIsUnderWay
<1>5. AtRest' /\ BoundaryIsOpen' /\ PassIsRecorded' /\ DonePhaseIsValidated'
  BY DEF AtRest, BoundaryIsOpen, PassIsRecorded, DonePhaseIsValidated, Running
<1>. QED
  BY <1>2, <1>3, <1>4, <1>5

(* The handoffs. *)
LEMMA PlanIsOpen ==
  ASSUME Rest, NEW f \in plan \cap Features, feature[f] # "absent"
  PROVE  phase[home[f]] \in {"validating", "done"} => f \in disturbed
BY DEF Rest, PlanIsUnderWay

LEMMA FeatureFailsRest ==
  ASSUME TypeOK, Rest, NEW f \in Features, FeatureFails(f) PROVE Rest'
<1>1. /\ feature' = MarkFeatures({f}, "blocked") /\ feature[f] # "absent" /\ f \in plan
      /\ UNCHANGED <<phase, home, asserted, accepted, plan, at, boundary, result>>
      /\ UNCHANGED <<disturbed, unproved, redrawn>> /\ pc' = pc
  BY DEF FeatureFails, Quietly, Goto, ledgerVars, loopVars, noted
<1>. QED
  BY <1>1, MovedBack, PlanIsOpen

LEMMA IncompleteRest ==
  ASSUME TypeOK, Rest, NEW f \in Features, Incomplete(f) PROVE Rest'
<1>1. disturbed \subseteq disturbed' /\ (feature[f] = "done" => f \in disturbed')
     /\ feature[f] # "absent"
  BY DEF Incomplete
<1>2. /\ feature' = MarkFeatures({f}, "in_progress") /\ pc' = pc
      /\ UNCHANGED <<phase, home, asserted, accepted, plan, at, boundary, result>>
      /\ UNCHANGED <<unproved, redrawn>>
  BY DEF Incomplete, Quietly, Goto, ledgerVars, loopVars
<1>. QED
  BY <1>1, <1>2, MovedBack

LEMMA NeedsHumanRest == ASSUME TypeOK, Rest, NeedsHuman PROVE Rest'
<1>1. PICK f \in plan : /\ f \in Features => feature[f] # "absent"
                        /\ feature' = MarkFeatures({f}, "blocked")
  BY DEF NeedsHuman
<1>2. /\ pc' = "stop" /\ UNCHANGED <<disturbed, unproved, redrawn>>
      /\ UNCHANGED <<phase, home, asserted, accepted, plan, at, boundary, result>>
  BY DEF NeedsHuman, Stop, ledgerVars, loopVars, noted
<1>. QED
  BY <1>1, <1>2, MovedBack, PlanIsOpen

(* An import, by what it notes of what it does.                             *)
LEMMA ImportRest ==
  ASSUME TypeOK, Rest, NEW spec \in Specs, Import(spec)
  PROVE  Rest'
<1> USE DEF Rest
<1>1. /\ feature' = WithFeatures(spec) /\ phase' = WithPhases(spec)
      /\ accepted' = accepted \ Replaced(spec)
      /\ UNCHANGED <<pc, plan, at, boundary, result>>
  BY DEF Import, Change, MergeLedger, runVars, loopVars
<1>2. \/ pc \in {"stop", "down"}
      \/ plan = {} /\ ~boundary /\ result = Untouched /\ pc \notin {"scrutiny", "testing"}
      \/ phase' = phase /\ asserted' = asserted /\ accepted' = accepted
  BY <1>1 DEF Import, Timely, AtRest, WithPhases, Change, ContractRows, Brings
<1>3. AtRest' /\ BoundaryIsOpen' /\ PassIsRecorded'
  BY <1>1, <1>2 DEF AtRest, BoundaryIsOpen, PassIsRecorded, Running, Untouched
<1>4. ASSUME NEW f \in Features, feature'[f] # "absent",
             phase'[home'[f]] \in {"validating", "done"},
             feature'[f] # "done" \/ f \in plan
      PROVE  f \in disturbed'
  BY <1>4 DEF Import, NoteImport
<1>5. PlanIsUnderWay' /\ ClosedIsWhole'
  BY <1>1, <1>4 DEF PlanIsUnderWay, ClosedIsWhole
<1>6. ASSUME NEW f \in Features, feature'[f] = "done" PROVE f \in accepted' \/ f \in unproved'
  <2>1. unproved \subseteq unproved'
    BY DEF Import, NoteImport
  <2>2. CASE feature[f] = "absent" \/ f \in Replaced(spec)
    BY <1>6, <2>2 DEF Import, NoteImport
  <2>3. CASE feature[f] # "absent" /\ f \notin Replaced(spec)
    <3>1. feature[f] = "done"
      BY <1>1, <1>6, <2>3, ImportKeeps
    <3>. QED
      BY <1>1, <2>1, <2>3, <3>1 DEF DoneIsAccepted
  <2>. QED
    BY <2>2, <2>3
<1>7. DoneIsAccepted'
  BY <1>1, <1>2, <1>6 DEF DoneIsAccepted, Running, Untouched
<1>8. DonePhaseIsValidated'
  BY DEF Import, NoteImport, DonePhaseIsValidated
<1>9. Housed'
  BY DEF Import, Change, Housed
<1>. QED
  BY <1>3, <1>5, <1>7, <1>8, <1>9

LEMMA SkippedRest ==
  ASSUME Rest, NEW items, Skipped(items) PROVE Rest'
BY DEF Skipped, Quietly, Goto, missionVars, ledgerVars, noted, Rest, AtRest, BoundaryIsOpen,
       PassIsRecorded, PlanIsUnderWay, ClosedIsWhole, DoneIsAccepted,
       DonePhaseIsValidated, Housed, Running

(* The pipeline. *)
LEMMA DeterministicRest ==
  ASSUME TypeOK, Rest, NEW green \in SUBSET (Features \cup Extras), NEW intact \in BOOLEAN,
         Deterministic(green, intact)
  PROVE  Rest'
<1> USE DEF Rest
<1> USE DEF Deterministic, missionVars, ledgerVars, noted
<1>1. Targets \in SUBSET Items
  BY Assumptions DEF Targets, TypeOK
<1>2. result'.testing = "none" /\ result'.satisfied \subseteq accepted \cup result'.newly
  BY <1>1, GateType DEF TypeOK
<1>3. /\ pc' \in {"scrutiny", "settle", "commit"} /\ (pc' = "scrutiny" => boundary)
      /\ pc \in {"work", "validate"}
  BY DEF Goto, AfterGate, Settled
<1>4. AtRest' /\ BoundaryIsOpen' /\ PassIsRecorded' /\ PlanIsUnderWay'
  BY <1>2, <1>3 DEF AtRest, BoundaryIsOpen, PassIsRecorded, PlanIsUnderWay, Running
<1>5. ClosedIsWhole' /\ DoneIsAccepted' /\ DonePhaseIsValidated' /\ Housed'
  BY <1>2 DEF ClosedIsWhole, DoneIsAccepted, DonePhaseIsValidated, Housed, Running
<1>. QED
  BY <1>4, <1>5

LEMMA LeftUnchangedRest == ASSUME Rest, LeftUnchanged PROVE Rest'
BY DEF LeftUnchanged, Goto, missionVars, ledgerVars, noted, Rest, AtRest, BoundaryIsOpen, Untouched,
       PassIsRecorded, PlanIsUnderWay, ClosedIsWhole, DoneIsAccepted,
       DonePhaseIsValidated, Housed, Running

LEMMA ScrutinyRest ==
  ASSUME TypeOK, Rest, NEW answers, NEW found, Scrutiny(answers, found) PROVE Rest'
<1>1. /\ result'.testing = result.testing /\ result'.satisfied = result.satisfied
      /\ result'.newly = result.newly
  BY DEF Scrutiny, TypeOK, Results
<1>2. pc' \in {"settle", "commit", "testing"} /\ pc = "scrutiny" /\ boundary
  BY DEF Scrutiny, Goto, AfterScrutiny, Settled, Rest, BoundaryIsOpen
<1>. QED
  BY <1>1, <1>2 DEF Scrutiny, noted, Rest, AtRest, BoundaryIsOpen,
     PassIsRecorded, PlanIsUnderWay, ClosedIsWhole, DoneIsAccepted,
       DonePhaseIsValidated, Housed, Running

LEMMA TestingRest ==
  ASSUME TypeOK, Rest, NEW answer, NEW missing \in BOOLEAN, Testing(answer, missing) PROVE Rest'
<1> USE DEF Rest
<1> USE DEF Testing, ledgerVars, noted
<1>1. pc = "testing" /\ boundary /\ at \in Phases /\ phase[at] = "validating"
  BY DEF BoundaryIsOpen, Running
<1>2. /\ \A p \in Phases : p # at => asserted'[p] = asserted[p]
      /\ asserted'[at] = IF OwnAssertion THEN answer ELSE "absent"
  BY <1>1 DEF Recorded, OwnAssertion, TypeOK
<1>3. /\ result'.testing = TestingVerdict(Answers(answer), missing)
      /\ result'.satisfied = result.satisfied /\ result'.newly = result.newly
  BY DEF TypeOK, Results
<1>4. TestingVerdict(Answers(answer), missing) = "PASS" /\ OwnAssertion => answer = "passed"
  <2>1. OwnAssertion => answer \in Answers(answer)
    BY DEF Answers
  <2>. QED
    BY <2>1 DEF TestingVerdict
<1>5. pc' \in {"settle", "commit"}
  BY DEF Goto, Settled
<1>6. DonePhaseIsValidated'
  BY <1>1, <1>2 DEF DonePhaseIsValidated
<1>7. PassIsRecorded'
  BY <1>1, <1>2, <1>3, <1>4 DEF PassIsRecorded
<1>8. AtRest' /\ BoundaryIsOpen' /\ PlanIsUnderWay' /\ ClosedIsWhole' /\ DoneIsAccepted' /\ Housed'
  BY <1>1, <1>3, <1>5
  DEF AtRest, BoundaryIsOpen, PlanIsUnderWay, ClosedIsWhole, DoneIsAccepted, Housed, Running
<1>. QED
  BY <1>6, <1>7, <1>8

(* The features of a commit are done with what it accepts.                  *)
LEMMA CommitRest == ASSUME TypeOK, Rest, Commit PROVE Rest'
<1> USE DEF Rest
<1> USE DEF Commit, history, noted
<1>1. \A f \in Features : feature'[f] = IF f \in Completed THEN "done" ELSE feature[f]
  BY DEF MarkFeatures
<1>2. pc = "commit" /\ pc' = "credit" /\ \A f \in Completed : feature[f] # "absent"
  BY DEF Goto
<1>3. Completed \subseteq accepted' /\ accepted \subseteq accepted'
  BY <1>2 DEF Completed, DoneIsAccepted, Running
<1>4. ClosedIsWhole' /\ Housed'
  BY <1>1, <1>2 DEF ClosedIsWhole, Housed
<1>5. DoneIsAccepted'
  BY <1>1, <1>2, <1>3 DEF DoneIsAccepted, Running
<1>6. PlanIsUnderWay'
  BY <1>1, <1>2 DEF PlanIsUnderWay
<1>7. AtRest' /\ BoundaryIsOpen' /\ PassIsRecorded' /\ DonePhaseIsValidated'
  BY <1>2 DEF AtRest, BoundaryIsOpen, PassIsRecorded, DonePhaseIsValidated, Running
<1>. QED
  BY <1>4, <1>5, <1>6, <1>7

(* The other steps, by what they leave alone. *)
LEMMA OtherRest ==
  ASSUME Rest,
         \/ CapReached \/ Unaffordable \/ CommitRaises \/ MirrorFails \/ Reject \/ Credit
         \/ Stagnate \/ Overspends \/ Freeze \/ Resume \/ UNCHANGED vars
         \/ \E i \in Items : Blocker(i) \/ Discovered(i)
  PROVE  Rest'
<1> USE DEF missionVars, ledgerVars, loopVars, runVars, history, noted, Goto, Stop, Running
<1>1. CASE CapReached \/ Unaffordable \/ CommitRaises
  BY <1>1, Undisturbed DEF CapReached, Unaffordable, CommitRaises
<1>2. CASE MirrorFails \/ Reject \/ Credit \/ Stagnate
  BY <1>2, Undisturbed DEF MirrorFails, Reject, Credit, Stagnate
<1>3. CASE Overspends \/ Freeze \/ Resume \/ UNCHANGED vars
  BY <1>3, Undisturbed DEF Overspends, Freeze, Resume, vars
<1>4. CASE \E i \in Items : Blocker(i) \/ Discovered(i)
  BY <1>4, Undisturbed DEF Blocker, Discovered, Quietly
<1>. QED
  BY <1>1, <1>2, <1>3, <1>4

LEMMA DroppingRest ==
  ASSUME Rest,
         \/ Crash \/ Fail
         \/ \E refill, unblock, resume \in BOOLEAN : RunAgain(refill, unblock, resume)
  PROVE  Rest'
<1> USE DEF missionVars, ledgerVars, noted
<1>1. CASE Crash \/ Fail
  BY <1>1, Dropped DEF Crash, Fail, Stop
<1>2. CASE \E refill, unblock, resume \in BOOLEAN : RunAgain(refill, unblock, resume)
  BY <1>2, Dropped DEF RunAgain
<1>. QED
  BY <1>1, <1>2

LEMMA EndOfLoopRest == ASSUME TypeOK, Rest, EndLoop \/ Settle PROVE Rest'
<1>1. CASE EndLoop
  BY <1>1, Told DEF EndLoop, Goto, Stop, ledgerVars, history, noted, Running
<1>2. CASE Settle
  BY <1>2, Told DEF Settle, Goto, history, noted, Running
<1>. QED
  BY <1>1, <1>2

LEMMA RestStep == TypeOK /\ Rest /\ [Next]_vars => Rest'
BY TickRest, MakePlanRest, EmptyPlanRest, FeatureFailsRest, IncompleteRest, NeedsHumanRest,
   ImportRest,
   SkippedRest, DeterministicRest, LeftUnchangedRest, ScrutinyRest, TestingRest, CommitRest,
      OtherRest,
   DroppingRest, EndOfLoopRest
   DEF Next, Step, Work, Handoff, Operator

LEMMA InitRest == Init => Rest
<1> SUFFICES ASSUME Init PROVE Rest
  OBVIOUS
<1> USE DEF Init
<1>1. \A p \in Phases : phase[p] \in {"absent", "pending"}
  OBVIOUS
<1>2. \A f \in Features : home[f] \in Phases /\ feature[f] \in {"absent", "pending"}
  BY Assumptions
<1>3. Housed
  BY Assumptions, MissionAssumption DEF Housed
<1>4. AtRest /\ BoundaryIsOpen /\ PassIsRecorded /\ PlanIsUnderWay
  BY DEF AtRest, BoundaryIsOpen, PassIsRecorded, PlanIsUnderWay, Untouched
<1>5. ClosedIsWhole /\ DoneIsAccepted /\ DonePhaseIsValidated
  BY <1>1, <1>2 DEF ClosedIsWhole, DoneIsAccepted, DonePhaseIsValidated, Untouched
<1>. QED
  BY <1>3, <1>4, <1>5 DEF Rest

-----------------------------------------------------------------------------
(* The inductive invariant holds in every behaviour.                        *)
LEMMA Inductive == Spec => []Inv
<1>1. Init => Inv
  BY InitType, InitRest DEF Inv
<1>2. Inv /\ [Next]_vars => Inv'
  BY TypeStep, RestStep DEF Inv
<1>. QED
  BY <1>1, <1>2, PTL DEF Spec

(* The variables keep their types, a validation always being of some phase.  *)
THEOREM TypeCorrect == Spec => []TypeOK
<1>1. Inv => TypeOK
  BY DEF Inv
<1>. QED
  BY <1>1, Inductive, PTL

(* A phase is done only with all its features, each with its check in        *)
(* best_state: but for a feature a worker reopened, one an import put into  *)
(* a phase past it, and one an import made or kept done without its check.  *)
THEOREM WholePhases == Spec => []DonePhaseIsWhole
<1>1. Inv => DonePhaseIsWhole
  BY DEF Inv, Rest, ClosedIsWhole, DoneIsAccepted, DonePhaseIsWhole
<1>. QED
  BY <1>1, Inductive, PTL

(* A phase is done only when its own user-testing assertion, if it has one,  *)
(* has passed: but for a phase an import declares done, or gives another    *)
(* assertion after.                                                         *)
THEOREM ValidatedPhases == Spec => []DonePhaseIsValidated
<1>1. Inv => DonePhaseIsValidated
  BY DEF Inv, Rest
<1>. QED
  BY <1>1, Inductive, PTL

(* A run that stops with DONE leaves no phase and no feature undone, but for *)
(* features put back behind a phase.                                        *)
THEOREM DoneMeansDone == Spec => DoneIsDone
<1> DEFINE Kept == stop # "DONE" /\ stop' = "DONE" =>
                     /\ PhasesDone(phase')
                     /\ \A f \in Features : feature'[f] \in {"done", "absent"} \/ f \in disturbed
<1>1. ASSUME Inv, [Next]_vars PROVE Kept
  <2>1. CASE Tick
    <3> SUFFICES ASSUME stop' = "DONE"
                 PROVE  /\ PhasesDone(phase')
                        /\ \A f \in Features : feature[f] \in {"done", "absent"} \/ f \in disturbed
      BY <2>1 DEF Tick
    <3>1. PhasesDone(phase')
      BY <2>1 DEF Tick, Decision
    <3>2. \A p \in Phases : phase[p] \in {"done", "absent"}
      BY <1>1, <2>1, <3>1, QuietMoves DEF Tick, PhasesDone, Inv, TypeOK
    <3>3. \A f \in Features : home[f] \in Phases
      BY <1>1 DEF Inv, TypeOK
    <3>. QED
      BY <1>1, <3>1, <3>2, <3>3 DEF Inv, Rest, ClosedIsWhole, Housed
  <2>2. [Next]_vars => Tick \/ UNCHANGED stop \/ stop' # "DONE"
    BY DEF Next, Step, Work, Handoff, Operator, vars, runVars, Goto, Stop, CapReached, EmptyPlan,
       MakePlan, Deterministic, Scrutiny, Testing, LeftUnchanged, Unaffordable, Commit,
       CommitRaises, Reject, Credit, Stagnate, EndLoop, Settle, Quietly, FeatureFails, Incomplete,
       Skipped, Blocker, Discovered, NeedsHuman, Overspends, MirrorFails, Freeze, Resume, Import,
       RunAgain, Crash, Fail
  <2>. QED
    BY <1>1, <2>1, <2>2
<1>2. Inv /\ [Next]_vars => [Kept]_vars
  BY <1>1
<1>. QED
  BY <1>2, Inductive, PTL DEF Spec, DoneIsDone

(* A phase the mission has becomes done on best/ alone, or on a candidate    *)
(* that was committed.                                                      *)
THEOREM DoneOnCommittedWork == Spec => PhaseDoneOnCommittedWork
<1> DEFINE Kept == \A p \in Phases : phase[p] \notin {"absent", "done"} /\ phase'[p] = "done"
                                        => pc = "settle" \/ committed
<1>1. ASSUME TypeOK, [Next]_vars PROVE Kept
  <2>1. CASE UNCHANGED phase
    BY <2>1
  <2>2. CASE Tick
    BY <1>1, <2>2, QuietMoves DEF Tick, TypeOK
  <2>3. CASE \E items \in SUBSET (Features \cup Extras) : MakePlan(items)
    BY <1>1, <2>3, QuietMoves DEF MakePlan, TypeOK
  <2>4. CASE EndLoop
    BY <1>1, <2>4, AdvanceMoves DEF EndLoop, TypeOK, Effective, Passed
  <2>5. CASE Settle
    BY <2>5 DEF Settle
  <2>6. CASE \E spec \in Specs : Import(spec)
    BY <1>1, <2>6, ImportKeeps DEF Import, Change
  <2>7. [Next]_vars => \/ UNCHANGED phase \/ Tick \/ EndLoop \/ Settle
                       \/ \E spec \in Specs : Import(spec)
                       \/ \E items \in SUBSET (Features \cup Extras) : MakePlan(items)
    BY DEF Next, Step, Work, Handoff, Operator, vars, missionVars, CapReached, EmptyPlan,
       Deterministic, Scrutiny, Testing, LeftUnchanged, Unaffordable, Commit, CommitRaises,
          Reject, Credit,
       Stagnate, FeatureFails, Incomplete, Skipped, Blocker, Discovered, NeedsHuman, Overspends,
       MirrorFails, Freeze, Resume, RunAgain, Crash, Fail
  <2>. QED
    BY <1>1, <2>1, <2>2, <2>3, <2>4, <2>5, <2>6, <2>7
<1>2. TypeOK /\ [Next]_vars => [Kept]_vars
  BY <1>1
<1>. QED
  BY <1>2, TypeCorrect, PTL DEF Spec, PhaseDoneOnCommittedWork

-----------------------------------------------------------------------------
(* A run in which nothing has gone wrong: every loop accepts its whole plan  *)
(* or finishes a phase, so the loops are counted by what is accepted and    *)
(* what is done, and a run that has work or phases left has a loop left.    *)

DoneOf(ph) == {p \in Phases : ph[p] = "done"}
AllWorked == Works \subseteq accepted

(* Nothing but the work happens.                                            *)
Calm == /\ ~frozen /\ ~overspent /\ hindered = {} /\ pc # "down"
        /\ disturbed = {} /\ unproved = {} /\ home = PhaseOf

(* An item is satisfied with its check, from the credit on.                 *)
Credits ==
  /\ accepted \subseteq Works
  /\ \A i \in Items \ Works : status[i] = "absent"
  /\ \A i \in Works : status[i] \in {"open", "satisfied"}
  /\ \A i \in Works : ~(pc = "credit" /\ i \in plan) =>
       /\ i \in accepted <=> status[i] = "satisfied"
       /\ i \in accepted <=> i \notin owed

(* A phase starts with the first of its features.                           *)
Starts ==
  /\ \A p \in LatePhases : phase[p] = "absent"
  /\ \A f \in Late : feature[f] = "absent"
  /\ \A f \in Features \ Late :
       /\ feature[f] \in {"pending", "in_progress", "done"}
       /\ f \in accepted => feature[f] = "done"
       /\ phase[home[f]] = "pending" => feature[f] = "pending" /\ f \notin plan

(* Who has a plan commits it, and who has none validates a phase.           *)
Passing ==
  /\ pc = "plan" /\ AllWorked => \E p \in Phases : phase[p] = "validating"
  /\ plan \subseteq Works
  /\ pc \in {"work", "commit", "credit", "stagnate", "end"} => plan # {}
  /\ pc \in {"validate", "settle"} => plan = {}
  /\ pc \in InLoop \ {"plan"} /\ plan = {} => boundary /\ AllWorked
  /\ pc \in {"work", "scrutiny", "testing", "commit"} => plan \cap accepted = {}
  /\ pc \in {"scrutiny", "testing", "commit", "credit", "settle"} =>
       result.gate = "PASS" /\ result.newly = plan /\ plan \subseteq result.satisfied
  /\ pc = "testing" \/ pc = "settle" => result.scrutiny = "PASS"
  /\ pc = "settle" => result.testing = "PASS"
  /\ pc \in {"credit", "stagnate", "end"} => committed /\ plan \subseteq accepted

(* Every loop accepts a check or finishes a phase, and none only finishes   *)
(* phases while there is work.                                              *)
Ahead == IF pc \in {"tick", "credit", "stagnate", "end"} THEN 0 ELSE 1
Counted ==
  pc # "stop" =>
    /\ turns <= Cardinality(accepted) + Cardinality(DoneOf(phase)) + Ahead
    /\ ~AllWorked => loops <= Cardinality(accepted) + Ahead

StopsDone == pc = "stop" => stop = "DONE"

Going == Calm /\ Credits /\ Starts /\ Passing /\ Counted /\ StopsDone
Flawless == flawless => Going

LEMMA Counts ==
  /\ IsFiniteSet(Works) /\ IsFiniteSet(Phases)
  /\ Cardinality(Works) \in Nat /\ Cardinality(Phases) \in Nat
  /\ \A S \in SUBSET Works : /\ IsFiniteSet(S) /\ Cardinality(S) \in Nat
                             /\ Cardinality(S) <= Cardinality(Works)
                             /\ ~(Works \subseteq S) => Cardinality(S) < Cardinality(Works)
  /\ \A S \in SUBSET Phases : /\ IsFiniteSet(S) /\ Cardinality(S) \in Nat
                              /\ Cardinality(S) <= Cardinality(Phases)
<1>1. IsFiniteSet(Features) /\ IsFiniteSet(Extras \cup Issues) /\ IsFiniteSet(Phases)
  BY BoundaryAssumption, MissionAssumption
<1>2. IsFiniteSet(Extras) /\ IsFiniteSet(Features \ Late)
  <2>1. Extras \subseteq Extras \cup Issues /\ Features \ Late \subseteq Features
    OBVIOUS
  <2> QED BY <1>1, <2>1, FS_Subset
<1>3. IsFiniteSet(Works)
  BY <1>2, FS_Union DEF Works
<1>4. ASSUME NEW U, IsFiniteSet(U), NEW S \in SUBSET U
      PROVE  /\ IsFiniteSet(S) /\ Cardinality(S) \in Nat /\ Cardinality(U) \in Nat
             /\ Cardinality(S) <= Cardinality(U)
             /\ ~(U \subseteq S) => Cardinality(S) < Cardinality(U)
  <2>1. IsFiniteSet(S) /\ Cardinality(S) <= Cardinality(U)
    BY <1>4, FS_Subset
  <2>2. Cardinality(S) \in Nat /\ Cardinality(U) \in Nat
    BY <1>4, <2>1, FS_CardinalityType
  <2>3. Cardinality(S) = Cardinality(U) => S = U
    BY <1>4, FS_Subset
  <2> QED BY <2>1, <2>2, <2>3
<1> HIDE DEF Works
<1> QED BY <1>1, <1>3, <1>4

LEMMA Grows ==
  ASSUME NEW T, IsFiniteSet(T), NEW S \in SUBSET T, S # T
  PROVE  /\ Cardinality(S) \in Nat /\ Cardinality(T) \in Nat
         /\ Cardinality(T) >= Cardinality(S) + 1
<1>1. IsFiniteSet(S) /\ Cardinality(S) <= Cardinality(T)
  BY FS_Subset
<1>2. Cardinality(S) \in Nat /\ Cardinality(T) \in Nat
  BY <1>1, FS_CardinalityType
<1>3. Cardinality(S) # Cardinality(T)
  BY FS_Subset
<1> QED BY <1>1, <1>2, <1>3

(* What cannot have happened when nothing has gone wrong.                   *)
LEMMA FlawlessSteps ==
  ASSUME TypeOK, [Next]_vars, flawless'
  PROVE  /\ flawless
         /\ \/ Tick \/ CapReached \/ EmptyPlan
            \/ \E items \in SUBSET (Features \cup Extras) : MakePlan(items)
            \/ \E green \in SUBSET (Features \cup Extras), intact \in BOOLEAN :
                 Deterministic(green, intact) /\ result'.gate = "PASS"
            \/ \E answers \in SUBSET {"passed", "failed", "blocked"}, found \in SUBSET Issues :
                 Scrutiny(answers, found) /\ result'.scrutiny = "PASS"
            \/ \E answer \in {"passed", "failed", "blocked"}, missing \in BOOLEAN :
                 Testing(answer, missing) /\ result'.testing = "PASS"
            \/ Commit \/ Reject \/ Credit \/ Stagnate \/ EndLoop \/ Settle
            \/ Resume \/ UNCHANGED vars
<1>1. ~Trouble
  BY Zenon DEF Trouble
<1>2. ~Handoff /\ ~MirrorFails /\ ~Crash /\ ~Fail /\ ~Freeze
      /\ ~(\E spec \in Specs : Import(spec))
  BY <1>1, Zenon DEF Handoff, FeatureFails, Incomplete, Skipped, Blocker, Discovered, NeedsHuman,
        Overspends, Quietly, MirrorFails, Crash, Fail, Freeze, Import
<1>3. ~LeftUnchanged /\ ~Unaffordable /\ ~CommitRaises
      /\ ~(\E refill, unblock, resume \in BOOLEAN : RunAgain(refill, unblock, resume))
  BY Zenon DEF LeftUnchanged, Unaffordable, CommitRaises, RunAgain
<1>4. CASE Tick \/ CapReached \/ EmptyPlan \/ Commit \/ Reject \/ Credit \/ Stagnate
           \/ EndLoop \/ Settle \/ Resume
  <2>1. flawless' = flawless
    BY <1>4, Zenon DEF Tick, CapReached, EmptyPlan, Commit, Reject, Credit, Stagnate, EndLoop,
                Settle, Resume, history, noted
  <2> QED BY <1>4, <2>1, Zenon
<1>5. ASSUME NEW items \in SUBSET (Features \cup Extras), MakePlan(items) PROVE flawless
  BY <1>5, Zenon DEF MakePlan, history, noted
<1>6. ASSUME NEW green \in SUBSET (Features \cup Extras), NEW intact \in BOOLEAN,
         Deterministic(green, intact)
      PROVE  flawless /\ result'.gate = "PASS"
  BY <1>6, Zenon DEF Deterministic
<1>7. ASSUME NEW answers, NEW found, Scrutiny(answers, found)
      PROVE  flawless /\ result'.scrutiny = "PASS"
  BY <1>7, Zenon DEF Scrutiny
<1>8. ASSUME NEW answer, NEW missing, Testing(answer, missing)
      PROVE  flawless /\ result'.testing = "PASS"
  BY <1>8, Zenon DEF Testing
<1>9. CASE UNCHANGED vars
  <2>1. flawless' = flawless
    BY <1>9, Zenon DEF vars, history, noted
  <2> QED BY <1>9, <2>1, Zenon
<1> QED BY <1>2, <1>3, <1>4, <1>5, <1>6, <1>7, <1>8, <1>9, Zenon DEF Next, Step, Work, Operator

(* The sets that are counted.                                               *)
LEMMA Counting ==
  ASSUME Going
  PROVE  /\ IsFiniteSet(accepted) /\ Cardinality(accepted) \in Nat
         /\ Cardinality(accepted) <= Cardinality(Works)
         /\ ~AllWorked => Cardinality(accepted) < Cardinality(Works)
         /\ IsFiniteSet(DoneOf(phase)) /\ Cardinality(DoneOf(phase)) \in Nat
         /\ Cardinality(DoneOf(phase)) <= Cardinality(Phases)
<1>1. accepted \in SUBSET Works /\ DoneOf(phase) \in SUBSET Phases
  BY DEF Going, Credits, DoneOf
<1> QED BY <1>1, Counts DEF AllWorked

(* Items that are not accepted yet are open, and nothing else is.           *)
LEMMA OpenWork ==
  ASSUME Going, pc # "credit"
  PROVE  /\ Unfinished = Works \ accepted
         /\ \A i \in Works \ accepted : status[i] = "open" /\ i \in owed
<1>1. Works \subseteq Items
  BY DEF Works, Items
<1>2. \A i \in Works : /\ status[i] \in {"open", "satisfied"}
                       /\ i \in accepted <=> status[i] = "satisfied"
                       /\ i \in accepted <=> i \notin owed
  BY DEF Going, Credits
<1>3. \A i \in Items \ Works : status[i] = "absent"
  BY DEF Going, Credits
<1> QED BY <1>1, <1>2, <1>3 DEF Unfinished

LEMMA QuietGoes ==
  ASSUME TypeOK, NEW ft, NEW p \in Phases
  PROVE  LET after == Quiet(phase, ft, home)[p]
         IN  /\ after = "done" <=> phase[p] = "done"
             /\ after = "absent" <=> phase[p] = "absent"
             /\ phase[p] = "validating" => after = "validating"
             /\ after = "pending" => /\ phase[p] = "pending"
                                     /\ \A f \in Features : home[f] = p => ft[f] # "in_progress"
             /\ phase[p] = "in_progress" /\ (\E f \in Features : home[f] = p /\ ft[f] # "absent")
                 /\ (\A f \in Features : home[f] = p => ft[f] \in {"absent", "done"})
                 => after = "validating"
BY Assumptions DEF Quiet, Advance, Moves, TypeOK, PhaseStatuses

LEMMA TickGoes == ASSUME TypeOK, Rest, RoomForAll, Going, Tick PROVE Going'
<1>1. /\ pc = "tick" /\ phase' = Quiet(phase, feature, home) /\ stop' = Decision(phase')
      /\ turns' = turns + 1 /\ turns < LoopCap
      /\ IF stop' = "none"
         THEN pc' = "plan" /\ loops' = IF loops < MaxLoops THEN loops + 1 ELSE loops
         ELSE pc' = "stop" /\ loops' = loops
      /\ UNCHANGED <<feature, frozen, overspent, hindered, disturbed, unproved, home,
                     accepted, status, owed, plan, result, boundary, committed>>
  BY DEF Tick, ledgerVars, loopVars, history, noted
<1>2. \A p \in Phases : /\ phase'[p] = "done" <=> phase[p] = "done"
                        /\ phase'[p] = "absent" <=> phase[p] = "absent"
  BY <1>1, QuietGoes
<1>3. DoneOf(phase') = DoneOf(phase)
  BY <1>2 DEF DoneOf
<1>4. /\ turns \in Nat /\ loops \in Nat /\ MaxLoops \in Nat
      /\ turns <= Cardinality(accepted) + Cardinality(DoneOf(phase))
      /\ ~AllWorked => loops <= Cardinality(accepted)
  BY <1>1, Counting, Assumptions DEF Going, Counted, Ahead, TypeOK
<1>5. ~AllWorked => ~TimeIsUp
  BY <1>4, Counting, Counts DEF RoomForAll, TimeIsUp
<1>6. Unfinished = Works \ accepted /\ \A i \in Unfinished : status[i] = "open"
  BY <1>1, OpenWork
<1>7. Reason = IF AllWorked THEN "DONE" ELSE "none"
  <2>1. ~frozen /\ ~overspent
    BY DEF Going, Calm
  <2>2. AllWorked <=> Unfinished = {}
    BY <1>6 DEF AllWorked
  <2>3. ~AllBlocked
    BY <1>6 DEF AllBlocked
  <2> QED BY <1>5, <2>1, <2>2, <2>3 DEF Reason
<1>8. stop' \in {"DONE", "none"}
  BY <1>1, <1>7 DEF Decision
<1>9. ASSUME AllWorked, stop' = "none" PROVE \E p \in Phases : phase'[p] = "validating"
  <2>1. ASSUME NEW p \in Phases \ LatePhases PROVE phase'[p] \in {"validating", "done"}
    <3>1. PICK f \in Features \ Late : home[f] = p
      BY DEF RoomForAll, Going, Calm
    <3>2. \A g \in Features \ Late : feature[g] = "done"
      BY <1>9 DEF Going, Starts, AllWorked, Works
    <3>3. \A g \in Late : feature[g] = "absent"
      BY DEF Going, Starts
    <3>4. phase[p] \notin {"pending", "absent"}
      BY <3>1, <3>2 DEF Going, Starts, Rest, Housed
    <3>5. phase[p] \in {"in_progress", "validating", "done"}
      BY <3>4 DEF TypeOK, PhaseStatuses
    <3>6. f \in Features /\ feature[f] # "absent"
          /\ \A g \in Features : feature[g] \in {"absent", "done"}
      BY <3>1, <3>2, <3>3
    <3> QED BY <1>1, <3>1, <3>5, <3>6, QuietGoes
  <2>2. CASE PhasesDone(phase')
    <3>1. \A p \in Phases : phase'[p] = phase[p] /\ phase[p] # "validating"
      BY <1>2, <2>2 DEF PhasesDone
    <3>2. LastMove(phase, phase') = "none"
      BY <3>1 DEF LastMove
    <3> QED BY <1>1, <1>7, <1>9, <2>2, <3>2 DEF Decision
  <2>3. \A p \in LatePhases : p \in Phases /\ phase'[p] = "absent"
    BY <1>2, MissionAssumption DEF Going, Starts
  <2> QED BY <2>1, <2>2, <2>3 DEF PhasesDone
<1>10. pc' \in {"plan", "stop"} /\ (pc' = "plan" => stop' = "none")
      /\ (pc' = "stop" => stop' # "none")
  BY <1>1
<1>11. Calm' /\ Credits' /\ StopsDone'
  <2>1. Calm' /\ StopsDone'
    BY <1>1, <1>8, <1>10 DEF Going, Calm, StopsDone
  <2>2. pc # "credit" /\ pc' # "credit"
    BY <1>1, <1>10
  <2>3. UNCHANGED <<accepted, status, owed>>
    BY <1>1
  <2>4. Credits'
    BY ONLY <2>2, <2>3, Going DEF Going, Credits
  <2> QED BY <2>1, <2>4
<1>12. Starts'
  <2>1. \A p \in Phases : phase'[p] = "pending" => phase[p] = "pending"
    BY <1>1, QuietGoes
  <2>2. \A f \in Features : home[f] \in Phases
    BY DEF TypeOK
  <2>3. \A p \in LatePhases : phase'[p] = "absent"
    BY <1>2, MissionAssumption DEF Going, Starts
  <2>4. UNCHANGED <<feature, home, accepted, plan>>
    BY <1>1
  <2>5. Starts
    BY DEF Going
  <2> QED BY ONLY <2>1, <2>2, <2>3, <2>4, <2>5 DEF Starts
<1>13. Passing'
  <2>1. plan' = {}
    BY <1>1 DEF Rest, AtRest
  <2> QED BY <1>1, <1>9, <1>10, <2>1 DEF Passing, AllWorked, InLoop
<1>14. Counted'
  <2>1. AllWorked' = AllWorked /\ accepted' = accepted
    BY <1>1 DEF AllWorked
  <2>2. pc' = "plan" => Ahead' = 1 /\ loops' <= loops + 1
    BY <1>1, <1>4 DEF Ahead
  <2> QED BY <1>1, <1>3, <1>4, <1>10, <2>1, <2>2, Counting DEF Counted
<1> QED BY <1>11, <1>12, <1>13, <1>14 DEF Going

(* The safety cap is out of reach.                                          *)
LEMMA CapIsFar == ASSUME TypeOK, RoomForAll, Going PROVE ~CapReached
<1> SUFFICES ASSUME CapReached PROVE FALSE
  OBVIOUS
<1>1. pc = "tick" /\ turns = LoopCap
  BY DEF CapReached
<1>2. turns <= Cardinality(accepted) + Cardinality(DoneOf(phase)) /\ turns \in Nat
  BY <1>1, Counting DEF Going, Counted, Ahead, TypeOK
<1> QED BY <1>1, <1>2, Counting, Counts DEF RoomForAll

(* Who plans finds work, or a phase to validate.                            *)
LEMMA MakePlanGoes ==
  ASSUME TypeOK, Rest, Going, NEW items \in SUBSET (Features \cup Extras), MakePlan(items)
  PROVE  Going'
<1>1. /\ pc = "plan" /\ items # {} /\ items \subseteq Candidates /\ plan' = items
      /\ feature' = MarkFeatures(items, "in_progress") /\ phase' = Quiet(phase, feature', home)
      /\ hindered' = {} /\ pc' = "work"
      /\ UNCHANGED <<stop, turns, loops, frozen, overspent, disturbed, unproved, home, accepted,
                     status, owed>>
  BY DEF MakePlan, Goto, ledgerVars, clockVars, history, noted
<1>2. \A f \in Features : feature'[f] = IF f \in items THEN "in_progress" ELSE feature[f]
  BY <1>1 DEF MarkFeatures
<1>3. items \subseteq Works \ accepted
  <2>1. ASSUME NEW i \in items PROVE i \in Works /\ i \in owed
    <3>1. CASE i \in Features
      <4>1. i \notin Extras
        BY <3>1, MissionAssumption
      <4>2. feature[i] \in {"pending", "in_progress"} /\ i \in owed
        BY <1>1, <4>1 DEF Candidates, Open
      <4> QED BY <3>1, <4>2 DEF Going, Starts, Works
    <3>2. CASE i \in Extras
      BY <1>1, <3>2, MissionAssumption DEF Candidates, Open, Works
    <3> QED BY <3>1, <3>2
  <2> QED BY <1>1, <2>1 DEF Going, Credits
<1>4. \A p \in Phases : /\ phase'[p] = "done" <=> phase[p] = "done"
                        /\ phase'[p] = "absent" <=> phase[p] = "absent"
  BY <1>1, QuietGoes
<1>5. DoneOf(phase') = DoneOf(phase)
  BY <1>4 DEF DoneOf
<1>6. Calm' /\ Credits' /\ StopsDone'
  BY <1>1 DEF Going, Calm, Credits, StopsDone
<1>7. Starts'
  <2>1. ASSUME NEW f \in Features PROVE phase'[home[f]] = "pending" =>
                   phase[home[f]] = "pending" /\ f \notin items
    <3>1. PICK p \in Phases : p = home[f]
      BY DEF TypeOK
    <3>2. phase'[p] = "pending" =>
            /\ phase[p] = "pending"
            /\ \A g \in Features : home[g] = p => feature'[g] # "in_progress"
      BY <1>1, QuietGoes
    <3> QED BY <1>2, <3>1, <3>2
  <2>2. \A f \in Late : f \notin items /\ f \in Features
    BY <1>3, MissionAssumption DEF Works
  <2>3. \A p \in LatePhases : phase'[p] = "absent"
    BY <1>4, MissionAssumption DEF Going, Starts
  <2> QED BY <1>1, <1>2, <1>3, <2>1, <2>2, <2>3 DEF Going, Starts
<1>8. Passing'
  BY <1>1, <1>3 DEF Passing
<1>9. Counted'
  <2>1. AllWorked' = AllWorked /\ Ahead = 1 /\ Ahead' = 1
    BY <1>1 DEF AllWorked, Ahead
  <2> QED BY <1>1, <1>5, <2>1 DEF Going, Counted
<1> QED BY <1>6, <1>7, <1>8, <1>9 DEF Going

LEMMA EmptyPlanGoes ==
  ASSUME TypeOK, Rest, Going, EmptyPlan PROVE Going'
<1>1. pc = "plan" /\ Candidates = {}
  BY DEF EmptyPlan
<1>2. AllWorked
  <2> SUFFICES ASSUME NEW i \in Works, i \notin accepted PROVE FALSE
    BY DEF AllWorked
  <2>1. status[i] = "open" /\ i \in owed /\ i \notin hindered
    BY <1>1, OpenWork DEF Going, Calm
  <2>2. i \notin Extras
    BY <1>1, <2>1 DEF Candidates, Open
  <2>3. i \in Features \ Late
    BY <2>2 DEF Works
  <2>4. feature[i] \in {"pending", "in_progress"}
    BY <2>3 DEF Going, Starts, Rest, DoneIsAccepted, Calm
  <2>5. phase[home[i]] \in {"pending", "in_progress"}
    <3>1. phase[home[i]] \in PhaseStatuses
      BY <2>3 DEF TypeOK
    <3>2. phase[home[i]] \notin {"absent", "validating", "done"}
      BY <2>3, <2>4 DEF Rest, ClosedIsWhole, Housed, Going, Calm
    <3> QED BY <3>1, <3>2 DEF PhaseStatuses
  <2> QED BY <1>1, <2>1, <2>3, <2>4, <2>5 DEF Candidates, Open
<1>3. boundary'
  <2>1. PICK p \in Phases : phase[p] = "validating"
    BY <1>1, <1>2 DEF Going, Passing
  <2>2. Validating(phase) # {} /\ Validating(phase) \subseteq Phases
    BY <2>1 DEF Validating
  <2>3. Assessed({}, phase) = FirstOf(Validating(phase))
    BY <2>2 DEF Assessed
  <2>4. FirstOf(Validating(phase)) \in Phases
    BY <2>2, FirstIsMember, Assumptions
  <2>5. Assessed({}, phase) # 0
    BY <2>3, <2>4, Assumptions
  <2> QED BY <2>5 DEF EmptyPlan
<1>4. /\ pc' = "validate" /\ plan' = {} /\ hindered' = {} /\ boundary'
      /\ UNCHANGED <<phase, feature, stop, turns, loops, frozen, overspent, disturbed, unproved,
                     home, accepted, status, owed>>
  BY <1>3 DEF EmptyPlan, Goto, missionVars, clockVars, history, noted
<1>5. Calm' /\ Credits' /\ StopsDone' /\ Starts'
  BY <1>1, <1>4 DEF Going, Calm, Credits, StopsDone, Starts
<1>6. Passing'
  BY <1>2, <1>4 DEF Passing, AllWorked
<1>7. Counted'
  <2>1. AllWorked' = AllWorked /\ Ahead = 1 /\ Ahead' = 1
    BY <1>1, <1>4 DEF AllWorked, Ahead
  <2> QED BY <1>1, <1>4, <2>1 DEF Going, Counted
<1> QED BY <1>5, <1>6, <1>7 DEF Going

(* A step of the pipeline: the mission and the ledger stay as they are.     *)
LEMMA PipelineGoes ==
  ASSUME Going, Passing', Ahead = 1, pc \notin {"credit", "stop"},
         pc' \in {"scrutiny", "testing", "commit", "settle"},
         UNCHANGED <<phase, feature, stop, turns, loops, frozen, overspent, disturbed, unproved,
                     home, accepted, status, owed, plan, hindered>>
  PROVE  Going'
<1>1. Calm' /\ Credits' /\ StopsDone' /\ Starts'
  BY DEF Going, Calm, Credits, StopsDone, Starts
<1>2. Counted'
  <2>1. AllWorked' = AllWorked /\ Ahead' = 1
    BY DEF AllWorked, Ahead
  <2> QED BY <2>1 DEF Going, Counted
<1> QED BY <1>1, <1>2 DEF Going

LEMMA DeterministicGoes ==
  ASSUME TypeOK, Rest, Going, NEW green \in SUBSET (Features \cup Extras), NEW intact \in BOOLEAN,
         Deterministic(green, intact),
         result'.gate = "PASS"
  PROVE  Going'
<1>1. /\ pc \in {"work", "validate"} /\ result' = Gate(Targets, accepted, green, intact)
      /\ pc' = AfterGate(result'.gate) /\ stop' = stop /\ turns' = turns
      /\ UNCHANGED <<phase, feature, loops, frozen, overspent, disturbed, unproved, home,
                     accepted, status, owed, plan, hindered, boundary>>
  BY DEF Deterministic, Goto, missionVars, ledgerVars, clockVars, noted
<1>2. result'.newly = (Targets \ accepted) \cap green /\ Targets \subseteq result'.satisfied
      /\ result'.satisfied \subseteq green
  BY <1>1 DEF Gate
<1>3. Targets \ accepted = plan /\ plan \subseteq Targets
  <2>1. CASE pc = "work"
    BY <2>1 DEF Targets, Going, Passing
  <2>2. CASE pc # "work"
    <3>1. plan = {} /\ AllWorked
      BY <1>1, <2>2 DEF Going, Passing, InLoop
    <3>2. \A f \in Features : feature[f] # "absent" => f \in Works
      BY DEF Going, Starts, Works
    <3> QED BY <2>2, <3>1, <3>2 DEF Targets, AllWorked
  <2> QED BY <2>1, <2>2
<1>4. result'.newly = plan /\ plan \subseteq result'.satisfied
  BY <1>2, <1>3
<1>5. pc' \in {"scrutiny", "commit"} /\ (pc' = "commit" => plan # {})
  BY <1>1 DEF AfterGate, Settled, Going, Passing, InLoop
<1>6. Passing'
  <2>1. plan = {} => boundary /\ AllWorked
    BY <1>1 DEF Going, Passing, InLoop
  <2>2. plan \subseteq Works /\ plan \cap accepted = {}
    BY <1>3 DEF Going, Passing
  <2> QED BY <1>1, <1>4, <1>5, <2>1, <2>2 DEF Passing, AllWorked
<1>7. Ahead = 1
  BY <1>1 DEF Ahead
<1> QED BY <1>1, <1>5, <1>6, <1>7, PipelineGoes

LEMMA ScrutinyGoes ==
  ASSUME TypeOK, Going, NEW answers \in SUBSET {"passed", "failed", "blocked"},
         NEW found \in SUBSET Issues,
         Scrutiny(answers, found), result'.scrutiny = "PASS"
  PROVE  Going'
<1>1. /\ pc = "scrutiny" /\ status' = Injected(found)
      /\ result' = [result EXCEPT !.scrutiny = ScrutinyVerdict(answers), !.rows = (at \in scarred)]
      /\ pc' = AfterScrutiny(result'.scrutiny) /\ stop' = stop /\ turns' = turns
      /\ "failed" \notin answers => found = {}
      /\ UNCHANGED <<phase, feature, loops, frozen, overspent, disturbed, unproved, home,
                     accepted, owed, plan, hindered, boundary>>
  BY DEF Scrutiny, Goto, clockVars, noted
<1>2. /\ result'.gate = result.gate /\ result'.newly = result.newly
      /\ result'.satisfied = result.satisfied /\ result'.scrutiny = ScrutinyVerdict(answers)
  BY <1>1 DEF TypeOK, Results
<1>3. found = {}
  BY <1>1, <1>2 DEF ScrutinyVerdict
<1>4. status' = status
  BY <1>1, <1>3 DEF Injected, TypeOK
<1>5. pc' = "testing"
  BY <1>1 DEF AfterScrutiny
<1>6. Passing'
  BY <1>1, <1>2, <1>5 DEF Going, Passing, AllWorked, InLoop
<1>7. Ahead = 1
  BY <1>1 DEF Ahead
<1> QED BY <1>1, <1>4, <1>5, <1>6, <1>7, PipelineGoes

LEMMA TestingGoes ==
  ASSUME TypeOK, Going, NEW answer, NEW missing \in BOOLEAN, Testing(answer, missing),
         result'.testing = "PASS"
  PROVE  Going'
<1>1. /\ pc = "testing" /\ pc' = Settled /\ stop' = stop /\ turns' = turns
      /\ result' = [result EXCEPT !.testing = TestingVerdict(Answers(answer), missing)]
      /\ UNCHANGED <<phase, feature, loops, frozen, overspent, disturbed, unproved, home,
                     accepted, status, owed, plan, hindered, boundary>>
  BY DEF Testing, Goto, ledgerVars, clockVars, noted
<1>2. /\ result'.gate = result.gate /\ result'.newly = result.newly
      /\ result'.satisfied = result.satisfied /\ result'.scrutiny = result.scrutiny
  BY <1>1 DEF TypeOK, Results
<1>3. pc' \in {"settle", "commit"} /\ (pc' = "settle" <=> plan = {})
  BY <1>1 DEF Settled
<1>4. Passing'
  BY <1>1, <1>2, <1>3 DEF Going, Passing, AllWorked, InLoop
<1>5. Ahead = 1
  BY <1>1 DEF Ahead
<1> QED BY <1>1, <1>3, <1>4, <1>5, PipelineGoes

(* A commit accepts the whole plan, so the count of the loop is paid.       *)
LEMMA CommitGoes == ASSUME TypeOK, Going, Commit PROVE Going'
<1>1. /\ pc = "commit" /\ pc' = "credit" /\ committed' /\ accepted' = accepted \cup result.newly
      /\ feature' = MarkFeatures(Completed, "done") /\ stop' = stop /\ turns' = turns
      /\ UNCHANGED <<phase, loops, frozen, overspent, disturbed, unproved, home, status, owed,
                     plan, hindered, result>>
  BY DEF Commit, Goto, clockVars, history, noted
<1>2. /\ plan # {} /\ plan \subseteq Works /\ plan \cap accepted = {}
      /\ result.gate = "PASS" /\ result.newly = plan /\ plan \subseteq result.satisfied
  BY <1>1 DEF Going, Passing
<1>3. accepted' = accepted \cup plan /\ accepted' \subseteq Works /\ Completed = plan \cap Features
  BY <1>1, <1>2 DEF Going, Credits, Completed
<1>4. \A f \in Features : feature'[f] = IF f \in plan THEN "done" ELSE feature[f]
  BY <1>1, <1>3 DEF MarkFeatures
<1>5. Calm' /\ StopsDone'
  BY <1>1 DEF Going, Calm, StopsDone
<1>6. Credits'
  BY <1>1, <1>3 DEF Going, Credits
<1>7. Starts'
  <2>1. \A f \in Late : f \in Features /\ f \notin plan
    BY <1>2, MissionAssumption DEF Works
  <2> QED BY <1>1, <1>3, <1>4, <2>1 DEF Going, Starts
<1>8. Passing'
  BY <1>1, <1>2, <1>3 DEF Passing
<1>9. Counted'
  <2>1. IsFiniteSet(accepted')
    BY <1>3, Counts
  <2>2. accepted \subseteq accepted' /\ accepted # accepted'
    BY <1>2, <1>3
  <2>3. /\ Cardinality(accepted) \in Nat /\ Cardinality(accepted') \in Nat
        /\ Cardinality(accepted') >= Cardinality(accepted) + 1
    BY <2>1, <2>2, Grows
  <2>4. AllWorked => AllWorked'
    BY <2>2 DEF AllWorked
  <2>5. Ahead = 1 /\ Ahead' = 0 /\ phase' = phase
    BY <1>1 DEF Ahead
  <2>6. /\ turns <= Cardinality(accepted) + Cardinality(DoneOf(phase)) + 1
        /\ ~AllWorked => loops <= Cardinality(accepted) + 1
    BY <1>1, <2>5 DEF Going, Counted
  <2>7. turns \in Nat /\ loops \in Nat /\ Cardinality(DoneOf(phase)) \in Nat
    BY Counting, Assumptions DEF TypeOK
  <2> QED BY <1>1, <2>3, <2>4, <2>5, <2>6, <2>7 DEF Counted
<1> QED BY <1>5, <1>6, <1>7, <1>8, <1>9 DEF Going

LEMMA NothingIsRejected == ASSUME Going PROVE ~Reject
BY DEF Going, Passing, Reject, CanCommit

LEMMA CreditGoes == ASSUME TypeOK, Going, Credit PROVE Going'
<1>1. pc = "credit" /\ committed /\ result.newly = plan /\ plan \subseteq accepted
  BY DEF Credit, Going, Passing
<1>2. /\ pc' = "stagnate" /\ stop' = stop /\ turns' = turns
      /\ status' = MarkItems(plan, "satisfied") /\ owed' = owed \ plan
      /\ UNCHANGED <<phase, feature, loops, frozen, overspent, disturbed, unproved, home,
                     accepted, plan, hindered, result, committed>>
  BY <1>1 DEF Credit, Credited, Goto, missionVars, clockVars, loopVars, history, noted
<1>3. Calm' /\ StopsDone' /\ Starts'
  BY <1>1, <1>2 DEF Going, Calm, StopsDone, Starts
<1>4. Credits'
  <2>1. Works \subseteq Items
    BY DEF Works, Items
  <2>2. \A i \in Works : status[i] \in {"open", "satisfied"}
    BY DEF Going, Credits
  <2>3. \A i \in Works : status'[i] = IF i \in plan THEN "satisfied" ELSE status[i]
    BY <1>2, <2>1, <2>2 DEF MarkItems
  <2>4. \A i \in Items \ Works : status'[i] = "absent"
    BY <1>2 DEF MarkItems, Going, Credits
  <2> QED BY <1>1, <1>2, <2>2, <2>3, <2>4 DEF Going, Credits
<1>5. Passing'
  BY <1>1, <1>2 DEF Going, Passing, AllWorked, InLoop
<1>6. Counted'
  <2>1. AllWorked' = AllWorked /\ Ahead = 0 /\ Ahead' = 0
    BY <1>1, <1>2 DEF AllWorked, Ahead
  <2> QED BY <1>1, <1>2, <2>1 DEF Going, Counted
<1> QED BY <1>3, <1>4, <1>5, <1>6 DEF Going

LEMMA StagnateGoes == ASSUME TypeOK, Going, Stagnate PROVE Going'
<1>1. pc = "stagnate" /\ committed /\ plan \subseteq accepted /\ plan \subseteq Works
  BY DEF Stagnate, Going, Passing
<1>2. \A i \in plan : status[i] = "satisfied"
  BY <1>1 DEF Going, Credits
<1>3. /\ pc' = "end" /\ stop' = stop /\ turns' = turns
      /\ UNCHANGED <<phase, feature, loops, frozen, overspent, disturbed, unproved, home,
                     accepted, owed, plan, hindered, result, committed>>
  BY DEF Stagnate, Goto, missionVars, clockVars, loopVars, history, noted
<1>4. status' = status
  <2>1. {i \in plan : status[i] \notin {"absent", "satisfied"}} = {}
    BY <1>2
  <2>2. status' = [i \in Items |-> status[i]]
    BY <2>1 DEF Stagnate
  <2> QED BY <2>2 DEF TypeOK
<1>5. Calm' /\ StopsDone' /\ Starts' /\ Credits'
  BY <1>1, <1>3, <1>4 DEF Going, Calm, StopsDone, Starts, Credits
<1>6. Passing'
  BY <1>1, <1>3 DEF Going, Passing, AllWorked, InLoop
<1>7. Counted'
  <2>1. AllWorked' = AllWorked /\ Ahead = 0 /\ Ahead' = 0
    BY <1>1, <1>3 DEF AllWorked, Ahead
  <2> QED BY <1>1, <1>3, <2>1 DEF Going, Counted
<1> QED BY <1>5, <1>6, <1>7 DEF Going

(* The end of a loop only adds to the phases that are done.                 *)
LEMMA AdvanceGoes ==
  ASSUME TypeOK, NEW effective, phase' = Advance(phase, feature, home, at, result, effective)
  PROVE  /\ DoneOf(phase) \subseteq DoneOf(phase')
         /\ \A p \in Phases : /\ phase'[p] = "pending" => phase[p] = "pending"
                              /\ phase[p] = "absent" => phase'[p] = "absent"
         /\ at \in Phases /\ phase[at] = "validating" /\ Passed(result, effective) =>
              at \in DoneOf(phase') /\ at \notin DoneOf(phase)
<1>1. \A p \in Phases : phase'[p] = Moves(p, phase, feature, home, at, result, effective)
  BY DEF Advance
<1>2. \A p \in Phases : phase[p] = "done" => phase'[p] = "done"
  BY <1>1 DEF Moves
<1>3. \A p \in Phases : /\ phase'[p] = "pending" => phase[p] = "pending"
                        /\ phase[p] = "absent" => phase'[p] = "absent"
  BY <1>1 DEF Moves
<1>4. ASSUME at \in Phases, phase[at] = "validating", Passed(result, effective)
      PROVE  phase'[at] = "done"
  BY <1>1, <1>4 DEF Moves, Passed, Failed
<1> QED BY <1>2, <1>3, <1>4 DEF DoneOf

LEMMA EndLoopGoes == ASSUME TypeOK, Going, EndLoop PROVE Going'
<1>1. pc = "end" /\ committed
  BY DEF EndLoop, Going, Passing
<1>2. /\ pc' = "tick" /\ stop' = stop /\ turns' = turns /\ plan' = {}
      /\ phase' = Advance(phase, feature, home, at, result, Effective)
      /\ UNCHANGED <<feature, loops, frozen, overspent, disturbed, unproved, home, accepted,
                     owed, status, hindered>>
  BY <1>1 DEF EndLoop, Clear, Goto, ledgerVars, clockVars, history, noted
<1>3. /\ DoneOf(phase) \subseteq DoneOf(phase')
      /\ \A p \in Phases : /\ phase'[p] = "pending" => phase[p] = "pending"
                           /\ phase[p] = "absent" => phase'[p] = "absent"
  BY <1>2, AdvanceGoes
<1>4. Calm' /\ StopsDone' /\ Credits'
  BY <1>1, <1>2 DEF Going, Calm, StopsDone, Credits
<1>5. Starts'
  BY <1>2, <1>3, MissionAssumption DEF Going, Starts, TypeOK
<1>6. Passing'
  BY <1>2 DEF Passing, InLoop
<1>7. Counted'
  <2>1. AllWorked' = AllWorked /\ Ahead = 0 /\ Ahead' = 0
    BY <1>1, <1>2 DEF AllWorked, Ahead
  <2>2. DoneOf(phase') \in SUBSET Phases
    BY DEF DoneOf
  <2>3. /\ Cardinality(DoneOf(phase')) \in Nat /\ Cardinality(DoneOf(phase)) \in Nat
        /\ Cardinality(DoneOf(phase)) <= Cardinality(DoneOf(phase'))
    BY <1>3, <2>2, Counts, Counting, FS_Subset
  <2>4. turns \in Nat /\ Cardinality(accepted) \in Nat
    BY Counting, Assumptions DEF TypeOK
  <2> QED BY <1>1, <1>2, <2>1, <2>3, <2>4 DEF Going, Counted
<1> QED BY <1>4, <1>5, <1>6, <1>7 DEF Going

LEMMA SettleGoes == ASSUME TypeOK, Rest, Going, Settle PROVE Going'
<1>1. /\ pc = "settle" /\ plan = {} /\ boundary /\ AllWorked /\ result.gate = "PASS"
      /\ result.newly = {} /\ result.scrutiny = "PASS" /\ result.testing = "PASS"
  BY DEF Settle, Going, Passing, InLoop
<1>2. /\ pc' = "tick" /\ stop' = stop /\ turns' = turns /\ plan' = {}
      /\ phase' = Advance(phase, feature, home, at, result, PipelineVerdict(result))
      /\ status' = MarkItems({}, "satisfied") /\ owed' = owed \ {}
      /\ UNCHANGED <<feature, loops, frozen, overspent, disturbed, unproved, home, accepted,
                     hindered>>
  BY <1>1 DEF Settle, Credited, Clear, Goto, clockVars, history, noted
<1>3. status' = status /\ owed' = owed
  BY <1>2 DEF MarkItems, TypeOK
<1>4. at \in Phases /\ phase[at] = "validating" /\ Passed(result, PipelineVerdict(result))
  BY <1>1 DEF Rest, BoundaryIsOpen, Running, Passed, PipelineVerdict, Settle
<1>5. /\ DoneOf(phase) \subseteq DoneOf(phase') /\ DoneOf(phase) # DoneOf(phase')
      /\ \A p \in Phases : /\ phase'[p] = "pending" => phase[p] = "pending"
                           /\ phase[p] = "absent" => phase'[p] = "absent"
  BY <1>2, <1>4, AdvanceGoes
<1>6. Calm' /\ StopsDone' /\ Credits'
  BY <1>1, <1>2, <1>3 DEF Going, Calm, StopsDone, Credits
<1>7. Starts'
  BY <1>2, <1>5, MissionAssumption DEF Going, Starts, TypeOK
<1>8. Passing'
  BY <1>2 DEF Passing, InLoop
<1>9. Counted'
  <2>1. AllWorked' /\ Ahead = 1 /\ Ahead' = 0
    BY <1>1, <1>2 DEF AllWorked, Ahead
  <2>2. IsFiniteSet(DoneOf(phase'))
    BY Counts DEF DoneOf
  <2>3. /\ Cardinality(DoneOf(phase')) \in Nat /\ Cardinality(DoneOf(phase)) \in Nat
        /\ Cardinality(DoneOf(phase')) >= Cardinality(DoneOf(phase)) + 1
    BY <1>5, <2>2, Grows
  <2>4. turns \in Nat /\ Cardinality(accepted) \in Nat
    BY Counting, Assumptions DEF TypeOK
  <2> QED BY <1>1, <1>2, <2>1, <2>3, <2>4 DEF Going, Counted
<1> QED BY <1>6, <1>7, <1>8, <1>9 DEF Going

LEMMA FlawlessStep == Inv /\ RoomForAll /\ Flawless /\ [Next]_vars => Flawless'
<1> SUFFICES ASSUME TypeOK, Rest, RoomForAll, Flawless, [Next]_vars, flawless' PROVE Going'
  BY DEF Flawless, Inv
<1>1. flawless /\ Going
  BY FlawlessSteps DEF Flawless
<1>2. CASE UNCHANGED vars
  BY <1>1, <1>2 DEF Going, Calm, Credits, Starts, Passing, Counted, StopsDone, AllWorked, Ahead,
     vars, missionVars, ledgerVars, clockVars, loopVars, runVars, history, noted
<1>3. ~Resume
  BY <1>1 DEF Resume, Going, Calm
<1> QED BY <1>1, <1>2, <1>3, FlawlessSteps, TickGoes, CapIsFar, MakePlanGoes, EmptyPlanGoes,
           DeterministicGoes, ScrutinyGoes, TestingGoes, CommitGoes, NothingIsRejected, CreditGoes,
           StagnateGoes, EndLoopGoes, SettleGoes

LEMMA FlawlessInit == Init => Flawless
<1> SUFFICES ASSUME Init PROVE Going
  BY DEF Flawless
<1>1. accepted = {} /\ turns = 0 /\ loops = 0 /\ pc = "tick" /\ plan = {}
  BY DEF Init
<1>2. Calm /\ StopsDone
  BY DEF Init, Calm, StopsDone
<1>3. Credits
  BY MissionAssumption DEF Init, Credits, Works, Items
<1>4. Starts
  BY MissionAssumption DEF Init, Starts
<1>5. Passing
  BY <1>1 DEF Passing, InLoop
<1>6. Counted
  <2>1. DoneOf(phase) = {}
    BY DEF Init, DoneOf
  <2> QED BY <1>1, <2>1, FS_EmptySet DEF Counted, Ahead
<1> QED BY <1>2, <1>3, <1>4, <1>5, <1>6 DEF Going

(* A mission with a loop for each of its items and a turn for each phase    *)
(* more, none of whose phases is empty, ends DONE when every candidate and  *)
(* every boundary passes and nothing else happens.                          *)
THEOREM FlawlessRunsEndDone == RoomForAll /\ Spec => []FlawlessRunIsDone
<1>1. Flawless => FlawlessRunIsDone
  BY DEF Flawless, Going, StopsDone, FlawlessRunIsDone
<1>2. RoomForAll /\ Flawless /\ Inv /\ [Next]_vars => Flawless'
  BY FlawlessStep
<1>3. ASSUME RoomForAll PROVE Spec => []FlawlessRunIsDone
  BY <1>1, <1>2, <1>3, FlawlessInit, Inductive, PTL DEF Spec
<1> QED BY <1>3
=============================================================================
