--------------------------- MODULE SynthesisProofs ---------------------------
(***************************************************************************)
(* The properties of Synthesis, for any items, caps, thresholds and batch   *)
(* sizes.  Shape, Fresh, Assigned and Tested say what the process may hold  *)
(* at each place and how it relates to the ledger; with the types they are  *)
(* inductive, and every property is a step away from them.                  *)
(***************************************************************************)
EXTENDS Synthesis, FiniteSetTheorems, TLAPS

USE ItemsAssumption, KindsAssumption, LimitsAssumption

Attempting == {"work", "commit", "clash", "credit", "stagnate"}
Testing == {"fixture", "bcredit", "brecord", "bcomplete"}

(* What the process remembers at each place.                                *)
Shape ==
  /\ pc \notin Attempting \cup {"after"} => plan = {} /\ report = NoReport
  /\ pc \notin Testing => ready = {} /\ passed = {}
  /\ pc = "fixture" => passed = {}
  /\ passed \subseteq ready
  /\ report.newly \subseteq plan /\ report.passing \subseteq plan

(* Nothing has happened to an item that was not injected, nothing more      *)
(* happens to a closed one, and the fuse blocks who reaches its limit.      *)
Fresh ==
  /\ \A i \in Items \ Ledger :
       fails[i] = 0 /\ i \in owed /\ i \notin pending \cup accepted \cup plan
  /\ \A i \in Items : status[i] = "closed" => i \notin owed \cup pending
  /\ \A i \in Live : fails[i] < MaxItemFailures
  /\ pc \in Attempting => \A i \in plan : fails[i] < MaxItemFailures

(* The assigned items wait for no baseline and are open until their credit. *)
Assigned ==
  /\ plan \cap pending = {}
  /\ pc \in {"work", "commit", "clash", "credit"} =>
       plan \subseteq owed /\ \A i \in plan : status[i] # "closed"
  /\ pc = "credit" => report.newly \subseteq accepted

(* The items under test, in the order of the baseline's writes.             *)
Tested ==
  /\ ready \subseteq Synthesized /\ \A i \in ready : status[i] # "closed"
  /\ pc \in Testing => Pending \subseteq ready
  /\ pc \in {"fixture", "bcredit"} => ready \subseteq pending \cap owed
  /\ pc = "brecord" => ready \subseteq pending
  /\ pc \in {"brecord", "bcomplete"} => passed \cap owed = {} /\ ready \ passed \subseteq owed
  /\ pc = "bcomplete" => passed \subseteq accepted

-----------------------------------------------------------------------------
(* There is always a round to make.                                         *)
LEMMA Rounds == MaxRounds \in Nat \ {0}
  <1> DEFINE x == MaxTotal + Batch - 1
  <1>1. x \in Nat /\ x >= Batch
    OBVIOUS
  <1>2. x \div Batch >= 1
    BY <1>1
  <1> QED BY <1>1, <1>2 DEF MaxRounds


(* The types, by what they are the types of.                                *)
DurableTyped ==
  /\ accepted \subseteq Items /\ best \subseteq Items
  /\ owed \subseteq Items /\ pending \subseteq Items
  /\ proposed \subseteq Syn
  /\ status \in [Items -> Statuses] /\ fails \in [Items -> 0..MaxItemFailures]
  /\ clashes \subseteq Syn \X (SUBSET Items) \X Nat
  /\ stale \in BOOLEAN /\ loops \in 0..MaxLoops

BaseTyped ==
  /\ ready \subseteq Items /\ passed \subseteq Items
  /\ round \in 0..MaxRounds /\ back \in {"start", "carry", "round"}

LoopTyped ==
  /\ plan \subseteq Items /\ cand \subseteq Items /\ report \in Reports
  /\ apart \in BOOLEAN /\ committed \in BOOLEAN /\ carried \in BOOLEAN

PlaceTyped ==
  /\ pc \in Baseline \cup {"start", "plan", "work", "commit", "clash", "credit",
                           "stagnate", "after", "round", "off"}
  /\ orphans \subseteq Items

Typed == DurableTyped /\ BaseTyped /\ LoopTyped /\ PlaceTyped

(* Together they are the type invariant.                                    *)
LEMMA Parts == Typed <=> TypeOK
  BY DEF Typed, TypeOK, DurableTyped, BaseTyped, LoopTyped, PlaceTyped

(* What the ends of a loop and of a baseline leave behind.                  *)
LEMMA Forgetting ==
  ASSUME NEW still \in BOOLEAN, ForgetLoop(still)  PROVE LoopTyped'
  BY DEF ForgetLoop, LoopTyped, NoReport, Reports

LEMMA ForgettingBaseline == ForgetBaseline => BaseTyped'
  BY Rounds DEF ForgetBaseline, BaseTyped

(* The count of a conflict is a number.                                     *)
LEMMA TimesCounted ==
  ASSUME NEW i  PROVE Times(i) \in Nat
  <1> DEFINE S == {n \in 1..Threshold : <<i, report.regressed, n>> \in clashes}
  <1>1. IsFiniteSet(1..Threshold)
    BY FS_Interval
  <1>2. IsFiniteSet(S)
    BY <1>1, FS_Subset
  <1>3. Cardinality(S) \in Nat
    BY <1>2, FS_CardinalityType
  <1> QED BY <1>3 DEF Times

(* A baseline returns to a known place, with a round that may be made.      *)
LEMMA Returning ==
  ASSUME Typed, NEW failed, BaselineReturns(failed)
  PROVE  BaseTyped' /\ LoopTyped' /\ PlaceTyped'
  <1>1. BaseTyped'
    <2>1. ready' \subseteq Items /\ passed' \subseteq Items
      BY DEF BaselineReturns
    <2>2. 0 \in 0..MaxRounds /\ 1 \in 0..MaxRounds /\ round \in 0..MaxRounds
      BY Rounds DEF Typed, BaseTyped
    <2>3. RoundsLeft => round + 1 \in 0..MaxRounds
      BY <2>2, Rounds DEF RoundsLeft
    <2>4. \/ UNCHANGED <<back, round>>
          \/ back' = "round" 
             /\ (round' = 1 \/ (round' = round + 1 /\ RoundsLeft) \/ round' = round)
          \/ back' = "start" /\ round' = 0
      BY DEF BaselineReturns
    <2> QED BY <2>1, <2>2, <2>3, <2>4 DEF Typed, BaseTyped
  <1>2. LoopTyped'
    <2>1. CASE UNCHANGED loopVars
      BY <2>1 DEF loopVars, LoopTyped, Typed
    <2>2. CASE ForgetLoop(FALSE)
      BY <2>2, Forgetting
    <2> QED BY <2>1, <2>2 DEF BaselineReturns
  <1>3. PlaceTyped'
    BY DEF BaselineReturns, PlaceTyped, Goto, Typed, Baseline
  <1> QED BY <1>1, <1>2, <1>3

(* A loop counts failures only of items it was given below the limit        *)
(* (Fresh), so no count passes it.                                          *)
LEMMA TypeStep ==
  Typed /\ Fresh /\ [Next]_vars => Typed'
  <1> SUFFICES ASSUME Typed, Fresh, [Next]_vars PROVE Typed'
    OBVIOUS
  <1> USE DEF vars, durable, baseVars, loopVars, Goto
  <1>1. CASE Start
    BY <1>1 DEF Start, Typed, DurableTyped, BaseTyped, LoopTyped, PlaceTyped, Baseline
  <1>2. CASE BaselineNothing
    <2>1. BaseTyped' /\ LoopTyped' /\ PlaceTyped'
      BY <1>2, Returning DEF BaselineNothing
    <2>2. DurableTyped'
      BY <1>2 DEF BaselineNothing, Typed, DurableTyped
    <2> QED BY <2>1, <2>2 DEF Typed
  <1>3. CASE BaselineMismatch
    <2>1. BaseTyped' /\ LoopTyped' /\ PlaceTyped'
      BY <1>3, Returning DEF BaselineMismatch
    <2>2. DurableTyped'
      BY <1>3 DEF BaselineMismatch, Typed, DurableTyped
    <2> QED BY <2>1, <2>2 DEF Typed
  <1>4. CASE BaselineBegins
    BY <1>4 DEF BaselineBegins, Pending, Synthesized, Ledger, Typed, DurableTyped,
                BaseTyped, LoopTyped, PlaceTyped, Baseline
  <1>5. ASSUME NEW i \in Items, FixtureRejects(i) PROVE Typed'
    BY <1>5 DEF FixtureRejects, Resolve, Statuses, Typed, DurableTyped, BaseTyped,
                LoopTyped, PlaceTyped, Baseline
  <1>6. CASE FixturesRejectedAll
    <2>1. BaseTyped' /\ LoopTyped' /\ PlaceTyped'
      BY <1>6, Returning DEF FixturesRejectedAll
    <2>2. DurableTyped'
      BY <1>6 DEF FixturesRejectedAll, Typed, DurableTyped
    <2> QED BY <2>1, <2>2 DEF Typed
  <1>7. ASSUME NEW green \in Answers(best), BaselineValidates(green) PROVE Typed'
    BY <1>7 DEF BaselineValidates, Typed, DurableTyped, BaseTyped, LoopTyped, PlaceTyped,
                Baseline
  <1>8. CASE BaselineCredits
    BY <1>8 DEF BaselineCredits, Satisfy, Statuses, Typed, DurableTyped, BaseTyped,
                LoopTyped, PlaceTyped, Baseline
  <1>9. CASE BaselineRecords
    BY <1>9 DEF BaselineRecords, Typed, DurableTyped, BaseTyped, LoopTyped, PlaceTyped,
                Baseline
  <1>10. ASSUME NEW i \in Items, BaselineCompletes(i) PROVE Typed'
    BY <1>10 DEF BaselineCompletes, Typed, DurableTyped, BaseTyped, LoopTyped, PlaceTyped,
                 Baseline
  <1>11. CASE BaselineEnds
    <2>1. BaseTyped' /\ LoopTyped' /\ PlaceTyped'
      BY <1>11, Returning DEF BaselineEnds
    <2>2. DurableTyped'
      BY <1>11 DEF BaselineEnds, Typed, DurableTyped
    <2> QED BY <2>1, <2>2 DEF Typed
  <1>12. ASSUME NEW P \in SUBSET Items, Plan(P) PROVE Typed'
    BY <1>12 DEF Plan, Plannable, Ledger, Live, Typed, DurableTyped, BaseTyped, LoopTyped,
                 PlaceTyped, Baseline
  <1>13. CASE PlanNothing
    <2>1. DurableTyped'
      BY <1>13 DEF PlanNothing, NextLoop, Typed, DurableTyped
    <2>2. BaseTyped'
      BY <1>13, ForgettingBaseline DEF PlanNothing, NextLoop
    <2>3. LoopTyped'
      BY <1>13, Forgetting DEF PlanNothing, NextLoop
    <2>4. PlaceTyped'
      BY <1>13 DEF PlanNothing, NextLoop, Typed, PlaceTyped, Baseline
    <2> QED BY <2>1, <2>2, <2>3, <2>4 DEF Typed
  <1>14. ASSUME NEW i \in Items, Blocker(i) PROVE Typed'
    BY <1>14 DEF Blocker, Statuses, Typed, DurableTyped, BaseTyped, LoopTyped, PlaceTyped,
                 Baseline
  <1>15. ASSUME NEW i \in Items, WorkerProposes(i) PROVE Typed'
    BY <1>15 DEF WorkerProposes, Statuses, Items, Typed, DurableTyped, BaseTyped, LoopTyped,
                 PlaceTyped, Baseline
  <1>16. ASSUME NEW files \in SUBSET Items,
                NEW green \in Answers(files), Validate(files, green)
         PROVE  Typed'
    <2>1. DurableTyped'
      BY <1>16 DEF Validate, Typed, DurableTyped
    <2>2. BaseTyped'
      BY <1>16 DEF Validate, Typed, BaseTyped
    <2>3. LoopTyped'
      <3>1. report' \in Reports
        BY <1>16 DEF Validate, Reports, Typed, LoopTyped, DurableTyped
      <3>2. cand' \subseteq Items
        BY <1>16 DEF Validate
      <3> QED BY <1>16, <3>1, <3>2 DEF Validate, Typed, LoopTyped
    <2>4. PlaceTyped'
      BY <1>16 DEF Validate, Typed, PlaceTyped, Baseline
    <2> QED BY <2>1, <2>2, <2>3, <2>4 DEF Typed
  <1>17. ASSUME NEW b \in BOOLEAN, Commit(b) PROVE Typed'
    BY <1>17 DEF Commit, Reports, Typed, DurableTyped, BaseTyped, LoopTyped, PlaceTyped,
                 Baseline
  <1>18. ASSUME NEW torn \in BOOLEAN, NEW killed \in BOOLEAN, CommitFails(torn, killed)
         PROVE  Typed'
    <2>1. DurableTyped'
      BY <1>18 DEF CommitFails, LoopTyped, Typed, DurableTyped
    <2>2. BaseTyped'
      BY <1>18, ForgettingBaseline DEF CommitFails, Typed, BaseTyped
    <2>3. LoopTyped'
      BY <1>18, Forgetting DEF CommitFails, Typed, LoopTyped
    <2>4. PlaceTyped'
      BY <1>18 DEF CommitFails, LoopTyped, Typed, PlaceTyped, Baseline
    <2> QED BY <2>1, <2>2, <2>3, <2>4 DEF Typed
  <1>19. CASE Reject
    BY <1>19 DEF Reject, Typed, DurableTyped, BaseTyped, LoopTyped, PlaceTyped, Baseline
  <1>20. CASE Credit
    BY <1>20 DEF Credit, Satisfy, Statuses, Reports, Typed, DurableTyped, BaseTyped,
                 LoopTyped, PlaceTyped, Baseline
  <1>21. CASE Clash
    <2>1. DurableTyped'
      <3>1. PICK i \in Clashing :
              /\ clashes' = clashes \cup {<<i, report.regressed, Times(i)>>}
              /\ (Resolve(i) \/ UNCHANGED <<status, owed, pending>>)
        BY <1>21 DEF Clash
      <3>2. i \in Syn /\ i \in Items /\ report.regressed \subseteq Items
        BY DEF Typed, LoopTyped, Reports, Clashing, Synthesized, Ledger, Items
      <3>3. Times(i) \in Nat
        BY TimesCounted
      <3>4. UNCHANGED <<accepted, best, stale, proposed, fails, loops>>
        BY <1>21 DEF Clash
      <3>5. (clashes \subseteq Syn \X (SUBSET Items) \X Nat)'
        <4>1. <<i, report.regressed, Times(i)>> \in Syn \X (SUBSET Items) \X Nat
          BY <3>2, <3>3
        <4> QED BY <3>1, <4>1 DEF Typed, DurableTyped
      <3>6. (owed \subseteq Items /\ pending \subseteq Items /\ status \in [Items -> Statuses])'
        BY <3>1, <3>2 DEF Typed, DurableTyped, Resolve, Statuses
      <3> QED BY <3>4, <3>5, <3>6 DEF Typed, DurableTyped
    <2>2. BaseTyped'
      BY <1>21 DEF Clash, Typed, BaseTyped
    <2>3. LoopTyped'
      BY <1>21 DEF Clash, Typed, LoopTyped
    <2>4. PlaceTyped'
      BY <1>21 DEF Clash, Typed, PlaceTyped, Baseline
    <2> QED BY <2>1, <2>2, <2>3, <2>4 DEF Typed
  <1>22. CASE NoClash
    BY <1>22 DEF NoClash, Typed, DurableTyped, BaseTyped, LoopTyped, PlaceTyped, Baseline
  <1>23. CASE Stagnate
    <2>1. DurableTyped'
      <3>1. \A i \in Counted : i \in Items /\ fails[i] + 1 \in 0..MaxItemFailures
        BY <1>23 DEF Stagnate, Counted, Fresh, Attempting, Typed, LoopTyped, DurableTyped
      <3>2. fails' \in [Items -> 0..MaxItemFailures]
        BY <1>23, <3>1 DEF Stagnate, Typed, DurableTyped
      <3>3. status' \in [Items -> Statuses]
        BY <1>23 DEF Stagnate, Typed, DurableTyped, Statuses
      <3> QED BY <1>23, <3>2, <3>3 DEF Stagnate, Typed, DurableTyped
    <2>2. BaseTyped'
      BY <1>23 DEF Stagnate, Counted, Typed, BaseTyped
    <2>3. LoopTyped'
      BY <1>23 DEF Stagnate, Counted, Typed, LoopTyped
    <2>4. PlaceTyped'
      BY <1>23 DEF Stagnate, Counted, Typed, PlaceTyped, Baseline
    <2> QED BY <2>1, <2>2, <2>3, <2>4 DEF Typed
  <1>24. CASE AfterLoop
    <2>1. DurableTyped'
      BY <1>24 DEF AfterLoop, Typed, DurableTyped
    <2>2. BaseTyped'
      BY <1>24, Rounds DEF AfterLoop, Typed, BaseTyped
    <2>3. LoopTyped'
      BY <1>24, Forgetting DEF AfterLoop, Typed, LoopTyped
    <2>4. PlaceTyped'
      BY <1>24 DEF AfterLoop, Typed, PlaceTyped, Baseline
    <2> QED BY <2>1, <2>2, <2>3, <2>4 DEF Typed
  <1>25. ASSUME NEW N \in SUBSET Syn, Synthesize(N) PROVE Typed'
    BY <1>25 DEF Synthesize, Statuses, Items, Typed, DurableTyped, BaseTyped, LoopTyped,
                 PlaceTyped, Baseline
  <1>26. CASE RoundsEnd
    <2>1. DurableTyped'
      BY <1>26 DEF RoundsEnd, NextLoop, Typed, DurableTyped
    <2>2. BaseTyped'
      BY <1>26, ForgettingBaseline DEF RoundsEnd, NextLoop
    <2>3. LoopTyped'
      BY <1>26, Forgetting DEF RoundsEnd, NextLoop
    <2>4. PlaceTyped'
      BY <1>26 DEF RoundsEnd, NextLoop, Typed, PlaceTyped, Baseline
    <2> QED BY <2>1, <2>2, <2>3, <2>4 DEF Typed
  <1>27. CASE Crash
    <2>1. DurableTyped'
      BY <1>27 DEF Crash, LoopTyped, Reports, Typed, DurableTyped
    <2>2. BaseTyped'
      BY <1>27, ForgettingBaseline DEF Crash
    <2>3. LoopTyped'
      BY <1>27, Forgetting DEF Crash
    <2>4. PlaceTyped'
      BY <1>27 DEF Crash, LoopTyped, Reports, Typed, PlaceTyped, Baseline
    <2> QED BY <2>1, <2>2, <2>3, <2>4 DEF Typed
  <1>28. CASE RunAgain
    BY <1>28 DEF RunAgain, Typed, DurableTyped, BaseTyped, LoopTyped, PlaceTyped, Baseline
  <1>29. ASSUME NEW i \in Items, Unblock(i) PROVE Typed'
    BY <1>29 DEF Unblock, Statuses, Typed, DurableTyped, BaseTyped, LoopTyped, PlaceTyped,
                 Baseline
  <1>30. CASE UNCHANGED vars
    BY <1>30 DEF Typed, DurableTyped, BaseTyped, LoopTyped, PlaceTyped
  <1> QED BY <1>1, <1>2, <1>3, <1>4, <1>5, <1>6, <1>7, <1>8, <1>9, <1>10, <1>11, <1>12,
             <1>13, <1>14, <1>15, <1>16, <1>17, <1>18, <1>19, <1>20, <1>21, <1>22, <1>23,
             <1>24, <1>25, <1>26, <1>27, <1>28, <1>29, <1>30
       DEF Next, BaselineStep, LoopStep

(* Nothing is remembered of a loop or a baseline that is over.              *)
LEMMA ShapeStep ==
  Typed /\ Shape /\ [Next]_vars => Shape'
  <1> SUFFICES ASSUME Typed, Shape, [Next]_vars PROVE Shape'
    OBVIOUS
  <1> USE DEF vars, durable, baseVars, loopVars, Goto, ForgetBaseline, ForgetLoop, NextLoop,
              Shape, Attempting, Testing, Baseline
  <1>1. CASE Start
    BY <1>1 DEF Start
  <1>2. CASE BaselineNothing
    BY <1>2 DEF BaselineNothing, BaselineReturns
  <1>3. CASE BaselineMismatch
    BY <1>3 DEF BaselineMismatch, BaselineReturns
  <1>4. CASE BaselineBegins
    BY <1>4 DEF BaselineBegins, Pending
  <1>5. ASSUME NEW i \in Items, FixtureRejects(i) PROVE Shape'
    BY <1>5 DEF FixtureRejects
  <1>6. CASE FixturesRejectedAll
    BY <1>6 DEF FixturesRejectedAll, BaselineReturns
  <1>7. ASSUME NEW green \in Answers(best), BaselineValidates(green) PROVE Shape'
    BY <1>7 DEF BaselineValidates
  <1>8. CASE BaselineCredits
    BY <1>8 DEF BaselineCredits
  <1>9. CASE BaselineRecords
    BY <1>9 DEF BaselineRecords
  <1>10. ASSUME NEW i \in Items, BaselineCompletes(i) PROVE Shape'
    BY <1>10 DEF BaselineCompletes
  <1>11. CASE BaselineEnds
    BY <1>11 DEF BaselineEnds, BaselineReturns
  <1>12. ASSUME NEW P \in SUBSET Items, Plan(P) PROVE Shape'
    BY <1>12 DEF Plan
  <1>13. CASE PlanNothing
    BY <1>13 DEF PlanNothing
  <1>14. ASSUME NEW i \in Items, Blocker(i) PROVE Shape'
    BY <1>14 DEF Blocker
  <1>15. ASSUME NEW i \in Items, WorkerProposes(i) PROVE Shape'
    BY <1>15 DEF WorkerProposes
  <1>16. ASSUME NEW files \in SUBSET Items,
                NEW green \in Answers(files), Validate(files, green)
         PROVE  Shape'
    BY <1>16 DEF Validate
  <1>17. ASSUME NEW b \in BOOLEAN, Commit(b) PROVE Shape'
    BY <1>17 DEF Commit
  <1>18. ASSUME NEW torn \in BOOLEAN, NEW killed \in BOOLEAN, CommitFails(torn, killed)
         PROVE  Shape'
    BY <1>18 DEF CommitFails, NoReport
  <1>19. CASE Reject
    BY <1>19 DEF Reject
  <1>20. CASE Credit
    BY <1>20 DEF Credit
  <1>21. CASE Clash
    BY <1>21 DEF Clash
  <1>22. CASE NoClash
    BY <1>22 DEF NoClash
  <1>23. CASE Stagnate
    BY <1>23 DEF Stagnate
  <1>24. CASE AfterLoop
    BY <1>24 DEF AfterLoop, NoReport
  <1>25. ASSUME NEW N \in SUBSET Syn, Synthesize(N) PROVE Shape'
    BY <1>25 DEF Synthesize
  <1>26. CASE RoundsEnd
    BY <1>26 DEF RoundsEnd
  <1>27. CASE Crash
    BY <1>27 DEF Crash, NoReport
  <1>28. CASE RunAgain
    BY <1>28 DEF RunAgain
  <1>29. ASSUME NEW i \in Items, Unblock(i) PROVE Shape'
    BY <1>29 DEF Unblock
  <1>30. CASE UNCHANGED vars
    BY <1>30
  <1> QED BY <1>1, <1>2, <1>3, <1>4, <1>5, <1>6, <1>7, <1>8, <1>9, <1>10, <1>11, <1>12,
             <1>13, <1>14, <1>15, <1>16, <1>17, <1>18, <1>19, <1>20, <1>21, <1>22, <1>23,
             <1>24, <1>25, <1>26, <1>27, <1>28, <1>29, <1>30
       DEF Next, BaselineStep, LoopStep

(* An item is untouched until it is injected; the fuse keeps counts and     *)
(* statuses together.                                                       *)
LEMMA FreshStep ==
  Typed /\ Shape /\ Fresh /\ Assigned /\ Tested /\ [Next]_vars => Fresh'
  <1> SUFFICES ASSUME Typed, Shape, Fresh, Assigned, Tested, [Next]_vars PROVE Fresh'
    OBVIOUS
  <1> USE DEF vars, durable, baseVars, loopVars, Goto, ForgetBaseline, ForgetLoop, NextLoop,
              Fresh, Ledger, Live, Typed, DurableTyped, BaseTyped, LoopTyped, Reports,
              Attempting, Statuses
  <1>1. CASE Start
    BY <1>1 DEF Start
  <1>2. CASE BaselineNothing
    BY <1>2 DEF BaselineNothing, BaselineReturns
  <1>3. CASE BaselineMismatch
    BY <1>3 DEF BaselineMismatch, BaselineReturns
  <1>4. CASE BaselineBegins
    BY <1>4 DEF BaselineBegins
  <1>5. ASSUME NEW i \in Items, FixtureRejects(i) PROVE Fresh'
    BY <1>5 DEF FixtureRejects, Resolve
  <1>6. CASE FixturesRejectedAll
    BY <1>6 DEF FixturesRejectedAll, BaselineReturns
  <1>7. ASSUME NEW green \in Answers(best), BaselineValidates(green) PROVE Fresh'
    BY <1>7 DEF BaselineValidates
  <1>8. CASE BaselineCredits
    BY <1>8 DEF BaselineCredits, Satisfy, Shape, Testing
  <1>9. CASE BaselineRecords
    BY <1>9 DEF BaselineRecords, Shape, Tested, Synthesized
  <1>10. ASSUME NEW i \in Items, BaselineCompletes(i) PROVE Fresh'
    BY <1>10 DEF BaselineCompletes
  <1>11. CASE BaselineEnds
    BY <1>11 DEF BaselineEnds, BaselineReturns
  <1>12. ASSUME NEW P \in SUBSET Items, Plan(P) PROVE Fresh'
    BY <1>12 DEF Plan, Plannable
  <1>13. CASE PlanNothing
    BY <1>13 DEF PlanNothing
  <1>14. ASSUME NEW i \in Items, Blocker(i) PROVE Fresh'
    BY <1>14 DEF Blocker
  <1>15. ASSUME NEW i \in Items, WorkerProposes(i) PROVE Fresh'
    BY <1>15 DEF WorkerProposes
  <1>16. ASSUME NEW files \in SUBSET Items,
                NEW green \in Answers(files), Validate(files, green)
         PROVE  Fresh'
    BY <1>16 DEF Validate
  <1>17. ASSUME NEW b \in BOOLEAN, Commit(b) PROVE Fresh'
    BY <1>17 DEF Commit, Shape
  <1>18. ASSUME NEW torn \in BOOLEAN, NEW killed \in BOOLEAN, CommitFails(torn, killed)
         PROVE  Fresh'
    BY <1>18 DEF CommitFails
  <1>19. CASE Reject
    BY <1>19 DEF Reject
  <1>20. CASE Credit
    BY <1>20 DEF Credit, Satisfy, Shape
  <1>21. CASE Clash
    BY <1>21 DEF Clash, Resolve, Clashing
  <1>22. CASE NoClash
    BY <1>22 DEF NoClash
  <1>23. CASE Stagnate
    BY <1>23 DEF Stagnate, Counted
  <1>24. CASE AfterLoop
    BY <1>24 DEF AfterLoop
  <1>25. ASSUME NEW N \in SUBSET Syn, Synthesize(N) PROVE Fresh'
    BY <1>25 DEF Synthesize, Shape
  <1>26. CASE RoundsEnd
    BY <1>26 DEF RoundsEnd
  <1>27. CASE Crash
    BY <1>27 DEF Crash
  <1>28. CASE RunAgain
    BY <1>28 DEF RunAgain
  <1>29. ASSUME NEW i \in Items, Unblock(i) PROVE Fresh'
    BY <1>29 DEF Unblock
  <1>30. CASE UNCHANGED vars
    BY <1>30
  <1> QED BY <1>1, <1>2, <1>3, <1>4, <1>5, <1>6, <1>7, <1>8, <1>9, <1>10, <1>11, <1>12,
             <1>13, <1>14, <1>15, <1>16, <1>17, <1>18, <1>19, <1>20, <1>21, <1>22, <1>23,
             <1>24, <1>25, <1>26, <1>27, <1>28, <1>29, <1>30
       DEF Next, BaselineStep, LoopStep

(* A plan takes no pending item, and nothing resolves one before its credit. *)
LEMMA AssignedStep ==
  Typed /\ Shape /\ Fresh /\ Assigned /\ [Next]_vars => Assigned'
  <1> SUFFICES ASSUME Typed, Shape, Fresh, Assigned, [Next]_vars PROVE Assigned'
    OBVIOUS
  <1> USE DEF vars, durable, baseVars, loopVars, Goto, ForgetBaseline, ForgetLoop, NextLoop,
              Assigned, Shape, Attempting, Ledger, Live, Typed, DurableTyped, LoopTyped,
              BaseTyped, Reports, Statuses
  <1>1. CASE Start
    BY <1>1 DEF Start
  <1>2. CASE BaselineNothing
    BY <1>2 DEF BaselineNothing, BaselineReturns
  <1>3. CASE BaselineMismatch
    BY <1>3 DEF BaselineMismatch, BaselineReturns
  <1>4. CASE BaselineBegins
    BY <1>4 DEF BaselineBegins
  <1>5. ASSUME NEW i \in Items, FixtureRejects(i) PROVE Assigned'
    BY <1>5 DEF FixtureRejects, Resolve
  <1>6. CASE FixturesRejectedAll
    BY <1>6 DEF FixturesRejectedAll, BaselineReturns
  <1>7. ASSUME NEW green \in Answers(best), BaselineValidates(green) PROVE Assigned'
    BY <1>7 DEF BaselineValidates
  <1>8. CASE BaselineCredits
    BY <1>8 DEF BaselineCredits, Satisfy
  <1>9. CASE BaselineRecords
    BY <1>9 DEF BaselineRecords
  <1>10. ASSUME NEW i \in Items, BaselineCompletes(i) PROVE Assigned'
    BY <1>10 DEF BaselineCompletes
  <1>11. CASE BaselineEnds
    BY <1>11 DEF BaselineEnds, BaselineReturns
  <1>12. ASSUME NEW P \in SUBSET Items, Plan(P) PROVE Assigned'
    BY <1>12 DEF Plan, Plannable
  <1>13. CASE PlanNothing
    BY <1>13 DEF PlanNothing
  <1>14. ASSUME NEW i \in Items, Blocker(i) PROVE Assigned'
    BY <1>14 DEF Blocker
  <1>15. ASSUME NEW i \in Items, WorkerProposes(i) PROVE Assigned'
    BY <1>15 DEF WorkerProposes, Fresh
  <1>16. ASSUME NEW files \in SUBSET Items,
                NEW green \in Answers(files), Validate(files, green)
         PROVE  Assigned'
    BY <1>16 DEF Validate
  <1>17. ASSUME NEW b \in BOOLEAN, Commit(b) PROVE Assigned'
    BY <1>17 DEF Commit
  <1>18. ASSUME NEW torn \in BOOLEAN, NEW killed \in BOOLEAN, CommitFails(torn, killed)
         PROVE  Assigned'
    BY <1>18 DEF CommitFails
  <1>19. CASE Reject
    BY <1>19 DEF Reject
  <1>20. CASE Credit
    BY <1>20 DEF Credit, Satisfy
  <1>21. CASE Clash
    BY <1>21 DEF Clash, Resolve
  <1>22. CASE NoClash
    BY <1>22 DEF NoClash
  <1>23. CASE Stagnate
    BY <1>23 DEF Stagnate, Counted
  <1>24. CASE AfterLoop
    BY <1>24 DEF AfterLoop
  <1>25. ASSUME NEW N \in SUBSET Syn, Synthesize(N) PROVE Assigned'
    BY <1>25 DEF Synthesize, Testing
  <1>26. CASE RoundsEnd
    BY <1>26 DEF RoundsEnd
  <1>27. CASE Crash
    BY <1>27 DEF Crash
  <1>28. CASE RunAgain
    BY <1>28 DEF RunAgain
  <1>29. ASSUME NEW i \in Items, Unblock(i) PROVE Assigned'
    BY <1>29 DEF Unblock
  <1>30. CASE UNCHANGED vars
    BY <1>30
  <1> QED BY <1>1, <1>2, <1>3, <1>4, <1>5, <1>6, <1>7, <1>8, <1>9, <1>10, <1>11, <1>12,
             <1>13, <1>14, <1>15, <1>16, <1>17, <1>18, <1>19, <1>20, <1>21, <1>22, <1>23,
             <1>24, <1>25, <1>26, <1>27, <1>28, <1>29, <1>30
       DEF Next, BaselineStep, LoopStep

(* What a baseline tests stays pending until it is completed, and each of   *)
(* its writes finds what the one before it left.                            *)
LEMMA TestedStep ==
  Typed /\ Shape /\ Fresh /\ Tested /\ [Next]_vars => Tested'
  <1> SUFFICES ASSUME Typed, Shape, Fresh, Tested, [Next]_vars PROVE Tested'
    OBVIOUS
  <1> USE DEF vars, durable, baseVars, loopVars, Goto, ForgetBaseline, ForgetLoop, NextLoop,
              Tested, Shape, Testing, Ledger, Live, Typed, DurableTyped, LoopTyped,
              BaseTyped, Statuses, Pending, Synthesized
  <1>1. CASE Start
    BY <1>1 DEF Start
  <1>2. CASE BaselineNothing
    BY <1>2 DEF BaselineNothing, BaselineReturns
  <1>3. CASE BaselineMismatch
    BY <1>3 DEF BaselineMismatch, BaselineReturns
  <1>4. CASE BaselineBegins
    BY <1>4 DEF BaselineBegins
  <1>5. ASSUME NEW i \in Items, FixtureRejects(i) PROVE Tested'
    BY <1>5 DEF FixtureRejects, Resolve
  <1>6. CASE FixturesRejectedAll
    BY <1>6 DEF FixturesRejectedAll, BaselineReturns
  <1>7. ASSUME NEW green \in Answers(best), BaselineValidates(green) PROVE Tested'
    BY <1>7 DEF BaselineValidates
  <1>8. CASE BaselineCredits
    BY <1>8 DEF BaselineCredits, Satisfy
  <1>9. CASE BaselineRecords
    BY <1>9 DEF BaselineRecords
  <1>10. ASSUME NEW i \in Items, BaselineCompletes(i) PROVE Tested'
    BY <1>10 DEF BaselineCompletes
  <1>11. CASE BaselineEnds
    BY <1>11 DEF BaselineEnds, BaselineReturns
  <1>12. ASSUME NEW P \in SUBSET Items, Plan(P) PROVE Tested'
    BY <1>12 DEF Plan
  <1>13. CASE PlanNothing
    BY <1>13 DEF PlanNothing
  <1>14. ASSUME NEW i \in Items, Blocker(i) PROVE Tested'
    BY <1>14 DEF Blocker
  <1>15. ASSUME NEW i \in Items, WorkerProposes(i) PROVE Tested'
    BY <1>15 DEF WorkerProposes, Items
  <1>16. ASSUME NEW files \in SUBSET Items,
                NEW green \in Answers(files), Validate(files, green)
         PROVE  Tested'
    BY <1>16 DEF Validate
  <1>17. ASSUME NEW b \in BOOLEAN, Commit(b) PROVE Tested'
    BY <1>17 DEF Commit
  <1>18. ASSUME NEW torn \in BOOLEAN, NEW killed \in BOOLEAN, CommitFails(torn, killed)
         PROVE  Tested'
    BY <1>18 DEF CommitFails
  <1>19. CASE Reject
    BY <1>19 DEF Reject
  <1>20. CASE Credit
    BY <1>20 DEF Credit, Satisfy
  <1>21. CASE Clash
    BY <1>21 DEF Clash, Resolve
  <1>22. CASE NoClash
    BY <1>22 DEF NoClash
  <1>23. CASE Stagnate
    BY <1>23 DEF Stagnate, Counted
  <1>24. CASE AfterLoop
    BY <1>24 DEF AfterLoop
  <1>25. ASSUME NEW N \in SUBSET Syn, Synthesize(N) PROVE Tested'
    BY <1>25 DEF Synthesize, Items
  <1>26. CASE RoundsEnd
    BY <1>26 DEF RoundsEnd
  <1>27. CASE Crash
    BY <1>27 DEF Crash
  <1>28. CASE RunAgain
    BY <1>28 DEF RunAgain
  <1>29. ASSUME NEW i \in Items, Unblock(i) PROVE Tested'
    BY <1>29 DEF Unblock
  <1>30. CASE UNCHANGED vars
    BY <1>30
  <1> QED BY <1>1, <1>2, <1>3, <1>4, <1>5, <1>6, <1>7, <1>8, <1>9, <1>10, <1>11, <1>12,
             <1>13, <1>14, <1>15, <1>16, <1>17, <1>18, <1>19, <1>20, <1>21, <1>22, <1>23,
             <1>24, <1>25, <1>26, <1>27, <1>28, <1>29, <1>30
       DEF Next, BaselineStep, LoopStep
-----------------------------------------------------------------------------
(* What is inductive.                                                       *)
IInv == Typed /\ Shape /\ Fresh /\ Assigned /\ Tested

Quarantined ==
  \A i \in Items : status[i] = "closed" =>
    status'[i] = "closed" /\ (i \in accepted' => i \in accepted)

Injected ==
  \/ Synthesized' \subseteq Synthesized
  \/ \E N \in SUBSET Syn : Synthesize(N)

(* Credit without a guard: only while a baseline is between its writes.     *)
LEMMA GuardedStep ==
  IInv /\ CreditIsGuarded /\ [Next]_vars => CreditIsGuarded'
  <1> SUFFICES ASSUME IInv, CreditIsGuarded, [Next]_vars PROVE CreditIsGuarded'
    OBVIOUS
  <1> USE DEF vars, durable, baseVars, loopVars, Goto, ForgetBaseline, ForgetLoop, NextLoop,
              IInv, CreditIsGuarded, Typed, DurableTyped, LoopTyped, BaseTyped, Reports,
              Statuses, Ledger, Synthesized, Tested, Shape, Fresh, Assigned, Testing
  <1>1. CASE Start
    BY <1>1 DEF Start
  <1>2. CASE BaselineNothing
    BY <1>2 DEF BaselineNothing, BaselineReturns
  <1>3. CASE BaselineMismatch
    BY <1>3 DEF BaselineMismatch, BaselineReturns
  <1>4. CASE BaselineBegins
    BY <1>4 DEF BaselineBegins
  <1>5. ASSUME NEW i \in Items, FixtureRejects(i) PROVE CreditIsGuarded'
    BY <1>5 DEF FixtureRejects, Resolve
  <1>6. CASE FixturesRejectedAll
    BY <1>6 DEF FixturesRejectedAll, BaselineReturns
  <1>7. ASSUME NEW green \in Answers(best), BaselineValidates(green) PROVE CreditIsGuarded'
    BY <1>7 DEF BaselineValidates
  <1>8. CASE BaselineCredits
    BY <1>8 DEF BaselineCredits, Satisfy
  <1>9. CASE BaselineRecords
    BY <1>9 DEF BaselineRecords
  <1>10. ASSUME NEW i \in Items, BaselineCompletes(i) PROVE CreditIsGuarded'
    BY <1>10 DEF BaselineCompletes
  <1>11. CASE BaselineEnds
    BY <1>11 DEF BaselineEnds, BaselineReturns
  <1>12. ASSUME NEW P \in SUBSET Items, Plan(P) PROVE CreditIsGuarded'
    BY <1>12 DEF Plan
  <1>13. CASE PlanNothing
    BY <1>13 DEF PlanNothing
  <1>14. ASSUME NEW i \in Items, Blocker(i) PROVE CreditIsGuarded'
    BY <1>14 DEF Blocker
  <1>15. ASSUME NEW i \in Items, WorkerProposes(i) PROVE CreditIsGuarded'
    BY <1>15 DEF WorkerProposes, Items, Fresh
  <1>16. ASSUME NEW files \in SUBSET Items,
                NEW green \in Answers(files), Validate(files, green)
         PROVE  CreditIsGuarded'
    BY <1>16 DEF Validate
  <1>17. ASSUME NEW b \in BOOLEAN, Commit(b) PROVE CreditIsGuarded'
    BY <1>17 DEF Commit
  <1>18. ASSUME NEW torn \in BOOLEAN, NEW killed \in BOOLEAN, CommitFails(torn, killed)
         PROVE  CreditIsGuarded'
    BY <1>18 DEF CommitFails
  <1>19. CASE Reject
    BY <1>19 DEF Reject
  <1>20. CASE Credit
    BY <1>20 DEF Credit, Satisfy
  <1>21. CASE Clash
    BY <1>21 DEF Clash, Resolve
  <1>22. CASE NoClash
    BY <1>22 DEF NoClash
  <1>23. CASE Stagnate
    BY <1>23 DEF Stagnate, Counted
  <1>24. CASE AfterLoop
    BY <1>24 DEF AfterLoop
  <1>25. ASSUME NEW N \in SUBSET Syn, Synthesize(N) PROVE CreditIsGuarded'
    BY <1>25 DEF Synthesize, Items, Fresh
  <1>26. CASE RoundsEnd
    BY <1>26 DEF RoundsEnd
  <1>27. CASE Crash
    BY <1>27 DEF Crash
  <1>28. CASE RunAgain
    BY <1>28 DEF RunAgain
  <1>29. ASSUME NEW i \in Items, Unblock(i) PROVE CreditIsGuarded'
    BY <1>29 DEF Unblock
  <1>30. CASE UNCHANGED vars
    BY <1>30
  <1> QED BY <1>1, <1>2, <1>3, <1>4, <1>5, <1>6, <1>7, <1>8, <1>9, <1>10, <1>11, <1>12,
             <1>13, <1>14, <1>15, <1>16, <1>17, <1>18, <1>19, <1>20, <1>21, <1>22, <1>23,
             <1>24, <1>25, <1>26, <1>27, <1>28, <1>29, <1>30
       DEF Next, BaselineStep, LoopStep

(* A guard without credit: only between a commit and its credit.            *)
LEMMA CreditedStep ==
  IInv /\ GuardIsCredited /\ [Next]_vars => GuardIsCredited'
  <1> SUFFICES ASSUME IInv, GuardIsCredited, [Next]_vars PROVE GuardIsCredited'
    OBVIOUS
  <1> USE DEF vars, durable, baseVars, loopVars, Goto, ForgetBaseline, ForgetLoop, NextLoop,
              IInv, GuardIsCredited, Typed, DurableTyped, LoopTyped, BaseTyped, Reports,
              Statuses, Tested, Shape, Assigned, Testing, Ledger, Synthesized
  <1>1. CASE Start
    BY <1>1 DEF Start
  <1>2. CASE BaselineNothing
    BY <1>2 DEF BaselineNothing, BaselineReturns
  <1>3. CASE BaselineMismatch
    BY <1>3 DEF BaselineMismatch, BaselineReturns
  <1>4. CASE BaselineBegins
    BY <1>4 DEF BaselineBegins
  <1>5. ASSUME NEW i \in Items, FixtureRejects(i) PROVE GuardIsCredited'
    BY <1>5 DEF FixtureRejects, Resolve
  <1>6. CASE FixturesRejectedAll
    BY <1>6 DEF FixturesRejectedAll, BaselineReturns
  <1>7. ASSUME NEW green \in Answers(best), BaselineValidates(green) PROVE GuardIsCredited'
    BY <1>7 DEF BaselineValidates
  <1>8. CASE BaselineCredits
    BY <1>8 DEF BaselineCredits, Satisfy
  <1>9. CASE BaselineRecords
    BY <1>9 DEF BaselineRecords
  <1>10. ASSUME NEW i \in Items, BaselineCompletes(i) PROVE GuardIsCredited'
    BY <1>10 DEF BaselineCompletes
  <1>11. CASE BaselineEnds
    BY <1>11 DEF BaselineEnds, BaselineReturns
  <1>12. ASSUME NEW P \in SUBSET Items, Plan(P) PROVE GuardIsCredited'
    BY <1>12 DEF Plan
  <1>13. CASE PlanNothing
    BY <1>13 DEF PlanNothing
  <1>14. ASSUME NEW i \in Items, Blocker(i) PROVE GuardIsCredited'
    BY <1>14 DEF Blocker
  <1>15. ASSUME NEW i \in Items, WorkerProposes(i) PROVE GuardIsCredited'
    BY <1>15 DEF WorkerProposes, Items
  <1>16. ASSUME NEW files \in SUBSET Items,
                NEW green \in Answers(files), Validate(files, green)
         PROVE  GuardIsCredited'
    BY <1>16 DEF Validate
  <1>17. ASSUME NEW b \in BOOLEAN, Commit(b) PROVE GuardIsCredited'
    BY <1>17 DEF Commit
  <1>18. ASSUME NEW torn \in BOOLEAN, NEW killed \in BOOLEAN, CommitFails(torn, killed)
         PROVE  GuardIsCredited'
    BY <1>18 DEF CommitFails
  <1>19. CASE Reject
    BY <1>19 DEF Reject
  <1>20. CASE Credit
    BY <1>20 DEF Credit, Satisfy
  <1>21. CASE Clash
    BY <1>21 DEF Clash, Resolve, Clashing
  <1>22. CASE NoClash
    BY <1>22 DEF NoClash
  <1>23. CASE Stagnate
    BY <1>23 DEF Stagnate, Counted
  <1>24. CASE AfterLoop
    BY <1>24 DEF AfterLoop
  <1>25. ASSUME NEW N \in SUBSET Syn, Synthesize(N) PROVE GuardIsCredited'
    BY <1>25 DEF Synthesize, Items
  <1>26. CASE RoundsEnd
    BY <1>26 DEF RoundsEnd, Baseline
  <1>27. CASE Crash
    BY <1>27 DEF Crash
  <1>28. CASE RunAgain
    BY <1>28 DEF RunAgain
  <1>29. ASSUME NEW i \in Items, Unblock(i) PROVE GuardIsCredited'
    BY <1>29 DEF Unblock
  <1>30. CASE UNCHANGED vars
    BY <1>30
  <1> QED BY <1>1, <1>2, <1>3, <1>4, <1>5, <1>6, <1>7, <1>8, <1>9, <1>10, <1>11, <1>12,
             <1>13, <1>14, <1>15, <1>16, <1>17, <1>18, <1>19, <1>20, <1>21, <1>22, <1>23,
             <1>24, <1>25, <1>26, <1>27, <1>28, <1>29, <1>30
       DEF Next, BaselineStep, LoopStep

(* What is pending is not planned, hence not counted and not accepted.      *)
LEMMA UntestedStep ==
  IInv /\ UntestedUntilBaseline /\ [Next]_vars => UntestedUntilBaseline'
  <1> SUFFICES ASSUME IInv, UntestedUntilBaseline, [Next]_vars PROVE UntestedUntilBaseline'
    OBVIOUS
  <1> USE DEF vars, durable, baseVars, loopVars, Goto, ForgetBaseline, ForgetLoop, NextLoop,
              IInv, UntestedUntilBaseline, Typed, DurableTyped, LoopTyped, BaseTyped,
              Reports, Statuses, Tested, Shape, Assigned, Testing
  <1>1. CASE Start
    BY <1>1 DEF Start
  <1>2. CASE BaselineNothing
    BY <1>2 DEF BaselineNothing, BaselineReturns
  <1>3. CASE BaselineMismatch
    BY <1>3 DEF BaselineMismatch, BaselineReturns
  <1>4. CASE BaselineBegins
    BY <1>4 DEF BaselineBegins
  <1>5. ASSUME NEW i \in Items, FixtureRejects(i) PROVE UntestedUntilBaseline'
    BY <1>5 DEF FixtureRejects, Resolve
  <1>6. CASE FixturesRejectedAll
    BY <1>6 DEF FixturesRejectedAll, BaselineReturns
  <1>7. ASSUME NEW green \in Answers(best), BaselineValidates(green)
        PROVE  UntestedUntilBaseline'
    BY <1>7 DEF BaselineValidates
  <1>8. CASE BaselineCredits
    BY <1>8 DEF BaselineCredits, Satisfy
  <1>9. CASE BaselineRecords
    BY <1>9 DEF BaselineRecords
  <1>10. ASSUME NEW i \in Items, BaselineCompletes(i) PROVE UntestedUntilBaseline'
    BY <1>10 DEF BaselineCompletes
  <1>11. CASE BaselineEnds
    BY <1>11 DEF BaselineEnds, BaselineReturns
  <1>12. ASSUME NEW P \in SUBSET Items, Plan(P) PROVE UntestedUntilBaseline'
    BY <1>12 DEF Plan, Plannable, Ledger, Live
  <1>13. CASE PlanNothing
    BY <1>13 DEF PlanNothing
  <1>14. ASSUME NEW i \in Items, Blocker(i) PROVE UntestedUntilBaseline'
    BY <1>14 DEF Blocker
  <1>15. ASSUME NEW i \in Items, WorkerProposes(i) PROVE UntestedUntilBaseline'
    BY <1>15 DEF WorkerProposes, Items
  <1>16. ASSUME NEW files \in SUBSET Items,
                NEW green \in Answers(files), Validate(files, green)
         PROVE  UntestedUntilBaseline'
    BY <1>16 DEF Validate
  <1>17. ASSUME NEW b \in BOOLEAN, Commit(b) PROVE UntestedUntilBaseline'
    BY <1>17 DEF Commit
  <1>18. ASSUME NEW torn \in BOOLEAN, NEW killed \in BOOLEAN, CommitFails(torn, killed)
         PROVE  UntestedUntilBaseline'
    BY <1>18 DEF CommitFails
  <1>19. CASE Reject
    BY <1>19 DEF Reject
  <1>20. CASE Credit
    BY <1>20 DEF Credit, Satisfy
  <1>21. CASE Clash
    BY <1>21 DEF Clash, Resolve
  <1>22. CASE NoClash
    BY <1>22 DEF NoClash
  <1>23. CASE Stagnate
    BY <1>23 DEF Stagnate, Counted
  <1>24. CASE AfterLoop
    BY <1>24 DEF AfterLoop
  <1>25. ASSUME NEW N \in SUBSET Syn, Synthesize(N) PROVE UntestedUntilBaseline'
    BY <1>25 DEF Synthesize, Items, Fresh, Ledger
  <1>26. CASE RoundsEnd
    BY <1>26 DEF RoundsEnd
  <1>27. CASE Crash
    BY <1>27 DEF Crash
  <1>28. CASE RunAgain
    BY <1>28 DEF RunAgain
  <1>29. ASSUME NEW i \in Items, Unblock(i) PROVE UntestedUntilBaseline'
    BY <1>29 DEF Unblock
  <1>30. CASE UNCHANGED vars
    BY <1>30
  <1> QED BY <1>1, <1>2, <1>3, <1>4, <1>5, <1>6, <1>7, <1>8, <1>9, <1>10, <1>11, <1>12,
             <1>13, <1>14, <1>15, <1>16, <1>17, <1>18, <1>19, <1>20, <1>21, <1>22, <1>23,
             <1>24, <1>25, <1>26, <1>27, <1>28, <1>29, <1>30
       DEF Next, BaselineStep, LoopStep

(* A baseline at the start of a step tests everything that is pending.      *)
LEMMA PlanStep ==
  IInv /\ NothingPendingAtPlan /\ [Next]_vars => NothingPendingAtPlan'
  <1> SUFFICES ASSUME IInv, NothingPendingAtPlan, [Next]_vars PROVE NothingPendingAtPlan'
    OBVIOUS
  <1> USE DEF vars, durable, baseVars, loopVars, Goto, ForgetBaseline, ForgetLoop, NextLoop,
              IInv, NothingPendingAtPlan, Tested, Testing, Pending, Synthesized, Ledger,
              Live
  <1>1. CASE Start
    BY <1>1 DEF Start
  <1>2. CASE BaselineNothing
    BY <1>2 DEF BaselineNothing, BaselineReturns
  <1>3. CASE BaselineMismatch
    BY <1>3 DEF BaselineMismatch, BaselineReturns, Matches
  <1>4. CASE BaselineBegins
    BY <1>4 DEF BaselineBegins
  <1>5. ASSUME NEW i \in Items, FixtureRejects(i) PROVE NothingPendingAtPlan'
    BY <1>5 DEF FixtureRejects
  <1>6. CASE FixturesRejectedAll
    BY <1>6 DEF FixturesRejectedAll, BaselineReturns
  <1>7. ASSUME NEW green \in Answers(best), BaselineValidates(green)
        PROVE  NothingPendingAtPlan'
    BY <1>7 DEF BaselineValidates
  <1>8. CASE BaselineCredits
    BY <1>8 DEF BaselineCredits
  <1>9. CASE BaselineRecords
    BY <1>9 DEF BaselineRecords
  <1>10. ASSUME NEW i \in Items, BaselineCompletes(i) PROVE NothingPendingAtPlan'
    BY <1>10 DEF BaselineCompletes
  <1>11. CASE BaselineEnds
    BY <1>11 DEF BaselineEnds, BaselineReturns
  <1>12. ASSUME NEW P \in SUBSET Items, Plan(P) PROVE NothingPendingAtPlan'
    BY <1>12 DEF Plan
  <1>13. CASE PlanNothing
    BY <1>13 DEF PlanNothing
  <1>14. ASSUME NEW i \in Items, Blocker(i) PROVE NothingPendingAtPlan'
    BY <1>14 DEF Blocker
  <1>15. ASSUME NEW i \in Items, WorkerProposes(i) PROVE NothingPendingAtPlan'
    BY <1>15 DEF WorkerProposes
  <1>16. ASSUME NEW files \in SUBSET Items,
                NEW green \in Answers(files), Validate(files, green)
         PROVE  NothingPendingAtPlan'
    BY <1>16 DEF Validate
  <1>17. ASSUME NEW b \in BOOLEAN, Commit(b) PROVE NothingPendingAtPlan'
    BY <1>17 DEF Commit
  <1>18. ASSUME NEW torn \in BOOLEAN, NEW killed \in BOOLEAN, CommitFails(torn, killed)
         PROVE  NothingPendingAtPlan'
    BY <1>18 DEF CommitFails
  <1>19. CASE Reject
    BY <1>19 DEF Reject
  <1>20. CASE Credit
    BY <1>20 DEF Credit
  <1>21. CASE Clash
    BY <1>21 DEF Clash
  <1>22. CASE NoClash
    BY <1>22 DEF NoClash
  <1>23. CASE Stagnate
    BY <1>23 DEF Stagnate
  <1>24. CASE AfterLoop
    BY <1>24 DEF AfterLoop
  <1>25. ASSUME NEW N \in SUBSET Syn, Synthesize(N) PROVE NothingPendingAtPlan'
    BY <1>25 DEF Synthesize, Items
  <1>26. CASE RoundsEnd
    BY <1>26 DEF RoundsEnd
  <1>27. CASE Crash
    BY <1>27 DEF Crash
  <1>28. CASE RunAgain
    BY <1>28 DEF RunAgain
  <1>29. ASSUME NEW i \in Items, Unblock(i) PROVE NothingPendingAtPlan'
    BY <1>29 DEF Unblock
  <1>30. CASE UNCHANGED vars
    BY <1>30
  <1> QED BY <1>1, <1>2, <1>3, <1>4, <1>5, <1>6, <1>7, <1>8, <1>9, <1>10, <1>11, <1>12,
             <1>13, <1>14, <1>15, <1>16, <1>17, <1>18, <1>19, <1>20, <1>21, <1>22, <1>23,
             <1>24, <1>25, <1>26, <1>27, <1>28, <1>29, <1>30
       DEF Next, BaselineStep, LoopStep

(* A closed item is neither assigned nor under test.                        *)
LEMMA QuarantineStep ==
  IInv /\ [Next]_vars => Quarantined
  <1> SUFFICES ASSUME IInv, [Next]_vars PROVE Quarantined
    OBVIOUS
  <1> USE DEF vars, durable, baseVars, loopVars, Goto, ForgetBaseline, ForgetLoop, NextLoop,
              IInv, Quarantined, Typed, DurableTyped, LoopTyped, BaseTyped, Reports,
              Statuses, Tested, Shape, Assigned
  <1>1. CASE Start
    BY <1>1 DEF Start
  <1>2. CASE BaselineNothing
    BY <1>2 DEF BaselineNothing, BaselineReturns
  <1>3. CASE BaselineMismatch
    BY <1>3 DEF BaselineMismatch, BaselineReturns
  <1>4. CASE BaselineBegins
    BY <1>4 DEF BaselineBegins
  <1>5. ASSUME NEW i \in Items, FixtureRejects(i) PROVE Quarantined
    BY <1>5 DEF FixtureRejects, Resolve
  <1>6. CASE FixturesRejectedAll
    BY <1>6 DEF FixturesRejectedAll, BaselineReturns
  <1>7. ASSUME NEW green \in Answers(best), BaselineValidates(green) PROVE Quarantined
    BY <1>7 DEF BaselineValidates
  <1>8. CASE BaselineCredits
    BY <1>8 DEF BaselineCredits, Satisfy
  <1>9. CASE BaselineRecords
    BY <1>9 DEF BaselineRecords
  <1>10. ASSUME NEW i \in Items, BaselineCompletes(i) PROVE Quarantined
    BY <1>10 DEF BaselineCompletes
  <1>11. CASE BaselineEnds
    BY <1>11 DEF BaselineEnds, BaselineReturns
  <1>12. ASSUME NEW P \in SUBSET Items, Plan(P) PROVE Quarantined
    BY <1>12 DEF Plan
  <1>13. CASE PlanNothing
    BY <1>13 DEF PlanNothing
  <1>14. ASSUME NEW i \in Items, Blocker(i) PROVE Quarantined
    BY <1>14 DEF Blocker
  <1>15. ASSUME NEW i \in Items, WorkerProposes(i) PROVE Quarantined
    BY <1>15 DEF WorkerProposes
  <1>16. ASSUME NEW files \in SUBSET Items,
                NEW green \in Answers(files), Validate(files, green)
         PROVE  Quarantined
    BY <1>16 DEF Validate
  <1>17. ASSUME NEW b \in BOOLEAN, Commit(b) PROVE Quarantined
    BY <1>17 DEF Commit
  <1>18. ASSUME NEW torn \in BOOLEAN, NEW killed \in BOOLEAN, CommitFails(torn, killed)
         PROVE  Quarantined
    BY <1>18 DEF CommitFails
  <1>19. CASE Reject
    BY <1>19 DEF Reject
  <1>20. CASE Credit
    BY <1>20 DEF Credit, Satisfy
  <1>21. CASE Clash
    BY <1>21 DEF Clash, Resolve
  <1>22. CASE NoClash
    BY <1>22 DEF NoClash
  <1>23. CASE Stagnate
    BY <1>23 DEF Stagnate, Counted
  <1>24. CASE AfterLoop
    BY <1>24 DEF AfterLoop
  <1>25. ASSUME NEW N \in SUBSET Syn, Synthesize(N) PROVE Quarantined
    BY <1>25 DEF Synthesize, Items, Ledger
  <1>26. CASE RoundsEnd
    BY <1>26 DEF RoundsEnd
  <1>27. CASE Crash
    BY <1>27 DEF Crash
  <1>28. CASE RunAgain
    BY <1>28 DEF RunAgain
  <1>29. ASSUME NEW i \in Items, Unblock(i) PROVE Quarantined
    BY <1>29 DEF Unblock
  <1>30. CASE UNCHANGED vars
    BY <1>30
  <1> QED BY <1>1, <1>2, <1>3, <1>4, <1>5, <1>6, <1>7, <1>8, <1>9, <1>10, <1>11, <1>12,
             <1>13, <1>14, <1>15, <1>16, <1>17, <1>18, <1>19, <1>20, <1>21, <1>22, <1>23,
             <1>24, <1>25, <1>26, <1>27, <1>28, <1>29, <1>30
       DEF Next, BaselineStep, LoopStep

(* Only the synthesizer injects synthesized items.                          *)
LEMMA InjectStep ==
  IInv /\ [Next]_vars => Injected
  <1> SUFFICES ASSUME IInv, [Next]_vars PROVE Injected
    OBVIOUS
  <1> USE DEF vars, durable, baseVars, loopVars, Goto, ForgetBaseline, ForgetLoop, NextLoop,
              IInv, Injected, Typed, DurableTyped, LoopTyped, BaseTyped, Reports, Statuses,
              Synthesized, Ledger
  <1>1. CASE Start
    BY <1>1 DEF Start
  <1>2. CASE BaselineNothing
    BY <1>2 DEF BaselineNothing, BaselineReturns
  <1>3. CASE BaselineMismatch
    BY <1>3 DEF BaselineMismatch, BaselineReturns
  <1>4. CASE BaselineBegins
    BY <1>4 DEF BaselineBegins
  <1>5. ASSUME NEW i \in Items, FixtureRejects(i) PROVE Injected
    BY <1>5 DEF FixtureRejects, Resolve, Tested
  <1>6. CASE FixturesRejectedAll
    BY <1>6 DEF FixturesRejectedAll, BaselineReturns
  <1>7. ASSUME NEW green \in Answers(best), BaselineValidates(green) PROVE Injected
    BY <1>7 DEF BaselineValidates
  <1>8. CASE BaselineCredits
    BY <1>8 DEF BaselineCredits, Satisfy, Tested, Shape
  <1>9. CASE BaselineRecords
    BY <1>9 DEF BaselineRecords
  <1>10. ASSUME NEW i \in Items, BaselineCompletes(i) PROVE Injected
    BY <1>10 DEF BaselineCompletes
  <1>11. CASE BaselineEnds
    BY <1>11 DEF BaselineEnds, BaselineReturns
  <1>12. ASSUME NEW P \in SUBSET Items, Plan(P) PROVE Injected
    BY <1>12 DEF Plan
  <1>13. CASE PlanNothing
    BY <1>13 DEF PlanNothing
  <1>14. ASSUME NEW i \in Items, Blocker(i) PROVE Injected
    BY <1>14 DEF Blocker
  <1>15. ASSUME NEW i \in Items, WorkerProposes(i) PROVE Injected
    BY <1>15 DEF WorkerProposes
  <1>16. ASSUME NEW files \in SUBSET Items,
                NEW green \in Answers(files), Validate(files, green)
         PROVE  Injected
    BY <1>16 DEF Validate
  <1>17. ASSUME NEW b \in BOOLEAN, Commit(b) PROVE Injected
    BY <1>17 DEF Commit
  <1>18. ASSUME NEW torn \in BOOLEAN, NEW killed \in BOOLEAN, CommitFails(torn, killed)
         PROVE  Injected
    BY <1>18 DEF CommitFails
  <1>19. CASE Reject
    BY <1>19 DEF Reject
  <1>20. CASE Credit
    BY <1>20 DEF Credit, Satisfy, Shape, Fresh
  <1>21. CASE Clash
    BY <1>21 DEF Clash, Resolve, Clashing
  <1>22. CASE NoClash
    BY <1>22 DEF NoClash
  <1>23. CASE Stagnate
    BY <1>23 DEF Stagnate, Counted, Fresh, Attempting
  <1>24. CASE AfterLoop
    BY <1>24 DEF AfterLoop
  <1>25. ASSUME NEW N \in SUBSET Syn, Synthesize(N) PROVE Injected
    BY <1>25 DEF Synthesize
  <1>26. CASE RoundsEnd
    BY <1>26 DEF RoundsEnd
  <1>27. CASE Crash
    BY <1>27 DEF Crash
  <1>28. CASE RunAgain
    BY <1>28 DEF RunAgain
  <1>29. ASSUME NEW i \in Items, Unblock(i) PROVE Injected
    BY <1>29 DEF Unblock
  <1>30. CASE UNCHANGED vars
    BY <1>30
  <1> QED BY <1>1, <1>2, <1>3, <1>4, <1>5, <1>6, <1>7, <1>8, <1>9, <1>10, <1>11, <1>12,
             <1>13, <1>14, <1>15, <1>16, <1>17, <1>18, <1>19, <1>20, <1>21, <1>22, <1>23,
             <1>24, <1>25, <1>26, <1>27, <1>28, <1>29, <1>30
       DEF Next, BaselineStep, LoopStep

(* The fewest of three is none of them exceeded.                            *)
LEMMA LeastOfThree ==
  ASSUME NEW a \in Nat, NEW b \in Nat, NEW c \in Nat
  PROVE  /\ Least({a, b, c}) \in Nat
         /\ Least({a, b, c}) <= a /\ Least({a, b, c}) <= b /\ Least({a, b, c}) <= c
  <1> DEFINE S == {a, b, c}
  <1>1. \E m \in S : \A n \in S : m <= n
    <2>1. CASE a <= b /\ a <= c
      BY <2>1
    <2>2. CASE b <= a /\ b <= c
      BY <2>2
    <2>3. CASE c <= a /\ c <= b
      BY <2>3
    <2> QED BY <2>1, <2>2, <2>3
  <1>2. Least(S) \in S /\ \A n \in S : Least(S) <= n
    BY <1>1 DEF Least
  <1> QED BY <1>2

(* Sets of items can be counted.                                            *)
LEMMA FiniteItems ==
  ASSUME NEW S, S \subseteq Items
  PROVE  IsFiniteSet(S) /\ Cardinality(S) \in Nat
  BY FS_Subset, FS_CardinalityType DEF Items

(* An injection is never larger than what the cap leaves; a synthesized     *)
(* item stays one, so the cap is used up for good.                          *)
LEMMA CapStep == IInv /\ LifetimeCap /\ [Next]_vars => LifetimeCap'
  <1> SUFFICES ASSUME IInv, LifetimeCap, [Next]_vars  PROVE LifetimeCap'
    OBVIOUS
  <1>1. Synthesized \subseteq Items /\ Created \subseteq Items /\ Synthesized \subseteq Created
    BY DEF Synthesized, Created, Ledger
  <1>2. CASE Synthesized' \subseteq Synthesized
    <2>1. Cardinality(Synthesized') <= Cardinality(Synthesized)
      BY <1>1, <1>2, FiniteItems, FS_Subset
    <2>2. Cardinality(Synthesized') \in Nat /\ Cardinality(Synthesized) \in Nat
      BY <1>1, <1>2, FiniteItems
    <2> QED BY <2>1, <2>2 DEF LifetimeCap
  <1>3. ASSUME NEW N \in SUBSET Syn, Synthesize(N)  PROVE LifetimeCap'
    <2>1. Synthesized' \subseteq Created \cup N
      BY <1>3 DEF Synthesize, Synthesized, Created, Ledger, Items
    <2>2. Created \cup N \subseteq Items
      BY <1>1 DEF Items
    <2>3. /\ IsFiniteSet(Created) /\ IsFiniteSet(N)
          /\ Cardinality(Created) \in Nat /\ Cardinality(N) \in Nat
      BY <1>1, <2>2, FiniteItems
    <2>4. Cardinality(Created \cup N) <= Cardinality(Created) + Cardinality(N)
      <3>1. Cardinality(Created \cup N)
              = Cardinality(Created) + Cardinality(N) - Cardinality(Created \cap N)
        BY <2>3, FS_Union
      <3>2. Cardinality(Created \cap N) \in Nat
        BY <1>1, FiniteItems
      <3> QED BY <2>3, <3>1, <3>2
    <2>5. Cardinality(N) # 0
      BY <1>3, <2>3, FS_EmptySet DEF Synthesize
    <2>6. Cardinality(N) <= Left(MaxTotal, Created)
      <3>1. Left(MaxTotal, Created) \in Nat
        BY <2>3 DEF Left
      <3>2. Left(MaxActive, Occupying) \in Nat
        <4>1. Cardinality(Occupying) \in Nat
          BY FiniteItems DEF Occupying, Synthesized, Ledger
        <4> QED BY <4>1 DEF Left
      <3>3. Room \in Nat /\ Room <= Left(MaxTotal, Created)
        BY <3>1, <3>2, LeastOfThree DEF Room
      <3> QED BY <1>3, <2>3, <3>1, <3>3 DEF Synthesize
    <2>7. Cardinality(Created) + Cardinality(N) <= MaxTotal
      BY <2>3, <2>5, <2>6 DEF Left
    <2>8. Cardinality(Synthesized') <= Cardinality(Created \cup N)
      BY <2>1, <2>2, FiniteItems, FS_Subset
    <2>9. Cardinality(Synthesized') \in Nat /\ Cardinality(Created \cup N) \in Nat
      BY <2>1, <2>2, FiniteItems
    <2> QED BY <2>3, <2>4, <2>7, <2>8, <2>9 DEF LifetimeCap
  <1> QED BY <1>2, <1>3, InjectStep DEF Injected

-----------------------------------------------------------------------------

(* A task starts with untouched items, the planned ones pending.            *)
LEMMA InitIInv == Init => IInv
  <1> SUFFICES ASSUME Init  PROVE IInv
    OBVIOUS
  <1>1. Typed
    <2>1. DurableTyped
      <3>1. status \in [Items -> Statuses] /\ pending \subseteq Items
        BY DEF Init, Items, Statuses
      <3>2. fails \in [Items -> 0..MaxItemFailures] /\ loops \in 0..MaxLoops
        BY DEF Init
      <3> QED BY <3>1, <3>2 DEF Init, DurableTyped
    <2>2. BaseTyped
      BY Rounds DEF Init, BaseTyped
    <2>3. LoopTyped
      BY DEF Init, LoopTyped, NoReport, Reports
    <2>4. PlaceTyped
      BY DEF Init, PlaceTyped
    <2> QED BY <2>1, <2>2, <2>3, <2>4 DEF Typed
  <1>2. Shape
    BY DEF Init, Shape, NoReport
  <1>3. Fresh
    BY DEF Init, Fresh, Ledger, Live, Attempting, Items
  <1>4. Assigned
    BY DEF Init, Assigned
  <1>5. Tested
    BY DEF Init, Tested, Testing
  <1> QED BY <1>1, <1>2, <1>3, <1>4, <1>5 DEF IInv

(* The plan-time batch respects the cap.                                    *)
LEMMA InitCap == Init => LifetimeCap
  <1> SUFFICES ASSUME Init  PROVE LifetimeCap
    OBVIOUS
  <1>1. PICK planned \in SUBSET Syn :
           /\ Cardinality(planned) <= Least({Batch, MaxTotal, MaxActive})
           /\ status = [i \in Items |-> IF i \in Core \cup planned THEN "open" ELSE "absent"]
    BY DEF Init
  <1>2. Synthesized = planned
    BY <1>1, ItemsAssumption DEF Init, Synthesized, Ledger, Items
  <1>3. Cardinality(planned) \in Nat
    BY FiniteItems DEF Items
  <1> QED BY <1>1, <1>2, <1>3, LeastOfThree, LimitsAssumption DEF LifetimeCap

(* The inductive invariant.                                                 *)
LEMMA Invariance == Spec => []IInv
  <1>1. IInv /\ [Next]_vars => IInv'
    BY TypeStep, ShapeStep, FreshStep, AssignedStep, TestedStep DEF IInv
  <1> QED BY InitIInv, <1>1, PTL DEF Spec

-----------------------------------------------------------------------------
(* Every variable keeps its type.                                           *)
THEOREM TypeCorrect == Spec => []TypeOK
  <1>1. IInv => TypeOK
    BY Parts DEF IInv
  <1> QED BY <1>1, Invariance, PTL

(* Who has no gap left is guarded by an accepted check, was closed, or is   *)
(* still in the hands of its baseline (CreditIsGuarded).                    *)
THEOREM CreditMeansGuard == Spec => []CreditIsGuarded
  <1>1. Init => CreditIsGuarded
    BY DEF Init, CreditIsGuarded, Ledger
  <1> QED BY <1>1, Invariance, GuardedStep, PTL DEF Spec

(* Who is accepted is credited, unless a kill came in between               *)
(* (GuardIsCredited).                                                       *)
THEOREM GuardMeansCredit == Spec => []GuardIsCredited
  <1>1. Init => GuardIsCredited
    BY DEF Init, GuardIsCredited
  <1> QED BY <1>1, Invariance, CreditedStep, PTL DEF Spec

(* No worker loop is spent on an item before its baseline is over           *)
(* (UntestedUntilBaseline).                                                 *)
THEOREM BaselineComesFirst == Spec => []UntestedUntilBaseline
  <1>1. Init => UntestedUntilBaseline
    BY DEF Init, UntestedUntilBaseline, Items
  <1> QED BY <1>1, Invariance, UntestedStep, PTL DEF Spec

(* A plan is made with no baseline left to do (NothingPendingAtPlan).       *)
THEOREM BaselineIsDoneAtPlan == Spec => []NothingPendingAtPlan
  <1>1. Init => NothingPendingAtPlan
    BY DEF Init, NothingPendingAtPlan
  <1> QED BY <1>1, Invariance, PlanStep, PTL DEF Spec

(* The lifetime cap holds over rounds, loops, kills and resumes             *)
(* (LifetimeCap).                                                           *)
THEOREM CapHolds == Spec => []LifetimeCap
  <1>1. Init => LifetimeCap
    BY InitCap
  <1> QED BY <1>1, Invariance, CapStep, PTL DEF Spec

(* Nothing reopens or accepts a check that was closed (QuarantineIsFinal).  *)
THEOREM ClosedStaysClosed == Spec => QuarantineIsFinal
  <1>1. IInv /\ [Next]_vars => [Quarantined]_vars
    BY QuarantineStep
  <1> QED BY <1>1, Invariance, PTL DEF Spec, QuarantineIsFinal, Quarantined

=============================================================================
