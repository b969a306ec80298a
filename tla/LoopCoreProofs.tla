--------------------------- MODULE LoopCoreProofs ---------------------------
(***************************************************************************)
(* Proofs about LoopCore, for every value of its constants.                *)
(***************************************************************************)
EXTENDS LoopCore, FiniteSetTheorems, TLAPS

USE ItemsAssumption, ChecksAssumption, ItemOfAssumption, ModeAssumption,
    ContinuationAssumption, SeededAssumption, RankAssumption, FlakyAssumption,
    BoundsAssumption

(* Sets of checks are finite, so counting them gives a number. *)
LEMMA CountsAreNaturals ==
  ASSUME NEW S \in SUBSET Checks
  PROVE  Cardinality(S) \in Nat
  BY FS_Subset, FS_CardinalityType

LEMMA TotalsAreNaturals == \A i : Total(i) \in Nat
  BY CountsAreNaturals DEF Total, ChecksOf

(* A report has its type whatever is green. *)
LEMMA ReportType ==
  ASSUME NEW acc \in SUBSET Checks, NEW green \in SUBSET Checks, NEW i,
         NEW evidence \in BOOLEAN
  PROVE  Report(acc, i, green, evidence) \in Reports
  <1>1. /\ PhaseOne(acc, i) \subseteq Checks
        /\ Ran(acc, i, green) \subseteq Checks
    BY DEF PhaseOne, PhaseTwo, Ran, ChecksOf
  <1>2. \A newly, regressed, satisfied :
          Verdict(newly, regressed, satisfied, evidence) \in Verdicts
    BY DEF Verdict, Verdicts
  <1>3. Satisfied(i, Ran(acc, i, green), green) \in BOOLEAN
    BY DEF Satisfied
  <1> QED BY <1>1, <1>2, <1>3 DEF Report, Reports

(* A report the commit manager may take keeps every accepted check, adds    *)
(* one and accepts only green ones.                                         *)
LEMMA CommittableReport ==
  ASSUME NEW acc \in SUBSET Checks, NEW green \in SUBSET Checks, NEW i,
         NEW evidence \in BOOLEAN,
         Report(acc, i, green, evidence).verdict \in {"PASS", "PARTIAL"},
         Report(acc, i, green, evidence).newly # {}
  PROVE  /\ acc \subseteq Report(acc, i, green, evidence).current
         /\ acc # Report(acc, i, green, evidence).current
         /\ Report(acc, i, green, evidence).current \subseteq green
  <1> DEFINE r == Report(acc, i, green, evidence)
             ran == Ran(acc, i, green)
  <1>1. /\ r.newly = PhaseOne(acc, i) \cap green
        /\ r.regressed = (ran \cap acc) \ green
        /\ r.current = (ran \cap green) \cup (acc \ ran)
        /\ r.verdict = Verdict(r.newly, r.regressed, r.satisfied, evidence)
    BY DEF Report
  <1>2. r.regressed = {}
    BY <1>1 DEF Verdict
  <1>3. acc \subseteq ran
    BY <1>1 DEF Ran, PhaseTwo
  <1>4. r.newly \subseteq r.current \ acc
    BY <1>1 DEF Ran, PhaseOne
  <1> QED BY <1>1, <1>2, <1>3, <1>4

-----------------------------------------------------------------------------
(* The inductive invariant: what a transaction rolls back to is covered by   *)
(* what is accepted, and what is about to be recorded covers it.  A snapshot *)
(* taken of a lost best/ covers nothing until a commit makes it useless.     *)
TxnCovered ==
  txn # NoTxn =>
    /\ txn.declared \subseteq txn.baseline
    /\ txn.baseline \subseteq accepted
    /\ ~lost /\ txn.baseline = accepted => txn.baseline \ Flaky \subseteq txn.snapshot

BestCovers ==
  ~lost /\ (txn = NoTxn \/ txn.baseline # accepted) => accepted \ Flaky \subseteq best

Committable == report.verdict \in {"PASS", "PARTIAL"} /\ report.newly # {}

CandidateCovers ==
  pc = "commit" /\ Committable =>
    /\ accepted \subseteq report.current /\ accepted # report.current
    /\ report.current \ Flaky \subseteq cand

PromotedCovers ==
  pc = "record" =>
    /\ accepted \subseteq report.current /\ accepted # report.current
    /\ report.current \ Flaky \subseteq best

Covered == TxnCovered /\ BestCovers /\ CandidateCovers /\ PromotedCovers

-----------------------------------------------------------------------------
LEMMA StopReasonType == StopReason \in StopReasons \cup {"none"}
  BY DEF StopReason, StopReasons

LEMMA NoReportType == NoReport \in Reports
  BY DEF NoReport, UnchangedReport, Reports, Verdicts

LEMMA TypeInit == Init => TypeOK
  <1> SUFFICES ASSUME Init PROVE TypeOK
    OBVIOUS
  <1>1. gap \in [Items -> Nat] /\ status \in [Items -> Statuses] /\ fails \in [Items -> Nat]
    BY TotalsAreNaturals DEF Init, Statuses
  <1>2. loops \in 0..MaxLoops
    BY DEF Init
  <1> QED
    BY <1>1, <1>2, NoReportType DEF Init, TypeOK, StopReasons, InLoop

(* Types are kept by every step. *)
LEMMA TypeStep == TypeOK /\ [Next]_vars => TypeOK'
  <1> SUFFICES ASSUME TypeOK, [Next]_vars PROVE TypeOK'
    OBVIOUS
  <1> USE DEF TypeOK, vars, ledgerVars, clockVars, memory, Goto, Stop, Statuses, InLoop
  <1>1. CASE TickStop
    BY <1>1, StopReasonType DEF TickStop
  <1>2. CASE TickGo
    <2>1. loops < MaxLoops
      BY <1>2 DEF TickGo, StopReason
    <2> QED BY <1>2, <2>1 DEF TickGo
  <1>3. CASE Plan
    BY <1>3 DEF Plan, Selectable, Active, Ledger
  <1>4. ASSUME NEW files \in SUBSET Checks, NEW luck \in SUBSET Checks,
               NEW evidence \in BOOLEAN, Validate(files, luck, evidence)
        PROVE  TypeOK'
    <2>1. report' \in Reports
      BY <1>4, ReportType DEF Validate
    <2> QED BY <1>4, <2>1 DEF Validate
  <1>5. CASE LeaveUnchanged
    <2>1. UnchangedReport(accepted) \in Reports
      BY DEF UnchangedReport, Reports, Verdicts
    <2> QED BY <1>5, <2>1 DEF LeaveUnchanged
  <1>6. CASE Promote
    BY <1>6 DEF Promote
  <1>7. CASE Reject
    BY <1>7 DEF Reject
  <1>8. CASE Record
    BY <1>8 DEF Record, Reports
  <1>9. CASE Credit
    <2>1. \A i : Cardinality(NewChecks(i)) \in Nat
      BY CountsAreNaturals DEF NewChecks, Seen, Effective, Reports
    <2>2. \A i \in Items : GapAfter(i) \in Nat
      BY <2>1 DEF GapAfter
    <2> QED BY <1>9, <2>2 DEF Credit
  <1>10. CASE Stagnate
    <2>1. item \in Items => FailsAfter \in Nat
      BY DEF FailsAfter
    <2> QED BY <1>10, <2>1 DEF Stagnate
  <1>11. ASSUME AfterLoop, UNCHANGED lost, accepted' \subseteq Checks, best' \subseteq Checks,
                txn' \in Transactions \cup {NoTxn}
         PROVE  TypeOK'
    <2>1. brokenBy' \subseteq Checks
      BY <1>11 DEF AfterLoop, Seen, Effective, Reports
    <2> QED BY <1>11, <2>1, NoReportType DEF AfterLoop, Forget, StopReasons
  <1>12. CASE SettleNothing
    <2>1. AutoOpenKeys(Seen) \subseteq Checks
      BY DEF AutoOpenKeys, Seen, Effective, Reports
    <2>2. txn' \in Transactions \cup {NoTxn}
      BY <1>12, <2>1 DEF SettleNothing, Opened, Transactions
    <2> QED BY <1>11, <1>12, <2>2 DEF SettleNothing
  <1>13. ASSUME Close, txn # NoTxn
         PROVE  /\ accepted' \subseteq Checks /\ best' \subseteq Checks
                /\ txn' \in Transactions \cup {NoTxn}
    BY <1>13 DEF Close, Recovered, Transactions
  <1>14. CASE SettleDue
    BY <1>11, <1>13, <1>14 DEF SettleDue, Due
  <1>15. CASE SaveStop
    BY <1>15 DEF SaveStop
  <1>16. ASSUME NEW i \in Items, Blocker(i) PROVE TypeOK'
    BY <1>16 DEF Blocker, Handing
  <1>17. ASSUME NEW i \in Items, NEW proposed \in BOOLEAN, Discover(i, proposed)
         PROVE  TypeOK'
    BY <1>17 DEF Discover, Handing
  <1>18. ASSUME NEW keys \in SUBSET Checks, WorkerOpens(keys) PROVE TypeOK'
    <2>1. Opened(keys) \in Transactions
      BY DEF Opened, Transactions
    <2> QED BY <1>18, <2>1 DEF WorkerOpens, Handing
  <1>19. CASE WorkerCloses
    BY <1>13, <1>19 DEF WorkerCloses, Handing
  <1>20. CASE WorkerNeedsHuman
    BY <1>20, NoReportType DEF WorkerNeedsHuman, Forget, StopReasons
  <1>21. CASE WorkerOverspends
    BY <1>21, NoReportType DEF WorkerOverspends, Forget, StopReasons
  <1>22. ASSUME NEW b \in BOOLEAN, SetPaused(b) PROVE TypeOK'
    BY <1>22 DEF SetPaused
  <1>23. ASSUME NEW i \in Items, Unblock(i) PROVE TypeOK'
    BY <1>23 DEF Unblock
  <1>24. ASSUME NEW flags \in SUBSET Flags, NEW cleared \in BOOLEAN,
                RunAgain(flags, cleared)
         PROVE  TypeOK'
    <2>1. loops' \in 0..MaxLoops
      BY <1>24 DEF RunAgain
    <2>2. /\ status' \in [Items -> Statuses] /\ fails' \in [Items -> Nat]
          /\ streak' \in Nat
      BY <1>24 DEF RunAgain
    <2>3. paused' \in BOOLEAN
      BY <1>24 DEF RunAgain
    <2>4. overspent' \in BOOLEAN
      <3>1. overspent' = IF cleared THEN FALSE ELSE overspent
        BY <1>24 DEF RunAgain
      <3>2. overspent \in BOOLEAN
        OBVIOUS
      <3> QED BY <3>1, <3>2, Zenon
    <2>5. runs' \in Nat /\ pc' = "tick" /\ verdict' = verdict
      BY <1>24 DEF RunAgain
    <2>6. UNCHANGED <<accepted, best, lost, gap, loopId, txn, brokenBy, last, memory>>
      BY <1>24 DEF RunAgain
    <2> QED BY <2>1, <2>2, <2>3, <2>4, <2>5, <2>6
  <1>25. CASE Crash \/ KillInSwap
    BY <1>25, NoReportType DEF Crash, KillInSwap, Forget
  <1>26. CASE Fail
    <2>1. loopId' \in Nat
      BY <1>26 DEF Fail
    <2> QED BY <1>26, <2>1, NoReportType DEF Fail, Forget, StopReasons
  <1>27. CASE UNCHANGED vars
    BY <1>27
  <1> HIDE DEF TypeOK, vars, ledgerVars, clockVars, memory, Goto, Stop, Statuses, InLoop
  <1> QED
    BY <1>1, <1>2, <1>3, <1>4, <1>5, <1>6, <1>7, <1>8, <1>9, <1>10, <1>12, <1>14, <1>15,
       <1>16, <1>17, <1>18, <1>19, <1>20, <1>21, <1>22, <1>23, <1>24, <1>25, <1>26, <1>27
    DEF Next, Step, Handoff, Operator

(* Every variable keeps its type, for any items, checks and limits. *)
THEOREM TypeCorrect == Spec => []TypeOK
  BY TypeInit, TypeStep, PTL DEF Spec

-----------------------------------------------------------------------------
(* A transaction that is not recovered has seen no commit: its rollback      *)
(* writes back the accepted checks that are there.                           *)
LEMMA RolledBackRowsAreTheRows ==
  ASSUME TxnCovered, txn # NoTxn
  PROVE  Recovered <=> txn.baseline # accepted
  BY DEF TxnCovered, Recovered

(* A close keeps the rows, and leaves best/ behind them only when the restore *)
(* failed and the transaction stays open.                                    *)
LEMMA CloseKeepsCover ==
  ASSUME TxnCovered, BestCovers, txn # NoTxn, Close, UNCHANGED lost
  PROVE  /\ TxnCovered' /\ BestCovers' /\ accepted' = accepted
         /\ txn' = NoTxn =>
              \/ best' = best /\ txn.baseline # accepted
              \/ best' = txn.snapshot /\ txn.baseline = accepted
         /\ txn' = NoTxn \/ txn' = txn
  <1>1. CASE Recovered
    BY <1>1, RolledBackRowsAreTheRows DEF Close, TxnCovered, BestCovers
  <1>2. CASE ~Recovered
    <2>1. txn.baseline = accepted
      BY <1>2, RolledBackRowsAreTheRows
    <2>2. CASE txn' = NoTxn /\ best' = txn.snapshot /\ accepted' = txn.baseline
      BY <2>1, <2>2 DEF TxnCovered, BestCovers
    <2>3. CASE UNCHANGED <<accepted, txn>>
      BY <2>1, <2>3 DEF TxnCovered, BestCovers
    <2> QED BY <1>2, <2>2, <2>3 DEF Close
  <1> QED BY <1>1, <1>2

(* Opening a transaction with best/ level with the rows covers its snapshot. *)
LEMMA OpenIsCovered ==
  ASSUME BestCovers, txn = NoTxn, NEW keys \in SUBSET accepted,
         txn' = Opened(keys), UNCHANGED <<accepted, best, lost>>
  PROVE  TxnCovered' /\ BestCovers'
  BY DEF BestCovers, TxnCovered, Opened

(* A rejected candidate has no newly passed check to show: no transaction is *)
(* opened on the strength of one.                                            *)
LEMMA NothingAutoOpens ==
  ASSUME ~committed
  PROVE  AutoOpenKeys(Seen) = {}
  <1>1. CASE Cardinality(Seen.newly) >= MinNewly
    <2>1. Cardinality(Seen.newly) # 0
      BY <1>1
    <2> QED BY <2>1, FS_EmptySet DEF Seen, Effective, AutoOpenKeys
  <1>2. CASE ~(Cardinality(Seen.newly) >= MinNewly)
    BY <1>2 DEF AutoOpenKeys
  <1> QED BY <1>1, <1>2

-----------------------------------------------------------------------------
LEMMA CoveredInit == Init => Covered
  BY DEF Init, Covered, TxnCovered, BestCovers, CandidateCovers, PromotedCovers

LEMMA CoveredStep == TypeOK /\ Covered /\ [Next]_vars => Covered'
  <1> SUFFICES ASSUME TypeOK, Covered, [Next]_vars PROVE Covered'
    OBVIOUS
  <1>0. TxnCovered /\ BestCovers /\ CandidateCovers /\ PromotedCovers
    BY DEF Covered
  (* Most steps leave best/, the rows and the transaction alone and are not   *)
  (* about to promote or record.                                             *)
  <1>1. ASSUME UNCHANGED <<accepted, best, lost, txn>>, pc' \notin {"commit", "record"}
        PROVE  Covered'
    BY <1>0, <1>1 DEF Covered, TxnCovered, BestCovers, CandidateCovers, PromotedCovers
  <1>2. ASSUME TxnCovered', BestCovers', pc' \notin {"commit", "record"}
        PROVE  Covered'
    BY <1>2 DEF Covered, CandidateCovers, PromotedCovers
  <1>3. CASE TickStop \/ TickGo \/ Plan \/ Reject \/ Credit \/ Stagnate \/ SaveStop
    BY <1>1, <1>3
    DEF TickStop, TickGo, Plan, Reject, Credit, Stagnate, SaveStop, Goto, Stop
  <1>4. CASE Crash \/ Fail \/ WorkerNeedsHuman \/ WorkerOverspends
    BY <1>1, <1>4 DEF Crash, Fail, WorkerNeedsHuman, WorkerOverspends, Stop
  <1>5. ASSUME NEW i \in Items, NEW proposed \in BOOLEAN,
               Blocker(i) \/ Discover(i, proposed)
        PROVE  Covered'
    BY <1>1, <1>5 DEF Blocker, Discover, Handing, Goto
  <1>6. ASSUME NEW i \in Items, Unblock(i) PROVE Covered'
    BY <1>1, <1>6 DEF Unblock
  <1>21. ASSUME NEW flags \in SUBSET Flags, NEW cleared \in BOOLEAN, RunAgain(flags, cleared)
         PROVE  Covered'
    BY <1>1, <1>21 DEF RunAgain, Goto
  <1>7. ASSUME NEW b \in BOOLEAN, SetPaused(b) PROVE Covered'
    BY <1>0, <1>7
    DEF SetPaused, memory, Covered, TxnCovered, BestCovers, CandidateCovers,
        PromotedCovers, Committable
  <1>8. ASSUME NEW files \in SUBSET Checks, NEW luck \in SUBSET Checks,
               NEW evidence \in BOOLEAN, luck \subseteq Flaky,
               Validate(files, luck, evidence)
        PROVE  Covered'
    <2> DEFINE green == (files \ Flaky) \cup luck
    <2>1. /\ report' = Report(accepted, item, green, evidence) /\ cand' = files
          /\ pc' = "commit" /\ UNCHANGED <<accepted, best, lost, txn>>
      BY <1>8 DEF Validate, Goto
    <2>2. Committable' => /\ accepted \subseteq report'.current /\ accepted # report'.current
                          /\ report'.current \subseteq green
      <3>1. accepted \in SUBSET Checks /\ green \in SUBSET Checks
        BY DEF TypeOK
      <3> QED BY <2>1, <3>1, CommittableReport DEF Committable
    <2>3. CandidateCovers'
      BY <1>8, <2>1, <2>2 DEF CandidateCovers
    <2> QED
      BY <1>0, <2>1, <2>3 DEF Covered, TxnCovered, BestCovers, PromotedCovers
  <1>9. CASE LeaveUnchanged
    <2>1. ~Committable'
      BY <1>9 DEF LeaveUnchanged, UnchangedReport, Committable
    <2> QED
      BY <1>0, <1>9, <2>1
      DEF LeaveUnchanged, Goto, Covered, TxnCovered, BestCovers, CandidateCovers,
          PromotedCovers
  <1>10. CASE Promote
    <2>1. Committable
      BY <1>10 DEF Promote, CanCommit, Committable
    <2>2. /\ accepted \subseteq report.current /\ accepted # report.current
          /\ report.current \ Flaky \subseteq cand
          /\ best' = cand /\ pc' = "record" /\ UNCHANGED <<accepted, lost, txn, report>>
      BY <1>0, <1>10, <2>1 DEF Promote, CandidateCovers, Goto
    <2> QED
      BY <1>0, <2>2 DEF Covered, TxnCovered, BestCovers, CandidateCovers, PromotedCovers
  <1>11. CASE Record
    <2>1. /\ accepted \subseteq report.current /\ accepted # report.current
          /\ report.current \ Flaky \subseteq best
          /\ accepted' = report.current /\ pc' = "credit" /\ UNCHANGED <<best, txn>>
      BY <1>0, <1>11 DEF Record, PromotedCovers, Goto
    <2> QED BY <1>0, <1>2, <2>1 DEF TxnCovered, BestCovers
  <1>12. AfterLoop => pc' \notin {"commit", "record"}
    BY DEF AfterLoop, Stop, Goto
  <1>13. CASE SettleNothing
    <2>1. txn' = txn
      BY <1>13, NothingAutoOpens DEF SettleNothing
    <2> QED BY <1>1, <1>12, <1>13, <2>1 DEF SettleNothing
  <1>14. CASE SettleDue
    BY <1>0, <1>2, <1>12, <1>14, CloseKeepsCover DEF SettleDue, Due
  <1>15. CASE WorkerCloses
    BY <1>0, <1>2, <1>15, CloseKeepsCover DEF WorkerCloses, Handing, Goto
  <1>16. ASSUME NEW keys \in SUBSET Checks, WorkerOpens(keys) PROVE Covered'
    <2>1. txn = NoTxn /\ keys \in SUBSET accepted
      BY <1>16 DEF WorkerOpens, MayOpen
    <2> QED
      BY <1>0, <1>2, <1>16, <2>1, OpenIsCovered DEF WorkerOpens, Handing, Goto
  <1>17. CASE UNCHANGED vars
    BY <1>0, <1>17
    DEF vars, memory, Covered, TxnCovered, BestCovers, CandidateCovers, PromotedCovers,
        Committable
  <1>18. CASE Step
    BY <1>3, <1>8, <1>9, <1>10, <1>11, <1>13, <1>14, <1>18 DEF Step
  <1>19. CASE Handoff
    BY <1>4, <1>5, <1>15, <1>16, <1>19 DEF Handoff
  <1>20. CASE Operator
    BY <1>6, <1>7, <1>20, <1>21 DEF Operator
  <1>22. CASE KillInSwap
    <2>1. lost' = TRUE /\ pc' = "down" /\ UNCHANGED <<accepted, txn>>
      BY <1>22 DEF KillInSwap
    <2> QED BY <1>0, <1>2, <2>1 DEF TxnCovered, BestCovers
  <1> QED
    BY <1>4, <1>17, <1>18, <1>19, <1>20, <1>22 DEF Next

LEMMA CoveredHolds == Spec => [](TypeOK /\ Covered)
  BY TypeInit, TypeStep, CoveredInit, CoveredStep, PTL DEF Spec

(* I-3 for the files: with no transaction open, best/ satisfies every        *)
(* accepted check whose result depends on the files, whatever is killed,     *)
(* promoted or restored half way, until a kill falls between the two renames *)
(* of a promote.                                                             *)
THEOREM BestKept == Spec => []BestKeepsAccepted
  <1>1. Covered => BestKeepsAccepted
    BY DEF Covered, BestCovers, BestKeepsAccepted
  <1> QED BY CoveredHolds, <1>1, PTL

LEMMA AcceptedStep == TypeOK /\ Covered /\ [Next]_vars => accepted \subseteq accepted'
  <1> SUFFICES ASSUME TypeOK, Covered, [Next]_vars PROVE accepted \subseteq accepted'
    OBVIOUS
  <1>0. TxnCovered /\ BestCovers /\ PromotedCovers
    BY DEF Covered
  <1>1. CASE Record
    BY <1>0, <1>1 DEF Record, PromotedCovers
  <1>2. ASSUME txn # NoTxn, Close, UNCHANGED lost PROVE accepted' = accepted
    BY <1>0, <1>2, CloseKeepsCover
  <1>3. CASE SettleDue \/ WorkerCloses
    BY <1>2, <1>3 DEF SettleDue, Due, WorkerCloses
  <1>4. CASE UNCHANGED accepted
    BY <1>4
  <1>5. Step => Record \/ SettleDue \/ UNCHANGED accepted
    BY DEF Step, TickStop, TickGo, Plan, Validate, LeaveUnchanged, Promote, Reject,
           Credit, Stagnate, SettleNothing, SaveStop
  <1>6. Handoff => WorkerCloses \/ UNCHANGED accepted
    BY DEF Handoff, Blocker, Discover, WorkerOpens, WorkerNeedsHuman, WorkerOverspends
  <1>7. Operator \/ Crash \/ KillInSwap \/ Fail \/ UNCHANGED vars => UNCHANGED accepted
    BY DEF Operator, SetPaused, Unblock, RunAgain, Crash, KillInSwap, Fail, vars
  <1> QED BY <1>1, <1>3, <1>4, <1>5, <1>6, <1>7 DEF Next

(* I-3 for the rows: no step takes an accepted check away, a rollback        *)
(* included.                                                                 *)
THEOREM NothingAcceptedIsLost == Spec => AcceptedNeverShrinks
  <1>1. TypeOK /\ Covered /\ [Next]_vars => [accepted \subseteq accepted']_vars
    BY AcceptedStep
  <1> QED BY CoveredHolds, <1>1, PTL DEF Spec, AcceptedNeverShrinks

(* What a rollback writes back is what is there: the transaction's baseline  *)
(* when nothing was committed under it, nothing at all when something was.   *)
THEOREM RollbackLosesNothing == Spec => RollbackIsNoLoss
  <1> DEFINE NoLoss == /\ accepted' = accepted
                       /\ \/ best' = best /\ txn.baseline # accepted
                          \/ best' = txn.snapshot /\ txn.baseline = accepted
  <1>1. ASSUME TypeOK, Covered, [Next]_vars, txn # NoTxn, txn' = NoTxn PROVE NoLoss
    <2>1. TxnCovered /\ BestCovers
      BY <1>1 DEF Covered
    <2>2. Close /\ UNCHANGED lost => NoLoss
      BY <1>1, <2>1, CloseKeepsCover
    <2>3. ~Step \/ SettleDue
      BY <1>1
      DEF Step, TickStop, TickGo, Plan, Validate, LeaveUnchanged, Promote, Reject, Record,
          Credit, Stagnate, SettleNothing, SaveStop
    <2>4. ~Handoff \/ WorkerCloses
      BY <1>1
      DEF Handoff, Blocker, Discover, WorkerOpens, MayOpen, WorkerNeedsHuman,
          WorkerOverspends
    <2>5. ~(Operator \/ Crash \/ KillInSwap \/ Fail \/ UNCHANGED vars)
      BY <1>1 DEF Operator, SetPaused, Unblock, RunAgain, Crash, KillInSwap, Fail, vars
    <2> QED BY <1>1, <2>2, <2>3, <2>4, <2>5 DEF Next, SettleDue, WorkerCloses
  <1>2. TypeOK /\ Covered /\ [Next]_vars =>
          [txn # NoTxn /\ txn' = NoTxn => NoLoss]_vars
    BY <1>1
  <1> QED BY CoveredHolds, <1>2, PTL DEF Spec, RollbackIsNoLoss

-----------------------------------------------------------------------------
(* The fuse is inductive once the end of a loop is told apart: there a       *)
(* streak at the limit belongs to a loop without progress, which stops.      *)
Fuse ==
  /\ runs >= 1
  /\ runs = 1 /\ pc \in {"tick"} \cup (InLoop \ {"settle"}) => streak < MaxStreak
  /\ runs = 1 /\ pc = "settle" /\ Progressed => streak < MaxStreak

LEMMA FuseStep == TypeOK /\ Fuse /\ [Next]_vars => Fuse'
  <1> SUFFICES ASSUME TypeOK, Fuse, [Next]_vars PROVE Fuse'
    OBVIOUS
  <1> USE DEF Fuse, InLoop, Goto, Stop
  <1>1. ASSUME runs' = runs, streak' = streak,
               pc' \in {"stop", "down"} \/ (pc' \in InLoop \ {"settle"} /\ pc \in {"tick"} \cup (InLoop \ {"settle"}))
        PROVE  Fuse'
    BY <1>1
  <1>2. CASE TickStop \/ TickGo \/ Plan \/ LeaveUnchanged \/ Promote \/ Reject \/ Record
             \/ Credit \/ SaveStop
    BY <1>1, <1>2
    DEF TickStop, TickGo, Plan, LeaveUnchanged, Promote, Reject, Record, Credit, SaveStop
  <1>3. ASSUME NEW files, NEW luck, NEW evidence, Validate(files, luck, evidence)
        PROVE  Fuse'
    BY <1>1, <1>3 DEF Validate
  <1>4. CASE Stagnate
    <2>1. /\ pc' = "settle" /\ UNCHANGED <<report, committed, runs>>
          /\ streak' = IF Progressed THEN 0 ELSE streak + 1
      BY <1>4 DEF Stagnate, memory
    <2>2. Progressed' => Progressed
      BY <2>1 DEF Progressed, Seen, Effective
    <2> QED BY <2>1, <2>2
  <1>5. CASE SettleNothing \/ SettleDue
    <2>1. /\ pc = "settle" /\ UNCHANGED <<streak, runs>>
          /\ IF GlobalBlocked THEN pc' = "stop" ELSE pc' = "tick"
      BY <1>5 DEF SettleNothing, SettleDue, AfterLoop
    <2>2. ~GlobalBlocked /\ runs = 1 => streak < MaxStreak
      BY <2>1 DEF GlobalBlocked, TypeOK
    <2> QED BY <2>1, <2>2
  <1>6. ASSUME NEW i \in Items, NEW proposed \in BOOLEAN,
               Blocker(i) \/ Discover(i, proposed)
        PROVE  Fuse'
    BY <1>6 DEF Blocker, Discover, Handing
  <1>7. CASE (\E keys \in SUBSET Checks : WorkerOpens(keys)) \/ WorkerCloses
             \/ WorkerNeedsHuman \/ WorkerOverspends
    BY <1>1, <1>7 DEF WorkerOpens, WorkerCloses, Handing, WorkerNeedsHuman, WorkerOverspends
  <1>8. ASSUME NEW b \in BOOLEAN, SetPaused(b) PROVE Fuse'
    BY <1>8 DEF SetPaused, memory, Progressed, Seen, Effective
  <1>9. ASSUME NEW i \in Items, Unblock(i) PROVE Fuse'
    BY <1>1, <1>9 DEF Unblock
  <1>10. ASSUME NEW flags, NEW cleared, RunAgain(flags, cleared) PROVE Fuse'
    <2>1. runs' = runs + 1
      BY <1>10 DEF RunAgain
    <2> QED BY <2>1 DEF TypeOK
  <1>11. CASE Crash \/ KillInSwap \/ Fail
    BY <1>1, <1>11 DEF Crash, KillInSwap, Fail
  <1>12. CASE UNCHANGED vars
    BY <1>12 DEF vars, memory, Progressed, Seen, Effective
  <1> HIDE DEF Fuse, InLoop, Goto, Stop
  <1>13. CASE Step
    BY <1>2, <1>3, <1>4, <1>5, <1>13 DEF Step
  <1>14. CASE Handoff
    BY <1>6, <1>7, <1>14 DEF Handoff
  <1>15. CASE Operator
    BY <1>8, <1>9, <1>10, <1>15 DEF Operator
  <1> QED BY <1>11, <1>12, <1>13, <1>14, <1>15 DEF Next

(* At most MaxStreak loops of the first run pass without progress.          *)
THEOREM FuseBlows == Spec => []FuseHolds
  <1>1. Init => Fuse
    BY DEF Init, Fuse
  <1>2. Fuse => FuseHolds
    BY DEF Fuse, FuseHolds
  <1> QED BY TypeInit, TypeStep, FuseStep, <1>1, <1>2, PTL DEF Spec

-----------------------------------------------------------------------------
(***************************************************************************)
(* The ledger never runs ahead of the accepted checks, and DONE means done, *)
(* for every value of LoopCore's constants.  The gap of an item is compared *)
(* with what it still owes: its checks that are not accepted, and those     *)
(* accepted by a commit whose credit has not been written yet.              *)
(***************************************************************************)

Pending(i) ==
  IF pc = "credit" /\ committed THEN {c \in report.newly : ItemOf[c] = i} ELSE {}

Owed(i) == (ChecksOf(i) \ accepted) \cup Pending(i)

(* An "any" item may have its gap cleared by its first check.               *)
GapCovers ==
  \A i \in Items : \/ Mode[i] # "all" /\ ChecksOf(i) \cap accepted # {}
                   \/ Cardinality(Owed(i)) <= gap[i]

SatisfiedHasNoGap == \A i \in Items : status[i] = "satisfied" => gap[i] = 0

DoneHasNoGap == pc = "stop" /\ verdict = "DONE" => Finished

(* What the report on its way to the ledger says of its item.               *)
ReportIsSound ==
  /\ report.newly \subseteq ChecksOf(item)
  /\ report.newly \subseteq report.current
  /\ report.satisfied => Accepts(item, report.current)

OnItsWay ==
  /\ committed => pc \in {"credit", "stagnate", "settle"}
  /\ pc \in {"commit", "record"} /\ Committable =>
       ReportIsSound /\ report.newly \cap accepted = {}
  /\ pc = "record" => Committable
  /\ pc = "credit" /\ committed => ReportIsSound /\ report.current = accepted

Earned == GapCovers /\ SatisfiedHasNoGap /\ DoneHasNoGap /\ OnItsWay

-----------------------------------------------------------------------------
(* A committable report newly passes checks of its item alone, none of them  *)
(* accepted before, and satisfies the item only if its mode is met.          *)
LEMMA CommittableReportIsSound ==
  ASSUME NEW acc \in SUBSET Checks, NEW green \in SUBSET Checks, NEW i,
         NEW evidence \in BOOLEAN,
         Report(acc, i, green, evidence).verdict \in {"PASS", "PARTIAL"},
         Report(acc, i, green, evidence).newly # {}
  PROVE  /\ Report(acc, i, green, evidence).newly \subseteq ChecksOf(i) \ acc
         /\ Report(acc, i, green, evidence).newly
              \subseteq Report(acc, i, green, evidence).current
         /\ Report(acc, i, green, evidence).satisfied =>
              Accepts(i, Report(acc, i, green, evidence).current)
  <1> DEFINE r == Report(acc, i, green, evidence)
             ran == Ran(acc, i, green)
  <1>1. /\ r.newly = PhaseOne(acc, i) \cap green
        /\ r.current = (ran \cap green) \cup (acc \ ran)
        /\ r.satisfied = Satisfied(i, ran, green)
    BY DEF Report
  <1>2. acc \subseteq r.current
    BY CommittableReport
  <1>3. PhaseOne(acc, i) = ChecksOf(i) \ acc /\ PhaseOne(acc, i) \subseteq ran
    BY DEF PhaseOne, Ran
  <1>4. ASSUME r.satisfied PROVE Accepts(i, r.current)
    <2>1. CASE Mode[i] = "all"
      BY <1>1, <1>2, <1>3, <1>4, <2>1 DEF Satisfied, Accepts
    <2>2. CASE Mode[i] # "all"
      BY <1>1, <1>4, <2>2 DEF Satisfied, Accepts
    <2> QED BY <2>1, <2>2
  <1> QED BY <1>1, <1>3, <1>4

LEMMA OwedIsFinite ==
  ASSUME TypeOK, NEW i \in Items
  PROVE  IsFiniteSet(Owed(i)) /\ Cardinality(Owed(i)) \in Nat
  <1>1. Owed(i) \subseteq Checks
    BY DEF TypeOK, Owed, Pending, ChecksOf, Reports
  <1> QED BY <1>1, ChecksAssumption, FS_Subset, FS_CardinalityType

(* As long as the gaps stay, owing less keeps them covered.                 *)
LEMMA OwingLess ==
  ASSUME TypeOK, GapCovers, gap' = gap, accepted \subseteq accepted',
         \A i \in Items : Owed(i)' \subseteq Owed(i)
  PROVE  GapCovers'
  <1> SUFFICES ASSUME NEW i \in Items, ~(Mode[i] # "all" /\ ChecksOf(i) \cap accepted' # {})
               PROVE  Cardinality(Owed(i)') <= gap'[i]
    BY DEF GapCovers, ChecksOf
  <1>1. Cardinality(Owed(i)) <= gap[i]
    BY DEF GapCovers
  <1>2. Cardinality(Owed(i)') <= Cardinality(Owed(i)) /\ Cardinality(Owed(i)') \in Nat
    BY OwedIsFinite, FS_Subset, FS_CardinalityType
  <1>3. gap[i] \in Nat
    BY DEF TypeOK
  <1> QED BY <1>1, <1>2, <1>3, OwedIsFinite

-----------------------------------------------------------------------------
LEMMA EarnedInit == Init => Earned
  <1> SUFFICES ASSUME Init PROVE Earned
    OBVIOUS
  <1>1. ASSUME NEW i \in Items PROVE Cardinality(Owed(i)) <= gap[i]
    <2>1. Owed(i) = ChecksOf(i) /\ gap[i] = Cardinality(ChecksOf(i))
      BY DEF Init, Owed, Pending, Total
    <2>2. gap[i] \in Nat
      BY TypeInit DEF TypeOK
    <2> QED BY <2>1, <2>2
  <1>2. GapCovers
    BY <1>1 DEF GapCovers
  <1>3. SatisfiedHasNoGap
    BY DEF Init, SatisfiedHasNoGap
  <1> QED BY <1>2, <1>3 DEF Init, Earned, DoneHasNoGap, OnItsWay

(* The credit takes off the gap what it takes off the debt.                 *)
LEMMA CreditKeepsGaps ==
  ASSUME TypeOK, GapCovers, SatisfiedHasNoGap, OnItsWay, Credit
  PROVE  GapCovers' /\ SatisfiedHasNoGap'
  <1>1. /\ pc = "credit" /\ pc' = "stagnate" /\ accepted' = accepted
        /\ gap' = [i \in Items |-> IF i \in Credited THEN GapAfter(i) ELSE gap[i]]
        /\ status' = [i \in Items |->
                        IF i \notin Credited THEN status[i]
                        ELSE IF GapAfter(i) = 0 THEN "satisfied" ELSE "working"]
    BY DEF Credit, Goto
  <1>2. SatisfiedHasNoGap'
    BY <1>1 DEF SatisfiedHasNoGap
  <1>3. ASSUME NEW i \in Items
        PROVE  \/ Mode[i] # "all" /\ ChecksOf(i) \cap accepted # {}
               \/ Cardinality(Owed(i)') <= gap'[i]
    <2> DEFINE A == ChecksOf(i) \ accepted
    <2>1. Owed(i)' = A
      BY <1>1 DEF Owed, Pending, ChecksOf
    <2>2. IsFiniteSet(A) /\ Cardinality(A) \in Nat
      BY ChecksAssumption, FS_Subset, FS_CardinalityType DEF ChecksOf
    <2>3. gap[i] \in Nat
      BY DEF TypeOK
    <2>4. CASE i \notin Credited
      <3>1. A \subseteq Owed(i)
        BY DEF Owed
      <3>2. Cardinality(A) <= Cardinality(Owed(i))
        BY <3>1, OwedIsFinite, FS_Subset
      <3> QED
        BY <1>1, <2>1, <2>2, <2>3, <2>4, <3>2, OwedIsFinite DEF GapCovers
    <2>5. CASE i \in Credited
      <3>1. committed
        BY <2>5 DEF Credited, NewChecks, Seen, Effective
      <3>2. Seen = report /\ ReportIsSound /\ report.current = accepted
        BY <1>1, <3>1 DEF Seen, Effective, OnItsWay
      <3>3. NewChecks(i) # {} /\ NewChecks(i) \subseteq ChecksOf(i)
            /\ NewChecks(i) \subseteq accepted
        BY <2>5, <3>2 DEF Credited, NewChecks, ReportIsSound, ChecksOf, TypeOK, Reports
      <3>4. i = item
        BY <3>2, <3>3 DEF NewChecks, ReportIsSound, ChecksOf
      <3>5. CASE Mode[i] # "all"
        BY <3>3, <3>5
      <3>6. CASE Mode[i] = "all"
        <4>1. Owed(i) = A \cup NewChecks(i) /\ A \cap NewChecks(i) = {}
          BY <1>1, <3>1, <3>2, <3>3 DEF Owed, Pending, NewChecks
        <4>2. IsFiniteSet(NewChecks(i)) /\ Cardinality(NewChecks(i)) \in Nat
          BY <3>3, ChecksAssumption, FS_Subset, FS_CardinalityType DEF ChecksOf
        <4>3. Cardinality(Owed(i)) = Cardinality(A) + Cardinality(NewChecks(i))
          <5> DEFINE N == NewChecks(i)
          <5>1. /\ IsFiniteSet(A) /\ Cardinality(A) \in Nat
                /\ IsFiniteSet(N) /\ Cardinality(N) \in Nat /\ A \cap N = {}
            BY <2>2, <4>1, <4>2
          <5> HIDE DEF A, N
          <5>2. Cardinality(A \cup N) = Cardinality(A) + Cardinality(N) - Cardinality(A \cap N)
            BY ONLY <5>1, FS_Union
          <5>3. Cardinality(A \cap N) = 0
            BY ONLY <5>1, FS_EmptySet
          <5> QED BY ONLY <4>1, <5>1, <5>2, <5>3 DEF N
        <4>4. Cardinality(A) + Cardinality(NewChecks(i)) <= gap[i]
          BY <3>6, <4>3 DEF GapCovers
        <4>5. Seen.satisfied => Cardinality(A) = 0
          BY <3>2, <3>4, <3>6, FS_EmptySet DEF ReportIsSound, Accepts
        <4>6. Cardinality(A) <= GapAfter(i)
          BY <2>2, <2>3, <4>2, <4>4, <4>5 DEF GapAfter
        <4> QED BY <1>1, <2>1, <2>5, <4>6
      <3> QED BY <3>5, <3>6
    <2> QED BY <2>4, <2>5
  <1> QED BY <1>1, <1>2, <1>3 DEF GapCovers, ChecksOf

(* Nothing but a credit touches a gap or marks an item satisfied.           *)
LEMMA OnlyCreditSettles ==
  ASSUME TypeOK, Next, ~Credit
  PROVE  /\ gap' = gap
         /\ \A i \in Items : status'[i] = "satisfied" => status[i] = "satisfied"
  <1> USE DEF TypeOK, ledgerVars
  <1>1. CASE Step
    <2>1. Stagnate => gap' = gap /\ \A i \in Items : status'[i] = "satisfied"
                                                       => status[i] = "satisfied"
      BY DEF Stagnate
    <2>2. CASE UNCHANGED ledgerVars
      BY <2>2
    <2> QED
      BY <1>1, <2>1, <2>2
      DEF Step, TickStop, TickGo, Plan, Validate, LeaveUnchanged, Promote, Reject, Record,
          SettleNothing, SettleDue, AfterLoop, SaveStop
  <1>2. ASSUME NEW j \in Items, Blocker(j) \/ Unblock(j) PROVE
          /\ gap' = gap
          /\ \A i \in Items : status'[i] = "satisfied" => status[i] = "satisfied"
    BY <1>2 DEF Blocker, Unblock
  <1>3. ASSUME NEW j \in Items, NEW proposed, Discover(j, proposed) PROVE
          /\ gap' = gap
          /\ \A i \in Items : status'[i] = "satisfied" => status[i] = "satisfied"
    BY <1>3 DEF Discover
  <1>4. ASSUME NEW flags, NEW cleared, RunAgain(flags, cleared) PROVE
          /\ gap' = gap
          /\ \A i \in Items : status'[i] = "satisfied" => status[i] = "satisfied"
    BY <1>4 DEF RunAgain
  <1>5. CASE UNCHANGED ledgerVars
    BY <1>5
  <1>6. CASE Handoff
    BY <1>2, <1>3, <1>5, <1>6
    DEF Handoff, WorkerOpens, WorkerCloses, WorkerNeedsHuman, WorkerOverspends
  <1>7. CASE Operator
    BY <1>2, <1>4, <1>5, <1>7 DEF Operator, SetPaused
  <1>8. Crash \/ KillInSwap \/ Fail => UNCHANGED ledgerVars
    BY DEF Crash, KillInSwap, Fail
  <1> HIDE DEF TypeOK
  <1> QED BY <1>1, <1>5, <1>6, <1>7, <1>8 DEF Next

(* The report reaches the ledger as the gate made it, with its commit.      *)
LEMMA OnItsWayStep ==
  ASSUME TypeOK, Covered, OnItsWay, Next
  PROVE  OnItsWay'
  <1> USE DEF OnItsWay, ReportIsSound, Committable, Goto, Stop
  <1>1. ASSUME committed' = FALSE, pc' \notin {"commit", "record"} PROVE OnItsWay'
    BY <1>1
  <1>2. CASE TickStop \/ TickGo \/ Plan \/ Reject
    BY <1>1, <1>2 DEF TickStop, TickGo, Plan, Reject, memory, TypeOK
  <1>3. ASSUME NEW files \in SUBSET Checks, NEW luck \in SUBSET Checks,
               NEW evidence \in BOOLEAN, Validate(files, luck, evidence)
        PROVE  OnItsWay'
    <2> DEFINE green == (files \ Flaky) \cup luck
    <2>1. /\ report' = Report(accepted, item, green, evidence) /\ accepted' = accepted
          /\ item' = item /\ pc' = "commit" /\ ~committed'
      BY <1>3 DEF Validate
    <2>2. accepted \in SUBSET Checks /\ green \in SUBSET Checks
      BY DEF TypeOK
    <2>3. Committable' => ReportIsSound' /\ report'.newly \cap accepted = {}
      <3> DEFINE r == Report(accepted, item, green, evidence)
      <3>1. ASSUME r.verdict \in {"PASS", "PARTIAL"}, r.newly # {}
            PROVE  /\ r.newly \subseteq ChecksOf(item) \ accepted
                   /\ r.newly \subseteq r.current
                   /\ r.satisfied => Accepts(item, r.current)
        <4> HIDE DEF green
        <4> QED BY ONLY <2>2, <3>1, CommittableReportIsSound
      <3>2. report' = r
        BY <2>1
      <3> HIDE DEF r
      <3> QED BY <2>1, <3>1, <3>2 DEF ChecksOf, Accepts
    <2> QED BY <2>1, <2>3
  <1>4. CASE LeaveUnchanged
    BY <1>4 DEF LeaveUnchanged, UnchangedReport
  <1>5. CASE Promote
    BY <1>5 DEF Promote, CanCommit, Accepts, ChecksOf
  <1>6. CASE Record
    BY <1>6 DEF Record, Accepts, ChecksOf
  <1>7. CASE Credit \/ Stagnate
    BY <1>7 DEF Credit, Stagnate, memory
  <1>8. CASE SettleNothing \/ SettleDue
    BY <1>1, <1>8 DEF SettleNothing, SettleDue, AfterLoop, Forget
  <1>9. CASE SaveStop
    BY <1>1, <1>9 DEF SaveStop, memory, TypeOK
  <1>10. CASE Step
    BY ONLY <1>2, <1>3, <1>4, <1>5, <1>6, <1>7, <1>8, <1>9, <1>10 DEF Step
  <1>11. CASE Handoff
    <2>1. pc' \in {"work", "stop"} /\ (committed' = committed \/ committed' = FALSE)
          /\ pc = "work"
      BY <1>11
      DEF Handoff, Blocker, Discover, WorkerOpens, WorkerCloses, Handing, WorkerNeedsHuman,
          WorkerOverspends, Forget, memory
    <2> QED BY <1>1, <2>1 DEF TypeOK
  <1>12. ASSUME NEW b \in BOOLEAN, SetPaused(b) PROVE OnItsWay'
    BY <1>12 DEF SetPaused, memory, Accepts, ChecksOf
  <1>13. ASSUME NEW i \in Items, Unblock(i) PROVE OnItsWay'
    BY <1>1, <1>13 DEF Unblock, memory, TypeOK
  <1>14. ASSUME NEW flags \in SUBSET Flags, NEW cleared \in BOOLEAN, RunAgain(flags, cleared)
         PROVE  OnItsWay'
    BY <1>1, <1>14 DEF RunAgain, memory, TypeOK
  <1>15. CASE Crash \/ KillInSwap \/ Fail
    BY <1>1, <1>15 DEF Crash, KillInSwap, Fail, Forget
  <1> HIDE DEF OnItsWay
  <1>16. CASE Operator
    BY <1>12, <1>13, <1>14, <1>16 DEF Operator
  <1> QED BY <1>10, <1>11, <1>15, <1>16 DEF Next

LEMMA EarnedStep == TypeOK /\ Covered /\ Earned /\ [Next]_vars => Earned'
  <1> SUFFICES ASSUME TypeOK, Covered, Earned, [Next]_vars PROVE Earned'
    OBVIOUS
  <1>0. GapCovers /\ SatisfiedHasNoGap /\ DoneHasNoGap /\ OnItsWay
    BY DEF Earned
  <1>1. CASE UNCHANGED vars
    BY <1>0, <1>1
    DEF vars, ledgerVars, memory, Earned, GapCovers, SatisfiedHasNoGap, DoneHasNoGap,
        OnItsWay, ReportIsSound, Committable, Owed, Pending, ChecksOf, Accepts, Finished,
        Unfinished, Ledger
  <1>2. CASE Credit
    <2>1. OnItsWay'
      BY <1>0, <1>2, OnItsWayStep DEF Next, Step
    <2>2. DoneHasNoGap'
      BY <1>2 DEF Credit, Goto, DoneHasNoGap
    <2> QED BY <1>0, <1>2, <2>1, <2>2, CreditKeepsGaps DEF Earned
  <1>3. CASE Next /\ ~Credit
    <2>1. OnItsWay'
      BY <1>0, <1>3, OnItsWayStep
    <2>2. gap' = gap /\ SatisfiedHasNoGap'
      BY <1>0, <1>3, OnlyCreditSettles DEF SatisfiedHasNoGap
    <2>3. ASSUME NEW i \in Items PROVE Pending(i)' \subseteq Owed(i)
      <3>1. CASE Record
        BY <1>0, <3>1 DEF Record, OnItsWay, ReportIsSound, Owed, Pending, ChecksOf, TypeOK, Reports
      <3>2. CASE \E b \in BOOLEAN : SetPaused(b)
        BY <3>2 DEF SetPaused, memory, Owed, Pending
      <3>3. CASE ~(pc' = "credit" /\ committed')
        BY <3>3 DEF Pending
      <3>4. Step /\ ~Record => ~(pc' = "credit" /\ committed')
        BY <1>0, <1>3
        DEF Step, TickStop, TickGo, Plan, Validate, LeaveUnchanged, Promote, Reject,
            Stagnate, SettleNothing, SettleDue, AfterLoop, SaveStop, Goto, Stop, OnItsWay
      <3>5. Handoff => pc' # "credit"
        BY DEF Handoff, Blocker, Discover, WorkerOpens, WorkerCloses, Handing,
               WorkerNeedsHuman, WorkerOverspends, Goto, Stop
      <3>6. ASSUME NEW j \in Items, Unblock(j) PROVE pc' # "credit"
        BY <3>6 DEF Unblock
      <3>7. ASSUME NEW flags, NEW cleared, RunAgain(flags, cleared) PROVE pc' # "credit"
        BY <3>7 DEF RunAgain, Goto
      <3>8. Crash \/ KillInSwap \/ Fail => pc' # "credit"
        BY DEF Crash, KillInSwap, Fail, Stop
      <3>9. CASE Operator
        BY <3>2, <3>3, <3>6, <3>7, <3>9 DEF Operator
      <3> QED BY <1>3, <3>1, <3>3, <3>4, <3>5, <3>8, <3>9 DEF Next
    <2>4. accepted \subseteq accepted'
      BY AcceptedStep
    <2>5. GapCovers'
      <3>1. \A i \in Items : Owed(i)' \subseteq Owed(i)
        BY <2>3, <2>4 DEF Owed, ChecksOf
      <3> QED BY <1>0, <2>2, <2>4, <3>1, OwingLess
    <2>6. DoneHasNoGap'
      <3>1. CASE TickStop
        BY <3>1
        DEF TickStop, Stop, StopReason, DoneHasNoGap, ledgerVars, Finished, Unfinished, Ledger
      <3>2. CASE \E b \in BOOLEAN : SetPaused(b)
        BY <1>0, <3>2 DEF SetPaused, DoneHasNoGap, ledgerVars, Finished, Unfinished, Ledger
      <3>3. CASE pc' # "stop" \/ verdict' # "DONE"
        BY <3>3 DEF DoneHasNoGap
      <3>4. Step /\ ~TickStop => pc' # "stop" \/ verdict' # "DONE"
        BY <1>3
        DEF Step, TickGo, Plan, Validate, LeaveUnchanged, Promote, Reject, Record,
            Stagnate, SettleNothing, SettleDue, AfterLoop, SaveStop, Goto, Stop
      <3>5. Handoff => pc' # "stop" \/ verdict' # "DONE"
        BY DEF Handoff, Blocker, Discover, WorkerOpens, WorkerCloses, Handing,
               WorkerNeedsHuman, WorkerOverspends, Goto, Stop
      <3>6. ASSUME NEW j \in Items, Unblock(j) PROVE pc' # "stop"
        BY <3>6 DEF Unblock
      <3>7. ASSUME NEW flags, NEW cleared, RunAgain(flags, cleared) PROVE pc' # "stop"
        BY <3>7 DEF RunAgain, Goto
      <3>8. Crash \/ KillInSwap \/ Fail => pc' # "stop" \/ verdict' # "DONE"
        BY DEF Crash, KillInSwap, Fail, Stop
      <3>9. CASE Operator
        BY <3>2, <3>3, <3>6, <3>7, <3>9 DEF Operator
      <3> QED BY <1>3, <3>1, <3>3, <3>4, <3>5, <3>8, <3>9 DEF Next
    <2> QED BY <2>1, <2>2, <2>5, <2>6 DEF Earned
  <1> QED BY <1>1, <1>2, <1>3

LEMMA EarnedHolds == Spec => [](TypeOK /\ Earned)
  BY CoveredHolds, EarnedInit, EarnedStep, PTL DEF Spec

-----------------------------------------------------------------------------
(* An item without a gap owes nothing.                                      *)
LEMMA NoGapIsAccepted ==
  ASSUME TypeOK, Earned, NEW i \in Items, gap[i] = 0
  PROVE  Accepts(i, accepted)
  <1>1. CASE Mode[i] # "all" /\ ChecksOf(i) \cap accepted # {}
    BY <1>1 DEF Accepts
  <1>2. CASE Cardinality(Owed(i)) <= gap[i]
    <2>1. Owed(i) = {}
      BY <1>2, OwedIsFinite, FS_EmptySet
    <2> QED BY <2>1, ItemsHaveChecks DEF Owed, Accepts
  <1> QED BY <1>1, <1>2 DEF Earned, GapCovers

(* The ledger never runs ahead of the accepted checks.                      *)
THEOREM LedgerNeverRunsAhead == Spec => []LedgerIsEarned
  <1>1. TypeOK /\ Earned => LedgerIsEarned
    BY NoGapIsAccepted DEF Earned, SatisfiedHasNoGap, LedgerIsEarned, Ledger
  <1> QED BY EarnedHolds, <1>1, PTL

(* A run that stops DONE leaves no item whose acceptance mode is unmet.      *)
THEOREM DoneMeansDone == Spec => []DoneIsDone
  <1>1. TypeOK /\ Earned => DoneIsDone
    BY NoGapIsAccepted
    DEF Earned, SatisfiedHasNoGap, DoneHasNoGap, DoneIsDone, Finished, Unfinished, Ledger,
        TypeOK
  <1> QED BY EarnedHolds, <1>1, PTL
=============================================================================
