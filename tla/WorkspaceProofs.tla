--------------------------- MODULE WorkspaceProofs ---------------------------
(***************************************************************************)
(* Proofs about Workspace: its types, that best/ keeps what BestStore       *)
(* promises, and that the committed work is always on disk; for any set of *)
(* works and any number of loops, runs and kills.                           *)
(***************************************************************************)
EXTENDS Workspace, TLAPS

USE WorksAssumption, SwitchesAssumption, WorkspaceBounds, NoneAssumption

(* Where the files are, what each place of the process may assume, and where *)
(* a torn tree may be.                                                       *)
Placed == {"placed", "manifest", "mirror", "mirrored", "remanifest", "rows"}

Shape ==
  /\ files = None => pc \in {"down", "moved"}
  /\ pc = "moved" => files = None /\ old # None
  /\ old # None => pc \in {"moved", "placed"}
  /\ pc \in {"work", "decide", "refuse"} \cup Promoting => cand # None
  /\ cand # None => loop >= 1
  /\ cand # None /\ pc # "work" => cand.work \in Works
  /\ pc \in Placed => files # None /\ files.work = cand.work
  /\ pc \in Restoring => txn # None /\ row = txn.row
  /\ pc \in {"restored", "unopen"} => files = txn.snap

Mendable ==
  /\ txn # None => txn.snap.work # Torn
  /\ files # None /\ files.work = Torn => txn # None /\ row = txn.row
  /\ old # None /\ old.work = Torn /\ pc = "moved" => txn # None /\ row = txn.row

(* Rows carry the loop they were written in, so a commit never writes the   *)
(* row it found; and what is not on disk any more was promoted over.        *)
Dated ==
  /\ row # None => row.loop <= loop
  /\ row # None /\ cand # None => row.loop < loop
  /\ txn # None => row # None /\ txn.row.loop <= row.loop
  /\ txn # None /\ row = txn.row /\ txn.ahead => ahead
  /\ pc \in Placed => ahead

Beside == {t.work : t \in aside \cup ({old} \ {None})}

Snapped == IF txn # None /\ row = txn.row THEN {txn.snap.work} ELSE {}

Backed ==
  /\ row # None /\ ~ahead => row.work \in {BestWork} \cup Beside \cup Snapped
  /\ txn # None /\ ~txn.ahead => txn.row.work \in {txn.snap.work} \cup {t.work : t \in aside}

-----------------------------------------------------------------------------
LEMMA TypeInit == Init => TypeOK
  <1>1. 0 \in 0..MaxLoops /\ 0 \in 0..MaxRuns
    OBVIOUS
  <1> QED BY <1>1 DEF Init, TypeOK

LEMMA TypeStep == TypeOK /\ Shape /\ [Next]_vars => TypeOK'
  <1> SUFFICES ASSUME TypeOK, Shape, [Next]_vars PROVE TypeOK'
    OBVIOUS
  <1> USE DEF TypeOK, Trees, Rows, Transactions, vars, disk, Goto, Resume, Promoting,
        Restoring, Closing, Bare, Shape
  <1>1. CASE Start
    BY <1>1 DEF Start
  <1>2. CASE MoveAside
    BY <1>2 DEF MoveAside
  <1>3. CASE MoveIn
    BY <1>3 DEF MoveIn
  <1>4. CASE MoveBack
    BY <1>4 DEF MoveBack
  <1>5. CASE RemoveOld
    BY <1>5 DEF RemoveOld
  <1>6. CASE WriteManifest
    BY <1>6 DEF WriteManifest
  <1>7. CASE Mirror
    BY <1>7 DEF Mirror
  <1>8. CASE MirrorRest
    BY <1>8 DEF MirrorRest
  <1>9. CASE MirrorFails
    BY <1>9 DEF MirrorFails
  <1>10. CASE Remanifest
    BY <1>10 DEF Remanifest
  <1>11. CASE CommitRows
    <2>1. cand.work \in Works /\ loop \in 1..MaxLoops
      BY <1>11 DEF CommitRows
    <2>2. row' = [work |-> cand.work, loop |-> loop]
      BY <1>11 DEF CommitRows
    <2>3. row' \in Rows
      BY <2>1, <2>2
    <2>4. UNCHANGED <<files, manifest, aside, rejected, txn, loop, runs, old>>
      BY <1>11 DEF CommitRows
    <2>5. cand' = None /\ pc' = "idle" /\ ahead' = FALSE
      BY <1>11 DEF CommitRows
    <2>6. {files', manifest', rejected', cand', old'} \subseteq Trees \cup {None}
      BY <2>4, <2>5
    <2> HIDE DEF Trees, Rows, Transactions
    <2> QED BY <2>3, <2>4, <2>5, <2>6
  <1>12. CASE Accept
    BY <1>12 DEF Accept
  <1>13. CASE Refuse
    BY <1>13 DEF Refuse
  <1>14. CASE MoveToRejected
    BY <1>14 DEF MoveToRejected
  <1>15. CASE RejectRows
    BY <1>15 DEF RejectRows
  <1>16. CASE Open
    BY <1>16 DEF Open
  <1>17. CASE CloseSuccess
    BY <1>17 DEF CloseSuccess
  <1>18. CASE Rollback
    BY <1>18 DEF Rollback
  <1>19. CASE Tear
    BY <1>19 DEF Tear
  <1>20. CASE CopyBack
    BY <1>20 DEF CopyBack
  <1>21. CASE RestoreManifest
    BY <1>21 DEF RestoreManifest
  <1>22. CASE RollbackRows
    BY <1>22 DEF RollbackRows
  <1>23. CASE RestoreFails
    BY <1>23 DEF RestoreFails
  <1>24. CASE Kill
    BY <1>24 DEF Kill
  <1>25. ASSUME NEW continue \in BOOLEAN, Create(continue) PROVE TypeOK'
    BY <1>25 DEF Create
  <1>26. ASSUME NEW w \in Works, Work(w) PROVE TypeOK'
    BY <1>26 DEF Work
  <1>27. CASE UNCHANGED vars
    BY <1>27
  <1> HIDE DEF TypeOK, Trees, Rows, Transactions, vars, disk, Goto, Resume, Promoting,
        Restoring, Closing, Bare, Shape
  <1> QED
    BY <1>1, <1>2, <1>3, <1>4, <1>5, <1>6, <1>7, <1>8, <1>9, <1>10, <1>11,
       <1>12, <1>13, <1>14, <1>15, <1>16, <1>17, <1>18, <1>19, <1>20, <1>21,
       <1>22, <1>23, <1>24, <1>25, <1>26, <1>27
    DEF Next

LEMMA ShapeInit == Init => Shape
  BY DEF Init, Shape, Placed, Promoting, Restoring

LEMMA ShapeStep == TypeOK /\ Shape /\ [Next]_vars => Shape'
  <1> SUFFICES ASSUME TypeOK, Shape, [Next]_vars PROVE Shape'
    OBVIOUS
  <1> USE DEF TypeOK, Shape, Placed, Trees, Transactions, vars, disk, Goto, Resume,
        Promoting, Restoring, Closing, Bare
  <1>1. CASE Start
    BY <1>1 DEF Start
  <1>2. CASE MoveAside
    BY <1>2 DEF MoveAside
  <1>3. CASE MoveIn
    BY <1>3 DEF MoveIn
  <1>4. CASE MoveBack
    BY <1>4 DEF MoveBack
  <1>5. CASE RemoveOld
    BY <1>5 DEF RemoveOld
  <1>6. CASE WriteManifest
    BY <1>6 DEF WriteManifest
  <1>7. CASE Mirror
    BY <1>7 DEF Mirror
  <1>8. CASE MirrorRest
    BY <1>8 DEF MirrorRest
  <1>9. CASE MirrorFails
    BY <1>9 DEF MirrorFails
  <1>10. CASE Remanifest
    BY <1>10 DEF Remanifest
  <1>11. CASE CommitRows
    BY <1>11 DEF CommitRows
  <1>12. CASE Accept
    BY <1>12 DEF Accept
  <1>13. CASE Refuse
    BY <1>13 DEF Refuse
  <1>14. CASE MoveToRejected
    BY <1>14 DEF MoveToRejected
  <1>15. CASE RejectRows
    BY <1>15 DEF RejectRows
  <1>16. CASE Open
    BY <1>16 DEF Open
  <1>17. CASE CloseSuccess
    BY <1>17 DEF CloseSuccess
  <1>18. CASE Rollback
    BY <1>18 DEF Rollback
  <1>19. CASE Tear
    BY <1>19 DEF Tear
  <1>20. CASE CopyBack
    BY <1>20 DEF CopyBack
  <1>21. CASE RestoreManifest
    BY <1>21 DEF RestoreManifest
  <1>22. CASE RollbackRows
    BY <1>22 DEF RollbackRows
  <1>23. CASE RestoreFails
    BY <1>23 DEF RestoreFails
  <1>24. CASE Kill
    BY <1>24 DEF Kill
  <1>25. ASSUME NEW continue \in BOOLEAN, Create(continue) PROVE Shape'
    BY <1>25 DEF Create
  <1>26. ASSUME NEW w \in Works, Work(w) PROVE Shape'
    BY <1>26 DEF Work
  <1>27. CASE UNCHANGED vars
    BY <1>27
  <1> HIDE DEF TypeOK, Shape, Placed, Trees, Transactions, vars, disk, Goto, Resume,
        Promoting, Restoring, Closing, Bare
  <1> QED
    BY <1>1, <1>2, <1>3, <1>4, <1>5, <1>6, <1>7, <1>8, <1>9, <1>10, <1>11,
       <1>12, <1>13, <1>14, <1>15, <1>16, <1>17, <1>18, <1>19, <1>20, <1>21,
       <1>22, <1>23, <1>24, <1>25, <1>26, <1>27
    DEF Next

LEMMA MendableInit == Init => Mendable
  BY DEF Init, Mendable

LEMMA MendableStep == TypeOK /\ Shape /\ Mendable /\ [Next]_vars => Mendable'
  <1> SUFFICES ASSUME TypeOK, Shape, Mendable, [Next]_vars PROVE Mendable'
    OBVIOUS
  <1> USE DEF TypeOK, Shape, Placed, Mendable, Trees, Transactions, vars, disk, Goto,
        Resume, Promoting, Restoring, Closing, Bare
  <1>1. CASE Start
    BY <1>1 DEF Start
  <1>2. CASE MoveAside
    BY <1>2 DEF MoveAside
  <1>3. CASE MoveIn
    BY <1>3 DEF MoveIn
  <1>4. CASE MoveBack
    BY <1>4 DEF MoveBack
  <1>5. CASE RemoveOld
    BY <1>5 DEF RemoveOld
  <1>6. CASE WriteManifest
    BY <1>6 DEF WriteManifest
  <1>7. CASE Mirror
    BY <1>7 DEF Mirror
  <1>8. CASE MirrorRest
    BY <1>8 DEF MirrorRest
  <1>9. CASE MirrorFails
    BY <1>9 DEF MirrorFails
  <1>10. CASE Remanifest
    BY <1>10 DEF Remanifest
  <1>11. CASE CommitRows
    BY <1>11 DEF CommitRows
  <1>12. CASE Accept
    BY <1>12 DEF Accept
  <1>13. CASE Refuse
    BY <1>13 DEF Refuse
  <1>14. CASE MoveToRejected
    BY <1>14 DEF MoveToRejected
  <1>15. CASE RejectRows
    BY <1>15 DEF RejectRows
  <1>16. CASE Open
    BY <1>16 DEF Open
  <1>17. CASE CloseSuccess
    BY <1>17 DEF CloseSuccess
  <1>18. CASE Rollback
    BY <1>18 DEF Rollback
  <1>19. CASE Tear
    BY <1>19 DEF Tear
  <1>20. CASE CopyBack
    BY <1>20 DEF CopyBack
  <1>21. CASE RestoreManifest
    BY <1>21 DEF RestoreManifest
  <1>22. CASE RollbackRows
    BY <1>22 DEF RollbackRows
  <1>23. CASE RestoreFails
    BY <1>23 DEF RestoreFails
  <1>24. CASE Kill
    BY <1>24 DEF Kill
  <1>25. ASSUME NEW continue \in BOOLEAN, Create(continue) PROVE Mendable'
    BY <1>25 DEF Create
  <1>26. ASSUME NEW w \in Works, Work(w) PROVE Mendable'
    BY <1>26 DEF Work
  <1>27. CASE UNCHANGED vars
    BY <1>27
  <1> HIDE DEF TypeOK, Shape, Placed, Mendable, Trees, Transactions, vars, disk, Goto,
        Resume, Promoting, Restoring, Closing, Bare
  <1> QED
    BY <1>1, <1>2, <1>3, <1>4, <1>5, <1>6, <1>7, <1>8, <1>9, <1>10, <1>11,
       <1>12, <1>13, <1>14, <1>15, <1>16, <1>17, <1>18, <1>19, <1>20, <1>21,
       <1>22, <1>23, <1>24, <1>25, <1>26, <1>27
    DEF Next

LEMMA DatedInit == Init => Dated
  BY DEF Init, Dated, Placed

LEMMA DatedStep == TypeOK /\ Shape /\ Dated /\ [Next]_vars => Dated'
  <1> SUFFICES ASSUME TypeOK, Shape, Dated, [Next]_vars PROVE Dated'
    OBVIOUS
  <1> USE DEF TypeOK, Shape, Placed, Dated, Trees, Rows, Transactions, vars, disk,
        Goto, Resume, Promoting, Restoring, Closing, Bare
  <1>1. CASE Start
    BY <1>1 DEF Start
  <1>2. CASE MoveAside
    BY <1>2 DEF MoveAside
  <1>3. CASE MoveIn
    BY <1>3 DEF MoveIn
  <1>4. CASE MoveBack
    BY <1>4 DEF MoveBack
  <1>5. CASE RemoveOld
    BY <1>5 DEF RemoveOld
  <1>6. CASE WriteManifest
    BY <1>6 DEF WriteManifest
  <1>7. CASE Mirror
    BY <1>7 DEF Mirror
  <1>8. CASE MirrorRest
    BY <1>8 DEF MirrorRest
  <1>9. CASE MirrorFails
    BY <1>9 DEF MirrorFails
  <1>10. CASE Remanifest
    BY <1>10 DEF Remanifest
  <1>11. CASE CommitRows
    BY <1>11 DEF CommitRows
  <1>12. CASE Accept
    BY <1>12 DEF Accept
  <1>13. CASE Refuse
    BY <1>13 DEF Refuse
  <1>14. CASE MoveToRejected
    BY <1>14 DEF MoveToRejected
  <1>15. CASE RejectRows
    BY <1>15 DEF RejectRows
  <1>16. CASE Open
    BY <1>16 DEF Open
  <1>17. CASE CloseSuccess
    BY <1>17 DEF CloseSuccess
  <1>18. CASE Rollback
    BY <1>18 DEF Rollback
  <1>19. CASE Tear
    BY <1>19 DEF Tear
  <1>20. CASE CopyBack
    BY <1>20 DEF CopyBack
  <1>21. CASE RestoreManifest
    BY <1>21 DEF RestoreManifest
  <1>22. CASE RollbackRows
    BY <1>22 DEF RollbackRows
  <1>23. CASE RestoreFails
    BY <1>23 DEF RestoreFails
  <1>24. CASE Kill
    BY <1>24 DEF Kill
  <1>25. ASSUME NEW continue \in BOOLEAN, Create(continue) PROVE Dated'
    BY <1>25 DEF Create
  <1>26. ASSUME NEW w \in Works, Work(w) PROVE Dated'
    BY <1>26 DEF Work
  <1>27. CASE UNCHANGED vars
    BY <1>27
  <1> HIDE DEF TypeOK, Shape, Placed, Dated, Trees, Rows, Transactions, vars, disk,
        Goto, Resume, Promoting, Restoring, Closing, Bare
  <1> QED
    BY <1>1, <1>2, <1>3, <1>4, <1>5, <1>6, <1>7, <1>8, <1>9, <1>10, <1>11,
       <1>12, <1>13, <1>14, <1>15, <1>16, <1>17, <1>18, <1>19, <1>20, <1>21,
       <1>22, <1>23, <1>24, <1>25, <1>26, <1>27
    DEF Next

LEMMA BackedInit == Init => Backed
  BY DEF Init, Backed

LEMMA BackedStep == TypeOK /\ Shape /\ Dated /\ Backed /\ [Next]_vars => Backed'
  <1> SUFFICES ASSUME TypeOK, Shape, Dated, Backed, [Next]_vars PROVE Backed'
    OBVIOUS
  <1> USE DEF TypeOK, Shape, Placed, Dated, Backed, BestWork, Beside, Snapped, Trees,
        Rows, Transactions, vars, disk, Goto, Resume, Promoting, Restoring, Closing,
        Bare
  <1>1. CASE Start
    BY <1>1 DEF Start
  <1>2. CASE MoveAside
    BY <1>2 DEF MoveAside
  <1>3. CASE MoveIn
    BY <1>3 DEF MoveIn
  <1>4. CASE MoveBack
    BY <1>4 DEF MoveBack
  <1>5. CASE RemoveOld
    BY <1>5 DEF RemoveOld
  <1>6. CASE WriteManifest
    BY <1>6 DEF WriteManifest
  <1>7. CASE Mirror
    BY <1>7 DEF Mirror
  <1>8. CASE MirrorRest
    BY <1>8 DEF MirrorRest
  <1>9. CASE MirrorFails
    BY <1>9 DEF MirrorFails
  <1>10. CASE Remanifest
    BY <1>10 DEF Remanifest
  <1>11. CASE CommitRows
    BY <1>11 DEF CommitRows
  <1>12. CASE Accept
    BY <1>12 DEF Accept
  <1>13. CASE Refuse
    BY <1>13 DEF Refuse
  <1>14. CASE MoveToRejected
    BY <1>14 DEF MoveToRejected
  <1>15. CASE RejectRows
    BY <1>15 DEF RejectRows
  <1>16. CASE Open
    BY <1>16 DEF Open
  <1>17. CASE CloseSuccess
    BY <1>17 DEF CloseSuccess
  <1>18. CASE Rollback
    BY <1>18 DEF Rollback
  <1>19. CASE Tear
    BY <1>19 DEF Tear
  <1>20. CASE CopyBack
    BY <1>20 DEF CopyBack
  <1>21. CASE RestoreManifest
    BY <1>21 DEF RestoreManifest
  <1>22. CASE RollbackRows
    BY <1>22 DEF RollbackRows
  <1>23. CASE RestoreFails
    BY <1>23 DEF RestoreFails
  <1>24. CASE Kill
    BY <1>24 DEF Kill
  <1>25. ASSUME NEW continue \in BOOLEAN, Create(continue) PROVE Backed'
    BY <1>25 DEF Create
  <1>26. ASSUME NEW w \in Works, Work(w) PROVE Backed'
    BY <1>26 DEF Work
  <1>27. CASE UNCHANGED vars
    BY <1>27
  <1> HIDE DEF TypeOK, Shape, Placed, Dated, Backed, BestWork, Beside, Snapped, Trees,
        Rows, Transactions, vars, disk, Goto, Resume, Promoting, Restoring, Closing,
        Bare
  <1> QED
    BY <1>1, <1>2, <1>3, <1>4, <1>5, <1>6, <1>7, <1>8, <1>9, <1>10, <1>11,
       <1>12, <1>13, <1>14, <1>15, <1>16, <1>17, <1>18, <1>19, <1>20, <1>21,
       <1>22, <1>23, <1>24, <1>25, <1>26, <1>27
    DEF Next

IInv == TypeOK /\ Shape /\ Mendable /\ Dated /\ Backed

LEMMA IInvHolds == Spec => []IInv
  <1>1. Init => IInv
    BY TypeInit, ShapeInit, MendableInit, DatedInit, BackedInit DEF IInv
  <1>2. IInv /\ [Next]_vars => IInv'
    BY TypeStep, ShapeStep, MendableStep, DatedStep, BackedStep DEF IInv
  <1> QED BY <1>1, <1>2, PTL DEF Spec

(* Every variable keeps its type, for any works and bounds. *)
THEOREM TypeCorrect == Spec => []TypeOK
  BY IInvHolds, PTL DEF IInv

(* The work the rows call committed is always on disk, unless a promote the  *)
(* rows do not know put a newer one in its place.                            *)
THEOREM CommittedWorkIsOnDisk == Spec => []RowIsBacked
  <1>1. IInv => RowIsBacked
    BY DEF IInv, Backed, Beside, Snapped, RowIsBacked, KeptWorks
  <1> QED BY IInvHolds, <1>1, PTL

-----------------------------------------------------------------------------
(* The refinement: where the work in best/ and the works beside it do not    *)
(* change, the abstract store stutters.                                      *)
LEMMA Stutter ==
  ASSUME UNCHANGED <<BestWork, KeptWorks>>
  PROVE  UNCHANGED Promise!store
  BY DEF Promise!store

LEMMA PromiseStep ==
  ASSUME IInv, [Next]_vars
  PROVE  [Promise!Next]_(Promise!store)
  <1> DEFINE Goal == [Promise!Next]_(Promise!store)
  <1> USE DEF IInv, TypeOK, Shape, Placed, Mendable, Trees, Transactions, Goto, Resume,
          Promoting, Restoring, Closing, Bare, disk, BestWork, KeptWorks
  <1>1. CASE UNCHANGED <<files, aside, old, txn>> /\ (pc' = "moved" <=> pc = "moved")
    BY <1>1, Stutter
  <1>2. CASE Start \/ Accept \/ WriteManifest \/ Remanifest \/ CommitRows \/ Refuse
             \/ MoveToRejected \/ RejectRows \/ Rollback \/ RestoreManifest \/ RestoreFails
             \/ MirrorFails
    BY <1>1, <1>2, Stutter
    DEF Start, Accept, WriteManifest, Remanifest, CommitRows, Refuse, MoveToRejected,
        RejectRows, Rollback, RestoreManifest, RestoreFails, MirrorFails
  <1>3. CASE (\E continue \in BOOLEAN : Create(continue)) \/ (\E w \in Works : Work(w))
             \/ UNCHANGED vars
    BY <1>1, <1>3 DEF Create, Work, vars
  <1>4. CASE Mirror \/ MirrorRest
    BY <1>4, Stutter DEF Mirror, MirrorRest
  <1>5. CASE MoveAside
    BY <1>5 DEF MoveAside, Promise!Next, Promise!Keep
  <1>6. CASE MoveIn
    BY <1>6 DEF MoveIn, Promise!Next, Promise!Replace
  <1>7. CASE MoveBack
    BY <1>7 DEF MoveBack, Promise!Next, Promise!Forget, Promise!Whole
  <1>8. CASE RemoveOld
    BY <1>8 DEF RemoveOld, Promise!Next, Promise!Forget, Promise!Whole
  <1>9. CASE Open
    BY <1>9 DEF Open, Promise!Next, Promise!Keep
  <1>10. CASE CloseSuccess
    BY <1>10 DEF CloseSuccess, Promise!Next, Promise!Forget, Promise!Whole
  <1>11. CASE Tear
    BY <1>11 DEF Tear, Promise!Next, Promise!Tear, Promise!Whole
  <1>12. CASE CopyBack
    BY <1>12 DEF CopyBack, Promise!Next, Promise!Restore
  <1>13. CASE RollbackRows
    BY <1>13 DEF RollbackRows, Promise!Next, Promise!Forget, Promise!Whole
  <1>14. CASE Kill
    BY <1>14, Stutter DEF Kill, Promise!Next, Promise!Lose
  <1> QED
    BY <1>2, <1>3, <1>4, <1>5, <1>6, <1>7, <1>8, <1>9, <1>10, <1>11, <1>12, <1>13, <1>14
    DEF Next

(* Workspace implements BestStore: best/ is one whole tree, replaced whole;  *)
(* it is found empty only with the lost tree beside it, and torn only with a *)
(* snapshot to mend it.                                                      *)
THEOREM PromiseKept == Spec => KeepsPromise
  <1>1. Init => Promise!Init
    BY DEF Init, Promise!Init, BestWork, KeptWorks
  <1>2. IInv /\ [Next]_vars => [Promise!Next]_(Promise!store)
    BY PromiseStep
  <1> QED BY IInvHolds, <1>1, <1>2, PTL DEF Spec, Promise!Spec, KeepsPromise

-----------------------------------------------------------------------------
(* What a promote or a rollback may rely on when it comes to its rows: the   *)
(* last thing it did to the disk was to list the files of best/.             *)
Listed == pc \in {"rows", "unopen"} => manifest = files

LEMMA ListedStep == Listed /\ [Next]_vars => Listed'
  <1> SUFFICES ASSUME Listed, [Next]_vars PROVE Listed'
    OBVIOUS
  <1> USE DEF Listed, Goto, Resume, disk
  <1>1. CASE WriteManifest \/ Remanifest \/ RestoreManifest
    BY <1>1 DEF WriteManifest, Remanifest, RestoreManifest
  <1>2. CASE UNCHANGED vars
    BY <1>2 DEF vars
  <1>3. CASE Open \/ CloseSuccess
    BY <1>3 DEF Open, CloseSuccess, Closing
  <1>4. CASE ~(\/ WriteManifest \/ Remanifest \/ RestoreManifest
               \/ Open \/ CloseSuccess \/ UNCHANGED vars)
    <2>1. pc' \notin {"rows", "unopen"}
      BY <1>4 DEF Next, Start, Create, Work, Accept, MoveAside, MoveIn, MoveBack, RemoveOld,
           Mirror, MirrorRest, MirrorFails, CommitRows, Refuse, MoveToRejected, RejectRows,
           Rollback, Tear, CopyBack, RollbackRows, RestoreFails, Kill
    <2> QED BY <2>1
  <1> QED BY <1>1, <1>2, <1>3, <1>4

LEMMA RowsStep ==
  ASSUME IInv, Listed, [Next]_vars
  PROVE  /\ row' # row => files.work = row'.work /\ manifest = files
         /\ txn # None /\ txn' = None /\ row = txn.row => files = txn.snap /\ manifest = files
  <1> USE DEF IInv, Shape, Placed, Restoring, Listed, Goto, disk
  <1>1. CASE CommitRows
    BY <1>1 DEF CommitRows
  <1>2. CASE RollbackRows
    BY <1>2 DEF RollbackRows
  <1>3. CASE CloseSuccess
    BY <1>3 DEF CloseSuccess
  <1>4. CASE ~(CommitRows \/ RollbackRows \/ CloseSuccess)
    <2>1. row' = row /\ (txn # None => txn' = txn)
      BY <1>4 DEF Next, vars, Start, Create, Work, Accept, MoveAside, MoveIn, MoveBack,
           RemoveOld, WriteManifest, Mirror, MirrorRest, MirrorFails, Remanifest, Refuse,
           MoveToRejected, RejectRows, Open, Rollback, Tear, CopyBack, RestoreManifest,
           RestoreFails, Kill
    <2> QED BY <2>1
  <1> QED BY <1>1, <1>2, <1>3, <1>4

(* Whatever kills and failed restores came before, a commit writes its row   *)
(* over the tree it names, and a rollback that closes its transaction has    *)
(* brought back the whole snapshot, the manifest listing exactly its files.  *)
THEOREM RowsNameTheirFiles == Spec => RowsMatchFiles
  <1>1. Init => Listed
    BY DEF Init, Listed
  <1>2. Spec => []Listed
    BY <1>1, ListedStep, PTL DEF Spec
  <1>3. IInv /\ Listed /\ [Next]_vars =>
          [/\ row' # row => files.work = row'.work /\ manifest = files
           /\ txn # None /\ txn' = None /\ row = txn.row =>
                files = txn.snap /\ manifest = files]_vars
    BY RowsStep
  <1> QED BY IInvHolds, <1>2, <1>3, PTL DEF Spec, RowsMatchFiles
=============================================================================
