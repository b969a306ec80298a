------------------------------ MODULE Workspace ------------------------------
(***************************************************************************)
(* The directories of one task: best/ and its manifest, the candidate of    *)
(* the loop, the tree a promote has moved aside, the snapshot of a refactor *)
(* transaction; and the rows that say what was committed.  A promote and a  *)
(* rollback are taken apart into their renames, copies and writes, with a   *)
(* kill between any two.  What the gate decides of a candidate is either    *)
(* answer.  No project seed, no draft sampling.                             *)
(***************************************************************************)
EXTENDS Naturals

CONSTANTS
  Works,        \* what a worker can leave in a candidate, beside the mission's mirror
  Mission,      \* the task has a mission, whose files are mirrored into best/
  Continuation, \* policy.rejected_candidate_continuation_enabled
  Refactoring,  \* policy.refactor_transactions_enabled
  MaxLoops,     \* bound: loops of the task
  MaxRuns,      \* bound: runs an operator starts
  Empty, Torn,  \* no files; the files of a copy that is not finished
  None

ASSUME WorksAssumption == Empty \notin Works /\ Torn \notin Works /\ Empty # Torn
ASSUME SwitchesAssumption == {Mission, Continuation, Refactoring} \subseteq BOOLEAN
ASSUME WorkspaceBounds == {MaxLoops, MaxRuns} \subseteq Nat \ {0}

(* A tree: the worker's files, and the loops whose mission state its mirror  *)
(* files render (two of them while they are being rewritten).                *)
Trees == [work : Works \cup {Empty, Torn}, mirror : SUBSET (1..MaxLoops)]
Rows == [work : Works, loop : 1..MaxLoops]
Bare(w) == [work |-> w, mirror |-> {}]

Transactions == [snap : Trees, row : Rows, ahead : BOOLEAN]

ASSUME NoneAssumption == None \notin Trees \cup Rows \cup Transactions

VARIABLES
  files,     \* best/files
  manifest,  \* the tree best/manifest.json lists
  aside,     \* the trees in .best.old.<token> directories nobody removed
  rejected,  \* the candidate the last loop rejected
  row,       \* the best_states row
  txn,       \* the open refactor transaction
  loop, runs,
  (* of the running process *)
  pc,
  cand,      \* the candidate of the loop
  old,       \* the tree in .best.old.<token> of this promote
  ahead      \* history: best/ holds a promoted candidate the rows do not know

disk == <<files, manifest, aside>>
vars == <<files, manifest, aside, rejected, row, txn, loop, runs, pc, cand, old, ahead>>

Promoting == {"swap", "moved", "placed", "manifest", "mirror", "mirrored", "remanifest", "rows"}
Restoring == {"tear", "copy", "restored", "unopen"}

TypeOK ==
  /\ {files, manifest, rejected, cand, old} \subseteq Trees \cup {None}
  /\ aside \subseteq Trees
  /\ row \in Rows \cup {None}
  /\ txn \in Transactions \cup {None}
  /\ loop \in 0..MaxLoops /\ runs \in 0..MaxRuns
  /\ pc \in {"down", "idle", "work", "decide", "refuse", "refused"} \cup Promoting \cup Restoring
  /\ ahead \in BOOLEAN

Init ==
  /\ files = None /\ manifest = None /\ aside = {}
  /\ rejected = None /\ row = None /\ txn = None
  /\ loop = 0 /\ runs = 0
  /\ pc = "down" /\ cand = None /\ old = None /\ ahead = FALSE

Goto(place) == pc' = place

-----------------------------------------------------------------------------
(* A run makes sure that there is a best/.                                  *)
Start ==
  /\ pc = "down"
  /\ runs < MaxRuns
  /\ runs' = runs + 1
  /\ files' = IF files = None THEN Bare(Empty) ELSE files
  /\ Goto("idle")
  /\ UNCHANGED <<manifest, aside, rejected, row, txn, loop, cand, old, ahead>>

(* What best/ is compared with: its manifest, or its files without one.     *)
Recorded == IF manifest = None THEN files ELSE manifest

(* The candidate is a copy of best/, or of the candidate the last loop       *)
(* rejected when that one differs from best/.                                *)
Create(continue) ==
  /\ pc = "idle"
  /\ loop < MaxLoops
  /\ continue => Continuation /\ rejected # None /\ rejected # Recorded
  /\ loop' = loop + 1
  /\ cand' = IF continue THEN rejected ELSE files
  /\ rejected' = None
  /\ Goto("work")
  /\ UNCHANGED <<disk, row, txn, runs, old, ahead>>

Work(w) ==
  /\ pc = "work"
  /\ cand' = [cand EXCEPT !.work = w]
  /\ Goto("decide")
  /\ UNCHANGED <<disk, rejected, row, txn, loop, runs, old, ahead>>

-----------------------------------------------------------------------------
(* A promote: stage a copy, move best/ aside, move the copy in, remove what  *)
(* was moved aside, write the manifest, mirror the mission, write the        *)
(* manifest again, and commit the rows.                                      *)
Accept ==
  /\ pc = "decide"
  /\ Goto("swap")
  /\ UNCHANGED <<disk, rejected, row, txn, loop, runs, cand, old, ahead>>

(* Mutant: best/ is deleted to make room, as before the swap was introduced. *)
MoveAsideByDeleting ==
  /\ pc = "swap"
  /\ files' = None
  /\ Goto("moved")
  /\ UNCHANGED <<manifest, aside, rejected, row, txn, loop, runs, cand, old, ahead>>

MoveAside ==
  /\ pc = "swap"
  /\ old' = files
  /\ files' = None
  /\ Goto("moved")
  /\ UNCHANGED <<manifest, aside, rejected, row, txn, loop, runs, cand, ahead>>

MoveIn ==
  /\ pc = "moved"
  /\ files' = cand
  /\ ahead' = TRUE
  /\ Goto("placed")
  /\ UNCHANGED <<manifest, aside, rejected, row, txn, loop, runs, cand, old>>

(* The second rename fails: the first is undone, and the error ends the run. *)
MoveBack ==
  /\ pc = "moved"
  /\ files' = old
  /\ old' = None /\ cand' = None
  /\ Goto("down")
  /\ UNCHANGED <<manifest, aside, rejected, row, txn, loop, runs, ahead>>

RemoveOld ==
  /\ pc = "placed"
  /\ old' = None
  /\ Goto("manifest")
  /\ UNCHANGED <<disk, rejected, row, txn, loop, runs, cand, ahead>>

WriteManifest ==
  /\ pc = "manifest"
  /\ manifest' = files
  /\ Goto(IF Mission THEN "mirror" ELSE "rows")
  /\ UNCHANGED <<files, aside, rejected, row, txn, loop, runs, cand, old, ahead>>

Mirror ==
  /\ pc = "mirror"
  /\ files' = [files EXCEPT !.mirror = @ \cup {loop}]
  /\ Goto("mirrored")
  /\ UNCHANGED <<manifest, aside, rejected, row, txn, loop, runs, cand, old, ahead>>

(* Mutant: the manifest of the promote is left in place. *)
MirrorRestOnly ==
  /\ pc = "mirrored"
  /\ files' = [files EXCEPT !.mirror = {loop}]
  /\ Goto("rows")
  /\ UNCHANGED <<manifest, aside, rejected, row, txn, loop, runs, cand, old, ahead>>

MirrorRest ==
  /\ pc = "mirrored"
  /\ files' = [files EXCEPT !.mirror = {loop}]
  /\ Goto("remanifest")
  /\ UNCHANGED <<manifest, aside, rejected, row, txn, loop, runs, cand, old, ahead>>

(* A mirror file that cannot be written rolls the rows back and rejects the  *)
(* candidate.                                                                *)
MirrorFails ==
  /\ pc \in {"mirror", "mirrored"}
  /\ Goto("refuse")
  /\ UNCHANGED <<disk, rejected, row, txn, loop, runs, cand, old, ahead>>

Remanifest ==
  /\ pc = "remanifest"
  /\ manifest' = files
  /\ Goto("rows")
  /\ UNCHANGED <<files, aside, rejected, row, txn, loop, runs, cand, old, ahead>>

CommitRows ==
  /\ pc = "rows"
  /\ row' = [work |-> cand.work, loop |-> loop]
  /\ ahead' = FALSE
  /\ cand' = None
  /\ Goto("idle")
  /\ UNCHANGED <<disk, rejected, txn, loop, runs, old>>

-----------------------------------------------------------------------------
Refuse ==
  /\ pc = "decide"
  /\ Goto("refuse")
  /\ UNCHANGED <<disk, rejected, row, txn, loop, runs, cand, old, ahead>>

MoveToRejected ==
  /\ pc = "refuse"
  /\ rejected' = cand /\ cand' = None
  /\ Goto("refused")
  /\ UNCHANGED <<disk, row, txn, loop, runs, old, ahead>>

RejectRows ==
  /\ pc = "refused"
  /\ Goto("idle")
  /\ UNCHANGED <<disk, rejected, row, txn, loop, runs, cand, old, ahead>>

-----------------------------------------------------------------------------
(* Refactor transactions. *)
Open ==
  /\ pc = "decide"
  /\ Refactoring /\ txn = None /\ row # None
  /\ txn' = [snap |-> files, row |-> row, ahead |-> ahead]
  /\ UNCHANGED <<disk, rejected, row, loop, runs, pc, cand, old, ahead>>

(* A transaction under which something was committed closes as a success     *)
(* (LoopCore says why); one without is rolled back.  A worker closes it      *)
(* before its candidate is judged, the deadline at the end of a loop.        *)
Closing == pc \in {"decide", "idle"} /\ Refactoring /\ txn # None

CloseSuccess ==
  /\ Closing
  /\ row # txn.row
  /\ txn' = None
  /\ UNCHANGED <<disk, rejected, row, loop, runs, pc, cand, old, ahead>>

Rollback ==
  /\ Closing
  /\ row = txn.row
  /\ Goto("tear")
  /\ UNCHANGED <<disk, rejected, row, txn, loop, runs, cand, old, ahead>>

(* Where a rollback goes on: the candidate is there while it waits for its   *)
(* verdict.                                                                  *)
Resume == Goto(IF cand = None THEN "idle" ELSE "decide")

Tear ==
  /\ pc = "tear"
  /\ files' = Bare(Torn)
  /\ Goto("copy")
  /\ UNCHANGED <<manifest, aside, rejected, row, txn, loop, runs, cand, old, ahead>>

CopyBack ==
  /\ pc = "copy"
  /\ files' = txn.snap
  /\ ahead' = txn.ahead
  /\ Goto("restored")
  /\ UNCHANGED <<manifest, aside, rejected, row, txn, loop, runs, cand, old>>

RestoreManifest ==
  /\ pc = "restored"
  /\ manifest' = files
  /\ Goto("unopen")
  /\ UNCHANGED <<files, aside, rejected, row, txn, loop, runs, cand, old, ahead>>

RollbackRows ==
  /\ pc = "unopen"
  /\ row' = txn.row
  /\ txn' = None
  /\ Resume
  /\ UNCHANGED <<disk, rejected, loop, runs, cand, old, ahead>>

(* Mutant: the transaction is closed whether or not its files came back. *)
RestoreGivesUp ==
  /\ pc \in Restoring
  /\ txn' = None
  /\ Resume
  /\ UNCHANGED <<disk, rejected, row, loop, runs, cand, old, ahead>>

(* Any of these steps may fail: the transaction stays open.                 *)
RestoreFails ==
  /\ pc \in Restoring
  /\ Resume
  /\ UNCHANGED <<disk, rejected, row, txn, loop, runs, cand, old, ahead>>

-----------------------------------------------------------------------------
(* The process is killed, or an error nothing handles ends the run: a tree   *)
(* that was moved aside stays there.                                         *)
Kill ==
  /\ pc # "down"
  /\ aside' = IF old = None THEN aside ELSE aside \cup {old}
  /\ old' = None /\ cand' = None
  /\ rejected' \in {rejected, None}
  /\ Goto("down")
  /\ UNCHANGED <<files, manifest, row, txn, loop, runs, ahead>>

Next ==
  \/ Start
  \/ \E continue \in BOOLEAN : Create(continue)
  \/ \E w \in Works : Work(w)
  \/ Accept \/ MoveAside \/ MoveIn \/ MoveBack \/ RemoveOld \/ WriteManifest
  \/ Mirror \/ MirrorRest \/ MirrorFails \/ Remanifest \/ CommitRows
  \/ Refuse \/ MoveToRejected \/ RejectRows
  \/ Open \/ CloseSuccess \/ Rollback \/ Tear \/ CopyBack \/ RestoreManifest
  \/ RollbackRows \/ RestoreFails
  \/ Kill

Spec == Init /\ [][Next]_vars

-----------------------------------------------------------------------------
(* Properties. *)

(* best/ while its files are moved aside is still the old tree: the process  *)
(* that moved them is alive to move them back.                               *)
BestWork ==
  IF files # None THEN files.work
  ELSE IF pc = "moved" /\ old # None THEN old.work ELSE Empty

KeptWorks ==
  {t.work : t \in aside \cup ({old} \ {None})}
    \cup (IF txn = None THEN {} ELSE {txn.snap.work})

(* best/ is one whole tree, replaced whole; whatever a kill interrupts, the  *)
(* tree that was there is on disk beside it when best/ is found empty, and a *)
(* torn best/ has the snapshot of its transaction.                           *)
Promise == INSTANCE BestStore WITH best <- BestWork, kept <- KeptWorks
KeepsPromise == Promise!Spec

(* The work the rows call committed is on disk, in best/, beside it or in    *)
(* the snapshot, until a promote replaces it.                                *)
RowIsBacked == row # None /\ ~ahead => row.work \in {BestWork} \cup KeptWorks

(* Whenever a commit or a rollback writes its rows, best/ holds the tree     *)
(* they name and the manifest lists exactly its files, the mirror included.  *)
RowsMatchFiles ==
  [][/\ row' # row => files.work = row'.work /\ manifest = files
     /\ txn # None /\ txn' = None /\ row = txn.row => files = txn.snap /\ manifest = files]_vars
=============================================================================
