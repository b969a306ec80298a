------------------------------ MODULE BestStore ------------------------------
(***************************************************************************)
(* What a task may rely on about best/: it holds one whole tree, which is   *)
(* replaced whole.  Nobody finds it empty without the tree that was there   *)
(* being kept beside it, and it is torn only while there is a kept tree to  *)
(* mend it with.                                                            *)
(***************************************************************************)
CONSTANTS
  Works,   \* what a worker can leave there
  Empty,   \* no files
  Torn     \* the files of a copy that is not finished

VARIABLES
  best,   \* the work in best/
  kept    \* the works on disk beside it

store == <<best, kept>>

Whole == Works \cup {Empty}

Init == best = Empty /\ kept = {}

Replace == best' \in Works /\ UNCHANGED kept

Restore == best' \in kept /\ UNCHANGED kept

Lose == best' = Empty /\ kept' = kept \cup {best}

Tear == kept \cap Whole # {} /\ best' = Torn /\ UNCHANGED kept

Keep == kept' = kept \cup {best} /\ UNCHANGED best

Forget ==
  /\ kept' \subseteq kept
  /\ best = Torn => kept' \cap Whole # {}
  /\ UNCHANGED best

Next == Replace \/ Restore \/ Lose \/ Tear \/ Keep \/ Forget

Spec == Init /\ [][Next]_store
=============================================================================
