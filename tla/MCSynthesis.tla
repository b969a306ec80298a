---------------------------- MODULE MCSynthesis -----------------------------
(* The checks nothing else tells apart are interchangeable.                 *)
EXTENDS Synthesis, TLC

Interchangeable == Permutations(Syn \ (Flaky \cup Noticed))
=============================================================================
