----------------------------- MODULE MCStartup -----------------------------
(* Startup for TLC.  Runs and pids are interchangeable.                     *)
EXTENDS Startup, TLC

Symmetry == Permutations(Runs) \cup Permutations(Pids)
=============================================================================
