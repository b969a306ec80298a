---------------------------- MODULE MCWorkspace ----------------------------
(* Workspace for TLC: the worker's files are interchangeable. *)
EXTENDS Workspace, TLC

WorkSymmetry == Permutations(Works)
=============================================================================
