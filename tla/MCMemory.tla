------------------------------ MODULE MCMemory ------------------------------
(* Memory for TLC: the operators are interchangeable.                       *)
EXTENDS Memory, TLC

Interchangeable == Permutations(Operators)
=============================================================================
