----------------------------- MODULE MCDispatch -----------------------------
(* The plans that matter: three features that need each other in every way *)
(* the planner sorts out or refuses, the lanes sharing one slot or two, and *)
(* a first loop whose two assignments are sampled.                          *)
EXTENDS Dispatch

Refers(n) == {graph \in [1..n -> SUBSET (1..n)] : \A f \in 1..n : f \notin graph[f]}

Wide == [needs : Refers(3), ledger : {0}, slots : {2, 3}, loop : {1}, fresh : {FALSE}]
Lanes == [needs : {<<{}>>, <<>>}, ledger : 0..3, slots : {0, 1, 2}, loop : 1..6, fresh : {FALSE}]
Sampled == [needs : {<<{2}, {}>>}, ledger : {0}, slots : {2}, loop : {1}, fresh : {TRUE}]

Work == Wide \cup Lanes \cup Sampled

(* What validating a draft may find: two drafts can tie, and a draft that   *)
(* passes the gate can have less newly passed than one that does not.       *)
Found == {[gate |-> TRUE, newly |-> 1, failing |-> 1],
          [gate |-> FALSE, newly |-> 2, failing |-> 1],
          [gate |-> FALSE, newly |-> 2, failing |-> 2]}
=============================================================================
