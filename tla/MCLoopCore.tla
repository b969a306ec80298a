----------------------------- MODULE MCLoopCore -----------------------------
(* LoopCore for TLC: item a has two checks; item b, when there is one, has   *)
(* two alternative ones, comes in a later tier with the greater priority,    *)
(* and is discovered by a worker unless it is seeded.                        *)
EXTENDS LoopCore, TLC

CONSTANTS a, b, a1, a2, b1, b2, Shape

TheChecks == IF Shape = "one" THEN {a1, a2} ELSE {a1, a2, b1, b2}
TheItems == IF Shape = "one" THEN {a} ELSE {a, b}
TheItemOf == [c \in TheChecks |-> IF c \in {b1, b2} THEN b ELSE a]
AllMode == [i \in TheItems |-> "all"]
MixedMode == [i \in TheItems |-> IF i = a THEN "all" ELSE "any"]
SameTier == [i \in TheItems |-> 0]
TierOfB == [i \in TheItems |-> IF i = a THEN 0 ELSE 1]
Weights == [i \in TheItems |-> IF i = a THEN 1 ELSE 2]
=============================================================================
