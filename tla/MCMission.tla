----------------------------- MODULE MCMission -----------------------------
(* Mission for TLC: features 1 and 3 in the first phase, feature 2 in the    *)
(* second; the first mission lacks feature 3 and phase 3.                   *)
EXTENDS Mission, TLC

ThePhaseOf == [f \in Features |-> IF f = 2 THEN 2 ELSE 1]

(* The instances are such that a flawless run can end DONE.                 *)
ASSUME InstanceHasRoom == RoomForAll

(* The files of the mission as it was compiled, none of them there.          *)
Unchanged ==
  [files |-> {}, features |-> Features \ Late, home |-> ThePhaseOf,
   claim |-> [f \in Features |-> "pending"], rewritten |-> {}, replaced |-> {},
   phases |-> Phases \ LatePhases, bullets |-> [p \in Phases |-> {}],
   declared |-> [p \in Phases |-> "pending"],
   asserts |-> Phases \ LatePhases, verdict |-> [p \in Phases |-> "pending"], fresh |-> {}]

FeaturesFile == [Unchanged EXCEPT !.files = {"features"}]
AllFiles == [Unchanged EXCEPT !.files = {"features", "phases", "contract"}]

TheSpecs ==
  {[FeaturesFile EXCEPT !.features = Features],
   [FeaturesFile EXCEPT !.features = Features, !.claim[3] = "done"],
   [FeaturesFile EXCEPT !.features = {1}],
   [FeaturesFile EXCEPT !.rewritten = {1}],
   [FeaturesFile EXCEPT !.replaced = {1}],
   (* feature 2 moves to the first phase, the second lists it still *)
   [AllFiles EXCEPT !.home[2] = 1, !.bullets[2] = {2}],
   [FeaturesFile EXCEPT !.home[2] = 1],
   (* the second phase goes with its feature *)
   [AllFiles EXCEPT !.features = {1}, !.phases = {1}, !.asserts = {1}],
   (* a third phase comes as done, with a feature in it *)
   [AllFiles EXCEPT !.features = Features, !.home[3] = 3,
                    !.phases = Phases, !.declared[3] = "done"],
   (* another assertion for the first phase *)
   [Unchanged EXCEPT !.files = {"contract"}, !.fresh = {1}]}

=============================================================================
