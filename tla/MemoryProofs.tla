---------------------------- MODULE MemoryProofs ----------------------------
(***************************************************************************)
(* What is remembered is remembered once, kept, and agreed upon, for any   *)
(* checks, operators and bounds.  The properties are not inductive: that a *)
(* proposal never meets a candidate which has its memory rests on a check  *)
(* being newly passed once, that a skill candidate is new on a run having  *)
(* made none, and that a whole promotion forgets nothing on what is still  *)
(* on its list.  Inv says those.                                           *)
(***************************************************************************)
EXTENDS Memory, TLAPS

(* A candidate comes of an accepted check, which is proposed once.          *)
ProposedOnce ==
  /\ accepted # {} => best # 0
  /\ \A k \in Checks : k \notin accepted => row[k] = "none"
  /\ \A k \in Checks : row[k] # "none" => made[k] # 0
  /\ pc = "propose" => todo \subseteq accepted /\ \A k \in todo : row[k] = "none"

(* A run makes its skill candidate after its loops, and only its own.       *)
CardsFollowRuns ==
  \A r \in Cards :
    r > runs \/ (r = runs /\ pc \in {"loop", "propose", "skill"}) => row[r] = "none"

(* What operators hold in hand was decided on a state the command accepts.   *)
DesksAreAllowed ==
  \A o \in Operators : desk[o] # Idle =>
    Allows(desk[o].does, desk[o].on, desk[o].seen) /\ row[desk[o].on] # "none"

(* Nothing that waits for its first decision has been kept.                 *)
KeptIsDecided == \A m \in kept : row[m.of] \notin {"none", "proposed", "candidate"}

(* The list of a promotion holds all it has to promote.                     *)
ListIsWhole ==
  /\ whole => pc = "down"
  /\ pc \in {"list", "promote"} => report.reason = "done" /\ report.best = best
  /\ pc = "promote" => \A k \in todo : row[k] # "none"
  /\ pc = "promote" /\ AutoPromote =>
       \A k \in Reusable : row[k] = "proposed" /\ made[k] = best => k \in aged \cup todo

Inv ==
  /\ TypeOK
  /\ ProposedOnce /\ CardsFollowRuns /\ DesksAreAllowed /\ KeptIsDecided /\ ListIsWhole
  /\ RememberedOnce /\ ApprovedIsKept /\ DecisionsAgree /\ NothingForgotten

LEMMA Assumptions ==
  /\ MaxLoops \in Nat /\ MaxCommands \in Nat /\ MaxRuns \in Nat /\ MaxRuns >= 1
  /\ Checks \cap Cards = {} /\ Reusable \subseteq Checks
BY MemoryAssumption

LEMMA Apart ==
  /\ \A k \in Checks : k \in Candidates
  /\ \A r \in Cards : r \in Candidates
  /\ \A k \in Checks, r \in Cards : k # r
BY Assumptions DEF Candidates

LEMMA InitInv == Init => Inv
<1> SUFFICES ASSUME Init PROVE Inv
  OBVIOUS
<1> USE DEF Init
<1>1. TypeOK
<2>1. made \in [Checks -> 0..MaxLoops] /\ row \in [Candidates -> MemoryStates \cup CardStates]
  BY Assumptions DEF MemoryStates, CardStates
<2>2. /\ best \in 0..MaxLoops /\ loops \in 0..MaxLoops /\ runs \in 1..MaxRuns
      /\ commands \in 0..MaxCommands
  BY Assumptions
<2>3. report \in [reason : {"none", "done", "other"}, best : 0..MaxLoops]
  BY Assumptions
<2>. QED
  BY <2>1, <2>2, <2>3 DEF TypeOK
<1>2. ProposedOnce /\ CardsFollowRuns /\ DesksAreAllowed /\ KeptIsDecided /\ ListIsWhole
  BY DEF ProposedOnce, CardsFollowRuns, DesksAreAllowed, KeptIsDecided, ListIsWhole,
         Candidates, Cards
<1>3. RememberedOnce /\ ApprovedIsKept /\ DecisionsAgree /\ NothingForgotten
  BY DEF RememberedOnce, ApprovedIsKept, DecisionsAgree, NothingForgotten
<1>. QED
  BY <1>1, <1>2, <1>3 DEF Inv

(* Every step keeps the variables in their types. *)
LEMMA TypeStep == TypeOK /\ [Next]_vars => TypeOK'
<1> USE Assumptions
        DEF TypeOK, Candidates, Cards, MemoryStates, CardStates, Commands,
            best_state, deskVars, runVars
<1>. SUFFICES ASSUME TypeOK, [Next]_vars PROVE TypeOK'
  OBVIOUS
<1>1. ASSUME NEW newly \in SUBSET Checks, NEW committed \in BOOLEAN, Loop(newly, committed)
      PROVE  TypeOK'
  BY <1>1 DEF Loop, Effective
<1>2. ASSUME NEW k \in Checks, Propose(k) PROVE TypeOK'
  BY <1>2 DEF Propose
<1>3. ASSUME NEW k \in Checks, Promote(k) PROVE TypeOK'
  BY <1>3 DEF Promote, Remember, RaceOn
<1>4. ASSUME NEW reason \in {"done", "other"}, Stop(reason) PROVE TypeOK'
  BY <1>4 DEF Stop
<1>5. ASSUME NEW clean \in BOOLEAN, MakeCard(clean) PROVE TypeOK'
  BY <1>5 DEF MakeCard
<1>6. CASE SaveReport
  BY <1>6 DEF SaveReport
<1>7. CASE List
  BY <1>7 DEF List
<1>8. CASE Finish
  BY <1>8 DEF Finish
<1>9. CASE Crash
  BY <1>9 DEF Crash
<1>10. CASE RunAgain
<2>1. runs' \in 1..MaxRuns
  BY <1>10 DEF RunAgain
<2>. QED
  BY <1>10, <2>1 DEF RunAgain
<1>11. ASSUME NEW k \in Checks, Age(k) PROVE TypeOK'
  BY <1>11 DEF Age
<1>12. ASSUME NEW o \in Operators, NEW does \in Commands, NEW c \in Candidates, Read(o, does, c)
       PROVE  TypeOK'
  BY <1>12 DEF Read
<1>13. ASSUME NEW o \in Operators, NEW does \in Commands, NEW state \in MemoryStates \cup CardStates,
              Write(o, does, state)
       PROVE  kept' \subseteq [of : Candidates, by : Operators \cup {"auto"}] => TypeOK'
  BY <1>13 DEF Write, RaceOn
<1>14. ASSUME NEW o \in Operators, desk[o] # Idle PROVE desk[o].on \in Candidates
  BY <1>14
<1>15. ASSUME NEW o \in Operators,
              Approve(o) \/ Activate(o) \/ Reject(o) \/ Dismiss(o) \/ Defer(o) \/ Expire(o)
       PROVE  TypeOK'
<2>1. kept' \subseteq [of : Candidates, by : Operators \cup {"auto"}]
  BY <1>14, <1>15 DEF Approve, Activate, Reject, Dismiss, Defer, Expire, Remember, Write
<2>2. \E does \in Commands, state \in MemoryStates \cup CardStates : Write(o, does, state)
  BY <1>15 DEF Approve, Activate, Reject, Dismiss, Defer, Expire
<2>. QED
  BY <1>13, <2>1, <2>2
<1>16. CASE UNCHANGED vars
  BY <1>16 DEF vars
<1>. QED
  BY <1>1, <1>2, <1>3, <1>4, <1>5, <1>6, <1>7, <1>8, <1>9, <1>10, <1>11, <1>12, <1>15, <1>16
  DEF Next, Run, Operate

(* A decision of an operator, with the effects all six have in common.      *)
LEMMA DecisionStep ==
  ASSUME Inv, TypeOK', NEW o \in Operators,
         Approve(o) \/ Activate(o) \/ Reject(o) \/ Dismiss(o) \/ Defer(o) \/ Expire(o)
  PROVE  Inv'
<1> DEFINE c == desk[o].on
           seen == desk[o].seen
           kind == desk[o].does
           state == CASE kind = "approve" -> IF c \in Checks THEN "approved" ELSE "active"
                      [] kind = "reject" -> "rejected"
                      [] kind = "defer" -> "deferred"
                      [] kind = "expire" -> "expired"
           fresh == [of |-> c, by |-> o]
<1>1. /\ desk[o] # Idle
      /\ desk[o] \in [does : Commands, on : Candidates, seen : MemoryStates \cup CardStates]
  BY DEF Inv, TypeOK, Approve, Activate, Reject, Dismiss, Defer, Expire, Write
<1>2. c \in Candidates /\ row[c] # "none" /\ Allows(kind, c, seen)
  BY <1>1 DEF Inv, DesksAreAllowed
<1>3. Write(o, kind, state)
  BY <1>1, <1>2, Apart DEF Approve, Activate, Reject, Dismiss, Defer, Expire, Write
<1>4. \A x \in Candidates : row'[x] = IF x = c THEN state ELSE row[x]
<2>1. row' = [row EXCEPT ![c] = state] /\ row \in [Candidates -> MemoryStates \cup CardStates]
  BY <1>3 DEF Inv, TypeOK, Write
<2> HIDE DEF c, state
<2>. QED
  BY <1>2, <2>1
<1>5. \A p \in Operators : desk'[p] # Idle => desk[p] # Idle /\ desk'[p] = desk[p]
  BY <1>3 DEF Inv, TypeOK, Write
<1>6. UNCHANGED <<accepted, best, made, aged, report, pc, stop, loops, runs, todo, whole>>
  BY <1>3 DEF Write, best_state, runVars
<1>7. /\ kept' = kept \/ kept' = kept \cup {fresh}
      /\ kept' # kept => state \in {"approved", "active"}
      /\ kept' # kept /\ c \in Checks => \A m \in kept : m.of # c
      /\ state \in {"approved", "active"} => \E m \in kept' : m.of = c
<2>1. CASE Approve(o)
<3>1. /\ state = "approved" /\ fresh.of = c
      /\ kept' = IF \E m \in kept : m.of = c THEN kept ELSE kept \cup {fresh}
  BY <2>1 DEF Approve, Write, Remember
<3> HIDE DEF c, state, fresh
<3>. QED
  BY <3>1
<2>2. CASE Activate(o)
<3>1. c \notin Checks /\ state = "active" /\ fresh.of = c /\ kept' = kept \cup {fresh}
  BY <2>2, Apart DEF Activate, Write
<3> HIDE DEF c, state, fresh
<3>. QED
  BY <3>1
<2>3. CASE Reject(o) \/ Dismiss(o) \/ Defer(o) \/ Expire(o)
  BY <2>3 DEF Reject, Dismiss, Defer, Expire, Write
<2>. QED
  BY <2>1, <2>2, <2>3
<1>8. raced \subseteq raced' /\ (row[c] # seen => c \in raced')
  BY <1>3 DEF Write, RaceOn
<1>9. state \in {"approved", "active", "rejected", "deferred", "expired"}
  BY <1>1 DEF Commands
<1>10. state \in {"rejected", "deferred"} => seen \in {"proposed", "deferred", "candidate"}
  BY <1>1, <1>2 DEF Commands, Allows, MayReject, MayDismiss, MayDefer
<1>11. \A m \in kept : m.of \in Candidates
  BY DEF Inv, TypeOK
<1> HIDE DEF c, seen, kind, state, fresh
<1>12. ProposedOnce' /\ CardsFollowRuns'
<2>1. \A x \in Candidates : row'[x] = "none" <=> row[x] = "none"
  BY <1>2, <1>4, <1>9
<2>. QED
  BY <1>6, <2>1, Apart DEF Inv, TypeOK, ProposedOnce, CardsFollowRuns
<1>13. DesksAreAllowed'
  BY <1>1, <1>2, <1>4, <1>5, <1>9 DEF Inv, TypeOK, DesksAreAllowed
<1>14. ListIsWhole' /\ NothingForgotten'
<2>1. \A x \in Candidates : /\ row'[x] = "none" => row[x] = "none"
                            /\ row'[x] = "proposed" => row[x] = "proposed"
  BY <1>4, <1>9
<2>. QED
  BY <1>6, <2>1, Apart, Assumptions DEF Inv, TypeOK, ListIsWhole, NothingForgotten
<1>15. KeptIsDecided' /\ ApprovedIsKept'
  BY <1>2, <1>4, <1>7, <1>9, <1>11 DEF Inv, KeptIsDecided, ApprovedIsKept, fresh
<1>16. RememberedOnce'
  BY <1>7, <1>11 DEF Inv, RememberedOnce, fresh
<1>17. DecisionsAgree'
<2>1. ASSUME NEW m \in kept', row'[m.of] \in {"candidate", "proposed", "deferred", "rejected"}
      PROVE  m.of \in raced'
<3>1. CASE m.of # c
  BY <1>2, <1>4, <1>7, <1>8, <1>11, <2>1, <3>1 DEF Inv, DecisionsAgree, fresh
<3>2. CASE m.of = c
<4>1. m \in kept /\ state \in {"rejected", "deferred"}
  BY <1>2, <1>4, <1>7, <1>9, <2>1, <3>2
<4>. QED
  BY <1>8, <1>10, <3>2, <4>1 DEF Inv, DecisionsAgree
<3>. QED
  BY <3>1, <3>2
<2>. QED
  BY <2>1 DEF DecisionsAgree
<1>. QED
  BY <1>12, <1>13, <1>14, <1>15, <1>16, <1>17 DEF Inv

(* A promotion finds its candidate decided and kept, or keeps it.            *)
LEMMA PromoteStep ==
  ASSUME Inv, TypeOK', NEW k \in Checks, Promote(k)
  PROVE  Inv'
<1> USE DEF Inv, TypeOK, deskVars
<1>1. UNCHANGED <<accepted, best, made, aged, report, pc, stop, loops, runs, desk, whole>>
  BY DEF Promote, best_state
<1>2. pc = "promote" /\ k \in todo /\ todo' = todo \ {k} /\ row[k] # "none" /\ k \in Candidates
  BY Apart DEF Promote, ListIsWhole, Candidates
<1>3. CASE \E m \in kept : m.of = k
<2>1. UNCHANGED <<row, kept, raced>> /\ row[k] # "proposed"
  BY <1>3 DEF Promote, KeptIsDecided
<2>. QED
  BY <1>1, <1>2, <2>1
     DEF ProposedOnce, CardsFollowRuns, DesksAreAllowed, KeptIsDecided, ListIsWhole,
         RememberedOnce, ApprovedIsKept, DecisionsAgree, NothingForgotten
<1>4. CASE \A m \in kept : m.of # k
<2>1. /\ \A x \in Candidates : row'[x] = IF x = k THEN "approved" ELSE row[x]
      /\ kept' = kept \cup {[of |-> k, by |-> "auto"]}
      /\ raced \subseteq raced'
  BY <1>2, <1>4 DEF Promote, Remember, RaceOn
<2>2. ProposedOnce' /\ CardsFollowRuns'
<3>1. \A x \in Candidates : row'[x] = "none" <=> row[x] = "none"
  BY <1>2, <2>1
<3>. QED
  BY <1>1, <1>2, <3>1, Apart DEF ProposedOnce, CardsFollowRuns
<2>3. DesksAreAllowed'
  BY <1>1, <2>1 DEF DesksAreAllowed
<2>4. ListIsWhole' /\ NothingForgotten'
<3>1. \A x \in Candidates : row'[x] = "proposed" => row[x] = "proposed" /\ x # k
  BY <2>1
<3>2. \A x \in Candidates : row'[x] = "none" => row[x] = "none"
  BY <2>1
<3>. QED
  BY <1>1, <1>2, <3>1, <3>2, Apart, Assumptions DEF ListIsWhole, NothingForgotten
<2>5. \A m \in kept : m.of \in Candidates
  OBVIOUS
<2>6. KeptIsDecided' /\ RememberedOnce'
  BY <1>2, <1>4, <2>1, <2>5 DEF KeptIsDecided, RememberedOnce
<2>7. ApprovedIsKept'
  BY <1>2, <2>1, <2>5 DEF ApprovedIsKept
<2>8. DecisionsAgree'
  BY <1>2, <2>1, <2>5 DEF DecisionsAgree
<2>. QED
  BY <2>2, <2>3, <2>4, <2>6, <2>7, <2>8
<1>. QED
  BY <1>3, <1>4

(* The run's skill candidate is a new row.                                  *)
LEMMA MakeCardStep ==
  ASSUME Inv, TypeOK', NEW clean \in BOOLEAN, MakeCard(clean)
  PROVE  Inv'
<1> USE DEF Inv, TypeOK, deskVars
<1>1. /\ UNCHANGED <<accepted, best, made, aged, kept, report, stop, loops, runs, todo, desk,
                     raced, whole>>
      /\ pc = "skill" /\ pc' = "report"
  BY DEF MakeCard, best_state
<1>2. runs \in Cards /\ row[runs] = "none"
  BY <1>1 DEF Cards, CardsFollowRuns
<1>3. \A x \in Candidates : row'[x] = row[x] \/ (x = runs /\ row'[x] = "candidate")
<2>1. row \in [Candidates -> MemoryStates \cup CardStates]
  OBVIOUS
<2>2. row' = row \/ row' = [row EXCEPT ![runs] = "candidate"]
  BY DEF MakeCard
<2> HIDE DEF Inv, TypeOK
<2>. QED
  BY <1>2, <2>1, <2>2, Apart
<1>4. ProposedOnce' /\ DesksAreAllowed' /\ KeptIsDecided'
  BY <1>1, <1>2, <1>3, Apart DEF ProposedOnce, DesksAreAllowed, KeptIsDecided
<1>5. CardsFollowRuns' /\ ListIsWhole' /\ NothingForgotten'
<2>1. \A r \in Cards : r > runs => r # runs
  BY DEF Cards
<2>2. CardsFollowRuns'
  BY <1>1, <1>3, <2>1, Apart DEF CardsFollowRuns
<2>3. ListIsWhole' /\ NothingForgotten'
  BY <1>1, <1>2, <1>3, Apart, Assumptions DEF ListIsWhole, NothingForgotten
<2>. QED
  BY <2>2, <2>3
<1>6. ApprovedIsKept' /\ RememberedOnce' /\ DecisionsAgree'
  BY <1>1, <1>2, <1>3 DEF ApprovedIsKept, RememberedOnce, DecisionsAgree, KeptIsDecided
<1>. QED
  BY <1>4, <1>5, <1>6

LEMMA InvStep == Inv /\ [Next]_vars => Inv'
<1>. SUFFICES ASSUME Inv, [Next]_vars PROVE Inv'
  OBVIOUS
<1>0. TypeOK /\ TypeOK'
  BY TypeStep DEF Inv
<1> USE Assumptions, <1>0
    DEF Inv, TypeOK, best_state, deskVars, runVars, ProposedOnce, CardsFollowRuns,
        DesksAreAllowed, KeptIsDecided, ListIsWhole, RememberedOnce, ApprovedIsKept,
        DecisionsAgree, NothingForgotten
<1>1. ASSUME NEW newly \in SUBSET Checks, NEW committed \in BOOLEAN, Loop(newly, committed)
      PROVE  Inv'
<2>1. (ProposedOnce /\ CardsFollowRuns /\ DesksAreAllowed /\ KeptIsDecided /\ ListIsWhole)'
  BY <1>1 DEF Loop, Effective
<2>2. (RememberedOnce /\ ApprovedIsKept /\ DecisionsAgree /\ NothingForgotten)'
  BY <1>1 DEF Loop, Effective
<2>. QED
  BY <2>1, <2>2 DEF Inv
<1>2. ASSUME NEW k \in Checks, Propose(k)
      PROVE  Inv'
<2>1. (ProposedOnce /\ CardsFollowRuns /\ DesksAreAllowed /\ KeptIsDecided /\ ListIsWhole)'
  BY <1>2 DEF Propose
<2>2. (RememberedOnce /\ ApprovedIsKept /\ DecisionsAgree /\ NothingForgotten)'
  BY <1>2 DEF Propose
<2>. QED
  BY <2>1, <2>2 DEF Inv
<1>3. ASSUME NEW k \in Checks, Promote(k) PROVE Inv'
  BY <1>3, PromoteStep
<1>4. ASSUME NEW reason \in {"done", "other"}, Stop(reason)
      PROVE  Inv'
<2>1. (ProposedOnce /\ CardsFollowRuns /\ DesksAreAllowed /\ KeptIsDecided /\ ListIsWhole)'
  BY <1>4 DEF Stop
<2>2. (RememberedOnce /\ ApprovedIsKept /\ DecisionsAgree /\ NothingForgotten)'
  BY <1>4 DEF Stop
<2>. QED
  BY <2>1, <2>2 DEF Inv
<1>5. ASSUME NEW clean \in BOOLEAN, MakeCard(clean) PROVE Inv'
  BY <1>5, MakeCardStep
<1>6. CASE SaveReport
<2>1. (ProposedOnce /\ CardsFollowRuns /\ DesksAreAllowed /\ KeptIsDecided /\ ListIsWhole)'
  BY <1>6 DEF SaveReport
<2>2. (RememberedOnce /\ ApprovedIsKept /\ DecisionsAgree /\ NothingForgotten)'
  BY <1>6 DEF SaveReport
<2>. QED
  BY <2>1, <2>2 DEF Inv
<1>7. CASE List
<2>1. (ProposedOnce /\ CardsFollowRuns /\ DesksAreAllowed /\ KeptIsDecided /\ ListIsWhole)'
  BY <1>7 DEF List, Eligible, NonVolatile
<2>2. (RememberedOnce /\ ApprovedIsKept /\ DecisionsAgree /\ NothingForgotten)'
  BY <1>7 DEF List, Eligible, NonVolatile
<2>. QED
  BY <2>1, <2>2 DEF Inv
<1>8. CASE Finish
<2>1. (ProposedOnce /\ CardsFollowRuns /\ DesksAreAllowed /\ KeptIsDecided /\ ListIsWhole)'
  BY <1>8 DEF Finish
<2>2. (RememberedOnce /\ ApprovedIsKept /\ DecisionsAgree /\ NothingForgotten)'
  BY <1>8 DEF Finish
<2>. QED
  BY <2>1, <2>2 DEF Inv
<1>9. CASE Crash
<2>1. (ProposedOnce /\ CardsFollowRuns /\ DesksAreAllowed /\ KeptIsDecided /\ ListIsWhole)'
  BY <1>9 DEF Crash
<2>2. (RememberedOnce /\ ApprovedIsKept /\ DecisionsAgree /\ NothingForgotten)'
  BY <1>9 DEF Crash
<2>. QED
  BY <2>1, <2>2 DEF Inv
<1>10. CASE RunAgain
<2>1. CardsFollowRuns'
<3>1. ASSUME NEW r \in Cards, r > runs' \/ r = runs' PROVE row[r] = "none"
  BY <1>10, <3>1 DEF RunAgain, Cards
<3>. QED
  BY <1>10, <3>1 DEF RunAgain
<2>2. (ProposedOnce /\ DesksAreAllowed /\ KeptIsDecided /\ ListIsWhole)'
  BY <1>10 DEF RunAgain
<2>3. (RememberedOnce /\ ApprovedIsKept /\ DecisionsAgree /\ NothingForgotten)'
  BY <1>10 DEF RunAgain
<2>. QED
  BY <2>1, <2>2, <2>3
<1>11. ASSUME NEW k \in Checks, Age(k)
      PROVE  Inv'
<2>1. (ProposedOnce /\ CardsFollowRuns /\ DesksAreAllowed /\ KeptIsDecided /\ ListIsWhole)'
  BY <1>11 DEF Age
<2>2. (RememberedOnce /\ ApprovedIsKept /\ DecisionsAgree /\ NothingForgotten)'
  BY <1>11 DEF Age
<2>. QED
  BY <2>1, <2>2 DEF Inv
<1>12. ASSUME NEW o \in Operators, NEW does \in Commands, NEW c \in Candidates, Read(o, does, c)
      PROVE  Inv'
<2>1. (ProposedOnce /\ CardsFollowRuns /\ DesksAreAllowed /\ KeptIsDecided /\ ListIsWhole)'
  BY <1>12 DEF Read, Allows, MayApprove, MayReject, MayDefer, MayExpire, MayActivate, MayDismiss, Commands, MemoryStates, CardStates
<2>2. (RememberedOnce /\ ApprovedIsKept /\ DecisionsAgree /\ NothingForgotten)'
  BY <1>12 DEF Read, Allows, MayApprove, MayReject, MayDefer, MayExpire, MayActivate, MayDismiss, Commands, MemoryStates, CardStates
<2>. QED
  BY <2>1, <2>2 DEF Inv
<1>13. ASSUME NEW o \in Operators,
              Approve(o) \/ Activate(o) \/ Reject(o) \/ Dismiss(o) \/ Defer(o) \/ Expire(o)
       PROVE  Inv'
  BY <1>13, DecisionStep
<1>14. CASE UNCHANGED vars
  BY <1>14 DEF vars
<1>. HIDE DEF Inv
<1>. QED
  BY <1>1, <1>2, <1>3, <1>4, <1>5, <1>6, <1>7, <1>8, <1>9, <1>10, <1>11, <1>12, <1>13, <1>14
  DEF Next, Run, Operate

LEMMA InvHolds == Spec => []Inv
  BY InitInv, InvStep, PTL DEF Spec

-----------------------------------------------------------------------------
(* Every variable of Memory keeps its type.                                 *)
THEOREM TypeCorrect == Spec => []TypeOK
<1>1. Inv => TypeOK
  BY DEF Inv
<1>. QED
  BY <1>1, InvHolds, PTL

(* A candidate becomes one memory, whoever promotes or approves it and      *)
(* however often (save_promoted_memory).                                    *)
THEOREM OneMemoryEach == Spec => []RememberedOnce
<1>1. Inv => RememberedOnce
  BY DEF Inv
<1>. QED
  BY <1>1, InvHolds, PTL

(* What reads approved or active has its memory or its card, although the   *)
(* process may be killed at any point of a promotion (auto_promote).        *)
THEOREM NothingApprovedIsLost == Spec => []ApprovedIsKept
<1>1. Inv => ApprovedIsKept
  BY DEF Inv
<1>. QED
  BY <1>1, InvHolds, PTL

(* The decisions of operators and of runs disagree with what is kept only   *)
(* where two of them overlapped (memory_cmd, skill_cmd, auto_promote).      *)
THEOREM OnlyRacesDisagree == Spec => []DecisionsAgree
<1>1. Inv => DecisionsAgree
  BY DEF Inv
<1>. QED
  BY <1>1, InvHolds, PTL

(* A promotion that comes to its end has left nothing behind (auto_promote). *)
THEOREM PromotionIsWhole == Spec => []NothingForgotten
<1>1. Inv => NothingForgotten
  BY DEF Inv
<1>. QED
  BY <1>1, InvHolds, PTL
=============================================================================
