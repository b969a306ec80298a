------------------------------- MODULE Memory -------------------------------
(***************************************************************************)
(* What a task leaves for later tasks: memories, one candidate for each    *)
(* check a commit newly passed, and skill cards, one candidate for each    *)
(* run that ended DONE.  The run proposes candidates after its commits and *)
(* promotes memories after its DONE report; operators decide on candidates *)
(* at the same time with commands that hold no lock: they read the row,    *)
(* check it, and write it back whole in a transaction.                     *)
(* A memory's candidate is named by its check: a check is newly passed     *)
(* once, since accepted checks are never lost.  Its evidence is that of    *)
(* the loop that committed it, so its stored flags action_verified and     *)
(* traceable are true when it is written, and stay what they are.          *)
(***************************************************************************)
EXTENDS Naturals, FiniteSets

CONSTANTS
  Checks,     \* the check keys of the ledger
  Reusable,   \* those whose candidate's content passes is_reusable
  AutoPromote,\* policy.memory_auto_promote_enabled
  Operators,
  MaxLoops,   \* bound: the loops of all runs
  MaxRuns,    \* bound: the runs
  MaxCommands \* bound: the operators' commands

Cards == 1..MaxRuns  \* the skill candidate of each run

ASSUME MemoryAssumption ==
  /\ Reusable \subseteq Checks /\ IsFiniteSet(Checks) /\ Checks \cap Cards = {}
  /\ AutoPromote \in BOOLEAN
  /\ {MaxLoops, MaxCommands} \subseteq Nat /\ MaxRuns \in Nat \ {0}
  /\ "auto" \notin Operators

VARIABLES
  (* durable *)
  accepted, best, \* best_state.accepted_check_keys and .state_id, 0 for None
  made,      \* source_best_state_id of each memory candidate
  row,       \* candidate.state of each memory and skill candidate
  aged,      \* memory candidates past their expires_at
  kept,      \* promoted_memories and active_skill_cards
  report,    \* the last stop report
  (* of the run *)
  pc, stop, loops, runs,
  todo,      \* checks to propose, or candidates to promote
  (* of the operators *)
  desk,      \* the command in hand, with the state its row had when it was read
  commands,  \* read so far
  (* history *)
  raced,     \* candidates decided on a state they no longer had
  whole      \* the last run has promoted all it meant to

best_state == <<accepted, best>>
deskVars == <<desk, commands>>
runVars == <<pc, stop, loops, runs, todo>>
vars == <<best_state, made, row, aged, kept, report, runVars, desk, commands, raced, whole>>

Candidates == Checks \cup Cards
MemoryStates == {"none", "proposed", "approved", "rejected", "deferred", "expired"}
CardStates == {"none", "candidate", "active", "rejected"}
Commands == {"approve", "reject", "defer", "expire"}
Idle == [does |-> "nothing"]

TypeOK ==
  /\ accepted \subseteq Checks /\ best \in 0..MaxLoops
  /\ made \in [Checks -> 0..MaxLoops]
  /\ row \in [Candidates -> MemoryStates \cup CardStates]
  /\ aged \subseteq Checks
  /\ kept \subseteq [of : Candidates, by : Operators \cup {"auto"}]
  /\ report \in [reason : {"none", "done", "other"}, best : 0..MaxLoops]
  /\ pc \in {"loop", "propose", "skill", "report", "list", "promote", "down"}
  /\ stop \in {"none", "done", "other"}
  /\ loops \in 0..MaxLoops /\ runs \in 1..MaxRuns /\ todo \subseteq Checks
  /\ desk \in [Operators -> {Idle} \cup
                [does : Commands, on : Candidates, seen : MemoryStates \cup CardStates]]
  /\ commands \in 0..MaxCommands
  /\ raced \subseteq Candidates /\ whole \in BOOLEAN

Init ==
  /\ accepted = {} /\ best = 0
  /\ made = [k \in Checks |-> 0] /\ row = [c \in Candidates |-> "none"]
  /\ aged = {} /\ kept = {} /\ report = [reason |-> "none", best |-> 0]
  /\ pc = "loop" /\ stop = "none" /\ loops = 0 /\ runs = 1 /\ todo = {}
  /\ desk = [o \in Operators |-> Idle]
  /\ commands = 0 /\ raced = {} /\ whole = FALSE

-----------------------------------------------------------------------------
(* The run.                                                                 *)

(* The effective report: a rejected candidate has passed nothing.           *)
Effective(newly, committed) == IF committed THEN newly ELSE {}

Loop(newly, committed) ==
  /\ pc = "loop" /\ loops < MaxLoops
  /\ newly \subseteq Checks \ accepted /\ (committed => newly # {})
  /\ loops' = loops + 1
  /\ accepted' = accepted \cup (IF committed THEN newly ELSE {})
  /\ best' = IF committed THEN loops + 1 ELSE best
  /\ todo' = Effective(newly, committed)
  /\ pc' = IF todo' = {} THEN "loop" ELSE "propose"
  /\ UNCHANGED <<made, row, aged, kept, report, stop, runs, deskVars, raced, whole>>

(* propose_from_loop, one write for each newly passed check.                *)
Propose(k) ==
  /\ pc = "propose" /\ k \in todo
  /\ made' = [made EXCEPT ![k] = best]
  /\ row' = [row EXCEPT ![k] = "proposed"]
  /\ todo' = todo \ {k}
  /\ pc' = IF todo' = {} THEN "loop" ELSE "propose"
  /\ UNCHANGED <<best_state, aged, kept, report, stop, loops, runs, deskVars, raced, whole>>

Stop(reason) ==
  /\ pc = "loop" /\ (reason = "done" <=> accepted = Checks)
  /\ stop' = reason /\ pc' = "skill"
  /\ UNCHANGED <<best_state, made, row, aged, kept, report, loops, runs, todo, deskVars, raced, whole>>

(* SkillManager._trigger_fires; `clean`: some tool call succeeded and the   *)
(* last committed trace has no regression.                                  *)
Deserves(clean) == stop = "done" /\ best # 0 /\ Cardinality(accepted) >= 2 /\ clean

(* maybe_create_skill_card, before the stop report is saved.                *)
MakeCard(clean) ==
  /\ pc = "skill"
  /\ row' = IF Deserves(clean) THEN [row EXCEPT ![runs] = "candidate"] ELSE row
  /\ pc' = "report"
  /\ UNCHANGED <<best_state, made, aged, kept, report, stop, loops, runs, todo, deskVars, raced, whole>>

SaveReport ==
  /\ pc = "report"
  /\ report' = [reason |-> stop, best |-> best]
  /\ pc' = IF stop = "done" THEN "list" ELSE "down"
  /\ UNCHANGED <<best_state, made, row, aged, kept, stop, loops, runs, todo, deskVars, raced, whole>>

(* Only what the final best state proved is promoted without an operator.   *)
NonVolatile(k) == report.reason = "done" /\ made[k] = report.best /\ made[k] = best

Eligible(k) ==
  row[k] = "proposed" /\ k \notin aged /\ k \in Reusable /\ best # 0 /\ NonVolatile(k)

(* Mutant: the candidates are marked when they are listed.                  *)
ListMarked ==
  /\ pc = "list"
  /\ todo' = IF AutoPromote THEN {k \in Checks : Eligible(k)} ELSE {}
  /\ row' = [c \in Candidates |-> IF c \in todo' THEN "approved" ELSE row[c]]
  /\ pc' = "promote"
  /\ UNCHANGED <<best_state, made, aged, kept, report, stop, loops, runs, deskVars, raced, whole>>

(* auto_promote reads the candidates once.                                  *)
List ==
  /\ pc = "list"
  /\ todo' = IF AutoPromote THEN {k \in Checks : Eligible(k)} ELSE {}
  /\ pc' = "promote"
  /\ UNCHANGED <<best_state, made, row, aged, kept, report, stop, loops, runs, deskVars, raced, whole>>

(* Mutant: whoever promotes adds a row.                                     *)
RememberAgain(k, who) == kept \cup {[of |-> k, by |-> who]}

(* save_promoted_memory: a candidate has one memory.                        *)
Remember(k, who) ==
  IF \E m \in kept : m.of = k THEN kept ELSE kept \cup {[of |-> k, by |-> who]}

RaceOn(c, seen) == raced' = IF row[c] # seen THEN raced \cup {c} ELSE raced

(* Mutant: one candidate that was promoted meanwhile ends the promotion.    *)
PromoteStops(k) ==
  /\ pc = "promote" /\ k \in todo
  /\ IF \E m \in kept : m.of = k
     THEN todo' = {} /\ UNCHANGED <<row, kept, raced>>
     ELSE /\ todo' = todo \ {k}
          /\ row' = [row EXCEPT ![k] = "approved"]
          /\ kept' = Remember(k, "auto")
          /\ RaceOn(k, "proposed")
  /\ UNCHANGED <<best_state, made, aged, report, pc, stop, loops, runs, deskVars, whole>>

(* The row as it was listed is written back approved, with its memory, in   *)
(* one transaction; a candidate that has a memory by now is left alone.     *)
Promote(k) ==
  /\ pc = "promote" /\ k \in todo
  /\ todo' = todo \ {k}
  /\ IF \E m \in kept : m.of = k
     THEN UNCHANGED <<row, kept, raced>>
     ELSE /\ row' = [row EXCEPT ![k] = "approved"]
          /\ kept' = Remember(k, "auto")
          /\ RaceOn(k, "proposed")
  /\ UNCHANGED <<best_state, made, aged, report, pc, stop, loops, runs, deskVars, whole>>

Finish ==
  /\ pc = "promote" /\ todo = {}
  /\ pc' = "down" /\ whole' = TRUE
  /\ UNCHANGED <<best_state, made, row, aged, kept, report, stop, loops, runs, todo, deskVars, raced>>

(* A kill; nothing resumes a proposal or a promotion.                       *)
Crash ==
  /\ pc # "down"
  /\ pc' = "down" /\ todo' = {}
  /\ UNCHANGED <<best_state, made, row, aged, kept, report, stop, loops, runs, deskVars, raced, whole>>

(* Another run, after DONE with --reset, which the preflight asks for and   *)
(* which wipes nothing.                                                     *)
RunAgain ==
  /\ pc = "down" /\ runs < MaxRuns
  /\ pc' = "loop" /\ stop' = "none" /\ runs' = runs + 1 /\ whole' = FALSE
  /\ UNCHANGED <<best_state, made, row, aged, kept, report, loops, todo, deskVars, raced>>

(* Ninety days pass.                                                        *)
Age(k) ==
  /\ made[k] # 0 /\ k \notin aged
  /\ aged' = aged \cup {k}
  /\ UNCHANGED <<best_state, made, row, kept, report, runVars, deskVars, raced, whole>>

-----------------------------------------------------------------------------
(* The operators.                                                           *)

(* The states a command accepts; --force approves what is not reusable.     *)
MayApprove(c, state) == c \in Checks /\ state \in {"proposed", "deferred"}
MayReject(c, state) == c \in Checks /\ state \in {"proposed", "deferred"}
(* Mutant: an approved memory can still be put off.                         *)
MayDeferApproved(c, state) == c \in Checks /\ state \in {"proposed", "approved"}
MayDefer(c, state) == c \in Checks /\ state = "proposed"
MayExpire(c, state) == c \in Checks /\ state \notin {"none", "expired"}
MayActivate(c, state) == c \in Cards /\ state = "candidate"
MayDismiss(c, state) == c \in Cards /\ state = "candidate"

Allows(does, c, state) ==
  \/ does = "approve" /\ (MayApprove(c, state) \/ MayActivate(c, state))
  \/ does = "reject" /\ (MayReject(c, state) \/ MayDismiss(c, state))
  \/ does = "defer" /\ MayDefer(c, state)
  \/ does = "expire" /\ MayExpire(c, state)

Read(o, does, c) ==
  /\ desk[o] = Idle /\ Allows(does, c, row[c])
  /\ commands < MaxCommands /\ commands' = commands + 1
  /\ desk' = [desk EXCEPT ![o] = [does |-> does, on |-> c, seen |-> row[c]]]
  /\ UNCHANGED <<best_state, made, row, aged, kept, report, runVars, raced, whole>>

(* The row that was read goes back whole with its new state.                *)
Write(o, does, state) ==
  /\ desk[o] # Idle /\ desk[o].does = does
  /\ row' = [row EXCEPT ![desk[o].on] = state]
  /\ RaceOn(desk[o].on, desk[o].seen)
  /\ desk' = [desk EXCEPT ![o] = Idle]
  /\ UNCHANGED <<best_state, made, aged, report, runVars, commands, whole>>

Approve(o) ==
  /\ Write(o, "approve", "approved") /\ desk[o].on \in Checks
  /\ kept' = Remember(desk[o].on, o)

(* Every approval makes a card of its own.                                  *)
Activate(o) ==
  /\ Write(o, "approve", "active") /\ desk[o].on \in Cards
  /\ kept' = kept \cup {[of |-> desk[o].on, by |-> o]}

Reject(o) == Write(o, "reject", "rejected") /\ desk[o].on \in Checks /\ kept' = kept
Dismiss(o) == Write(o, "reject", "rejected") /\ desk[o].on \in Cards /\ kept' = kept
Defer(o) == Write(o, "defer", "deferred") /\ kept' = kept
Expire(o) == Write(o, "expire", "expired") /\ kept' = kept

-----------------------------------------------------------------------------
Run ==
  \/ \E newly \in SUBSET Checks, committed \in BOOLEAN : Loop(newly, committed)
  \/ \E k \in Checks : Propose(k) \/ Promote(k)
  \/ \E reason \in {"done", "other"} : Stop(reason)
  \/ \E clean \in BOOLEAN : MakeCard(clean)
  \/ SaveReport \/ List \/ Finish \/ Crash \/ RunAgain

Operate ==
  \E o \in Operators :
    \/ \E does \in Commands, c \in Candidates : Read(o, does, c)
    \/ Approve(o) \/ Activate(o) \/ Reject(o) \/ Dismiss(o) \/ Defer(o) \/ Expire(o)

Next == Run \/ Operate \/ \E k \in Checks : Age(k)

Spec == Init /\ [][Next]_vars

-----------------------------------------------------------------------------
(* Properties. *)

(* A candidate becomes one memory, although a run that promotes, a later    *)
(* run after --reset and several operators may each take it for undecided.  *)
RememberedOnce ==
  \A m, n \in kept : m.of = n.of /\ m.of \in Checks => m = n

(* A candidate that reads approved or active has its memory or its card,    *)
(* whatever is killed between the listing and the last promotion.           *)
ApprovedIsKept ==
  \A c \in Candidates : row[c] \in {"approved", "active"} => \E m \in kept : m.of = c

(* What was rejected or put off is not remembered, and what is remembered   *)
(* was not, unless two decisions overlapped: a memory whose candidate reads *)
(* rejected comes of a decision made on a state that was no longer there.   *)
DecisionsAgree ==
  \A m \in kept : row[m.of] \in {"candidate", "proposed", "deferred", "rejected"}
                    => m.of \in raced

(* When a DONE run comes to its end nothing the final best state proved is  *)
(* left waiting, whatever operators did to other candidates meanwhile.      *)
NothingForgotten ==
  pc = "down" /\ whole /\ AutoPromote =>
    \A k \in Reusable : row[k] = "proposed" /\ made[k] = best => k \in aged
=============================================================================
