---------------------------- MODULE MissionPlan -----------------------------
(***************************************************************************)
(* The plan of one loop, as MissionPlanner.plan builds it from the         *)
(* candidates it found.  Feature candidates are 1..n in the planner's sort *)
(* order (tier, score, id), needs[f] are the candidates f refers to, and   *)
(* the ledger-only candidates n+1..n+m come after them in their own order. *)
(***************************************************************************)
EXTENDS Naturals, Sequences, SequencesExt, FiniteSetsExt

Candidates(needs) == DOMAIN needs

(* The candidates in the planner's order.                                   *)
Ordered(needs) == [f \in Candidates(needs) |-> f]

(* What is known to be needed, and what that needs.                         *)
Further(needs, seen) == seen \cup UNION {needs[g] : g \in seen}

(* Everything f needs, directly or not.                                     *)
Ancestors(needs, f) ==
  FoldLeft(LAMBDA seen, turn : Further(needs, seen), needs[f], Ordered(needs))

Cyclic(needs) == \E f \in Candidates(needs) : f \in Ancestors(needs, f)

(* Kahn's order: of what is ready, always the first in the base order.      *)
Ready(needs, base, done) ==
  {i \in DOMAIN base : /\ base[i] \notin ToSet(done)
                       /\ needs[base[i]] \cap ToSet(base) \subseteq ToSet(done)}

TakeReady(needs, base, done) ==
  IF Ready(needs, base, done) = {} THEN done
  ELSE Append(done, base[Min(Ready(needs, base, done))])

Topological(needs, base) ==
  FoldLeft(LAMBDA done, turn : TakeReady(needs, base, done), <<>>, base)

(* The elements of seq that are in S, in seq's order.                       *)
Only(seq, S) ==
  FoldLeft(LAMBDA kept, x : IF x \in S THEN Append(kept, x) ELSE kept, <<>>, seq)

(* Mutant: a feature is selected without what it needs.                     *)
ClosureAlone(needs, f) == <<f>>

(* f after everything it needs.                                             *)
Closure(needs, f) ==
  Topological(needs, Only(Ordered(needs), {f} \cup Ancestors(needs, f)))

(* What f and its closure add, as far as there are slots.                   *)
Admit(needs, limit, chosen, f) ==
  LET missing == Only(Closure(needs, f), Candidates(needs) \ ToSet(chosen))
  IN chosen \o SubSeq(missing, 1, Min({limit - Len(chosen), Len(missing)}))

(* Candidates in order, each after its closure, until the slots are taken.  *)
SelectFeatures(needs, limit) ==
  FoldLeft(LAMBDA chosen, f : Admit(needs, limit, chosen, f), <<>>, Ordered(needs))

(* The lanes share the slots: one slot for the ledger, or every other loop  *)
(* when there is but one slot.                                              *)
LedgerSlots(loop, count, features, ledger) ==
  CASE ledger = 0 -> 0
    [] ledger > 0 /\ features = 0 -> Min({count, ledger})
    [] ledger > 0 /\ features > 0 /\ count = 1 -> IF loop % 2 = 0 THEN 1 ELSE 0
    [] OTHER -> 1

(* Mutant: the first ledger candidate is always first.                      *)
RotationNone(loop, count, features) == 0

Rotation(loop, count, features) ==
  IF features > 0 /\ count = 1 THEN Max({1, loop \div 2}) - 1 ELSE loop - 1

SelectLedger(first, ledger, limit, turn) ==
  [i \in 1..Min({limit, ledger}) |-> first + ((turn + i - 1) % ledger)]

Plan(needs, ledger, cap, loop) ==
  LET features == Cardinality(Candidates(needs))
      count == Min({cap, features + ledger})
      slots == LedgerSlots(loop, count, features, ledger)
      chosen == IF count = 0 THEN <<>>
                ELSE Topological(needs, SelectFeatures(needs, Min({count - slots, features})))
  IN chosen \o SelectLedger(features + 1, ledger, count - Len(chosen),
                            Rotation(loop, count, features))

(* What an assignment of the plan waits for.                                *)
DependsOn(needs, plan, job) ==
  IF job \in Candidates(needs) THEN needs[job] \cap ToSet(plan) ELSE {}
=============================================================================
