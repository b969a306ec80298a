---------------------------- MODULE DispatchProofs ----------------------------
(***************************************************************************)
(* Proofs about the mission planner and the work phase, for every backlog,  *)
(* every number of drafts, retries and tokens, and every answer.  The       *)
(* planner and the scheduler are folds.  A fold is a recursive function on  *)
(* the sets of indices it has gone through, so its value is reached by a    *)
(* trace with one state per index: FoldTrace gives the trace, Induction     *)
(* (for sets, by the least element outside) what holds along it. Ancestors  *)
(* is shown to be the least closed set, Topological to sort, SelectFeatures *)
(* to select closed sets, and Plan to be sound; the second order the        *)
(* scheduler gives a plan is shown to be the plan.  The invariants of       *)
(* Dispatch rest on these facts alone.                                      *)
(***************************************************************************)
EXTENDS Dispatch, SequenceTheorems, FiniteSetTheorems, WellFoundedInduction, TLAPS

(* Induction up to n, for a set instead of a predicate.                     *)
LEMMA Induction ==
  ASSUME NEW n \in Nat, NEW S, 0 \in S, \A k \in 0..(n - 1) : k \in S => k + 1 \in S
  PROVE  0..n \subseteq S
<1> SUFFICES ASSUME NEW z \in 0..n, z \notin S PROVE FALSE
  OBVIOUS
<1> DEFINE R == {ss \in Nat \X Nat : ss[1] < ss[2]}
           T == {k \in 0..n : k \notin S}
<1>1. OpToRel(<, Nat) = R
  BY Zenon DEF OpToRel
<1>2. IsWellFoundedOn(R, Nat)
  BY <1>1, NatLessThanWellFounded, Zenon
<1>3. PICK x \in T : \A y \in T : ~ (<<y, x>> \in R)
  <2>1. T \subseteq Nat /\ T # {}
    OBVIOUS
  <2> HIDE DEF T, R
  <2> QED BY <1>2, <2>1, WFMin, Zenon
<1>4. \A y \in T : ~(y < x)
  <2> SUFFICES ASSUME NEW y \in T, y < x PROVE FALSE
    OBVIOUS
  <2>1. y \in Nat /\ x \in Nat
    OBVIOUS
  <2>2. <<y, x>> \in R
    BY <2>1
  <2> QED BY <2>2, <1>3
<1>5. x # 0 /\ x \in 0..n /\ x \notin S
  OBVIOUS
<1>6. x - 1 \in 0..(n - 1) /\ x = (x - 1) + 1 /\ x - 1 < x /\ x - 1 \in 0..n
  BY <1>5
<1>7. x - 1 \in S
  BY <1>4, <1>6
<1> QED BY <1>5, <1>6, <1>7

(* Max and Min of what a fold over a sequence and Kahn's order take.        *)
LEMMA MaxOfInterval ==
  ASSUME NEW k \in Nat \ {0}
  PROVE  1..k # {} /\ Max(1..k) = k /\ (1..k) \ {k} = 1..(k - 1)
<1>1. k \in 1..k /\ \A y \in 1..k : k >= y
  OBVIOUS
<1>2. \A x \in 1..k : (\A y \in 1..k : x >= y) => x = k
  BY <1>1
<1>3. Max(1..k) = k
  BY <1>1, <1>2 DEF Max
<1> QED BY <1>1, <1>3

(* The largest of a set of numbers is one of them.                          *)
LEMMA MaxIsMember ==
  ASSUME NEW n \in Nat, NEW s \in SUBSET (1..n), s # {}
  PROVE  Max(s) \in s /\ \A y \in s : Max(s) >= y
<1> DEFINE Top(t) == \E x \in t : \A y \in t : x >= y
           S == {k \in Nat : \A t \in SUBSET (1..k) : t # {} => Top(t)}
<1>1. 0 \in S
  <2>1. 1..0 = {}
    OBVIOUS
  <2> QED BY <2>1
<1>2. ASSUME NEW k \in 0..(n - 1), k \in S PROVE k + 1 \in S
  <2> SUFFICES ASSUME NEW t \in SUBSET (1..(k + 1)), t # {} PROVE Top(t)
    OBVIOUS
  <2>1. CASE k + 1 \in t
    BY <2>1
  <2>2. CASE k + 1 \notin t
    <3>1. t \in SUBSET (1..k)
      BY <2>2
    <3> QED BY <1>2, <3>1
  <2> QED BY <2>1, <2>2
<1>3. n \in S
  <2> HIDE DEF S
  <2> QED BY <1>1, <1>2, Induction
<1> QED BY <1>3 DEF Max

(* So is the smallest, and nothing in the set is below it.                  *)
LEMMA MinIsMember ==
  ASSUME NEW n \in Nat, NEW s \in SUBSET (1..n), s # {}
  PROVE  Min(s) \in s /\ \A y \in s : Min(s) <= y
<1> DEFINE Bottom(t) == \E x \in t : \A y \in t : x <= y
           S == {k \in Nat : \A t \in SUBSET (1..k) : t # {} => Bottom(t)}
<1>1. 0 \in S
  <2>1. 1..0 = {}
    OBVIOUS
  <2> QED BY <2>1
<1>2. ASSUME NEW k \in 0..(n - 1), k \in S PROVE k + 1 \in S
  <2> SUFFICES ASSUME NEW t \in SUBSET (1..(k + 1)), t # {} PROVE Bottom(t)
    OBVIOUS
  <2>1. CASE t \ {k + 1} # {}
    <3>1. t \ {k + 1} \in SUBSET (1..k)
      OBVIOUS
    <3>2. PICK x \in t \ {k + 1} : \A y \in t \ {k + 1} : x <= y
      BY <1>2, <2>1, <3>1
    <3> QED BY <3>2
  <2>2. CASE t \ {k + 1} = {}
    <3>1. k + 1 \in t /\ \A y \in t : y = k + 1
      BY <2>2
    <3>2. k + 1 \in Nat
      OBVIOUS
    <3> QED BY <3>1, <3>2
  <2> QED BY <2>1, <2>2
<1>3. n \in S
  <2> HIDE DEF S
  <2> QED BY <1>1, <1>2, Induction
<1> QED BY <1>3 DEF Min

(* A fold over a sequence of n elements is defined: there is a function as  *)
(* Folds asks for, whatever the step.                                       *)
StepOn(step, X, n) == step \in [X \X (1..n) -> X]

FoldsTo(f, start, step, s) ==
  f[s] = IF s = {} THEN start ELSE step[<<f[s \ {Max(s)}], Max(s)>>]

(* There is a function that folds every part of 1..n, the largest index     *)
(* last.                                                                    *)
LEMMA FoldExists ==
  ASSUME NEW X, NEW start \in X, NEW n \in Nat, NEW step \in [X \X (1..n) -> X]
  PROVE  \E f \in [SUBSET (1..n) -> X] : \A s \in SUBSET (1..n) : FoldsTo(f, start, step, s)
<1> DEFINE Good(f, k) == \A s \in SUBSET (1..k) : FoldsTo(f, start, step, s)
           S == {k \in Nat : \E f \in [SUBSET (1..k) -> X] : Good(f, k)}
<1>1. 0 \in S
  <2>1. 1..0 = {}
    OBVIOUS
  <2> DEFINE g == [s \in SUBSET (1..0) |-> start]
  <2>2. g \in [SUBSET (1..0) -> X] /\ Good(g, 0)
    BY <2>1 DEF FoldsTo
  <2> QED BY <2>2
<1>2. ASSUME NEW k \in 0..(n - 1), k \in S PROVE k + 1 \in S
  <2>1. PICK f \in [SUBSET (1..k) -> X] : Good(f, k)
    BY <1>2
  <2> DEFINE g == [s \in SUBSET (1..(k + 1)) |->
                     IF k + 1 \in s THEN step[<<f[s \ {k + 1}], k + 1>>] ELSE f[s]]
  <2>2. ASSUME NEW s \in SUBSET (1..(k + 1))
        PROVE  /\ k + 1 \notin s => s \in SUBSET (1..k)
               /\ s \ {k + 1} \in SUBSET (1..k)
               /\ k + 1 \in s => Max(s) = k + 1
               /\ k + 1 \notin s /\ s # {} => Max(s) \in 1..k /\ Max(s) \in s
    <3>1. s # {} => Max(s) \in s /\ \A y \in s : Max(s) >= y
      BY MaxIsMember, k + 1 \in Nat
    <3>2. \A y \in s : y \in 1..(k + 1)
      OBVIOUS
    <3>3. ASSUME k + 1 \in s PROVE Max(s) = k + 1
      <4>1. Max(s) \in 1..(k + 1) /\ Max(s) >= k + 1
        BY <3>1, <3>2, <3>3
      <4> QED BY <4>1
    <3>4. ASSUME k + 1 \notin s, s # {} PROVE Max(s) \in 1..k /\ Max(s) \in s
      <4>1. Max(s) \in 1..(k + 1) /\ Max(s) # k + 1
        BY <3>1, <3>2, <3>4
      <4> QED BY <4>1, <3>1, <3>4
    <3>5. s \ {k + 1} \in SUBSET (1..k)
      BY <3>2
    <3> QED BY <3>3, <3>4, <3>5
  <2>3. g \in [SUBSET (1..(k + 1)) -> X]
    BY <2>1, <2>2
  <2>4. ASSUME NEW s \in SUBSET (1..(k + 1)) PROVE FoldsTo(g, start, step, s)
    <3>1. CASE k + 1 \in s
      <4>1. g[s \ {k + 1}] = f[s \ {k + 1}]
        BY <2>2
      <4> QED BY <3>1, <2>2, <4>1 DEF FoldsTo
    <3>2. CASE k + 1 \notin s
      <4>1. g[s] = f[s] /\ s \in SUBSET (1..k)
        BY <2>2, <3>2
      <4>2. s = {} \/ g[s \ {Max(s)}] = f[s \ {Max(s)}]
        BY <2>2, <3>2
      <4> HIDE DEF g
      <4> QED BY <4>1, <4>2, <2>1 DEF FoldsTo
    <3> QED BY <3>1, <3>2
  <2>5. \E h \in [SUBSET (1..(k + 1)) -> X] : Good(h, k + 1)
    <3> HIDE DEF g
    <3> QED BY <2>3, <2>4
  <2> QED BY <2>5
<1>3. n \in S
  <2> HIDE DEF S
  <2> QED BY <1>1, <1>2, Induction
<1> QED BY <1>3

(* What such a function computes along a sequence: one step for each        *)
(* element.  rest is the fold's own step, which agrees with step on X.      *)
FoldOf(g, start, rest, n) ==
  g = [s \in SUBSET (1..n) |-> IF s = {} THEN start ELSE rest[s]]

Takes(g, rest, step, X, n) ==
  \A s \in SUBSET (1..n) : s # {} /\ g[s \ {Max(s)}] \in X =>
    rest[s] = step[<<g[s \ {Max(s)}], Max(s)>>]

Traced(h, X, start, step, n) ==
  h \in [0..n -> X] /\ h[0] = start /\ \A k \in 1..n : h[k] = step[<<h[k - 1], k>>]

(* A fold goes through the states of its prefixes, one step at a time.      *)
LEMMA FoldTrace ==
  ASSUME NEW X, NEW start \in X, NEW n \in Nat, NEW step, StepOn(step, X, n),
         NEW g, NEW rest, FoldOf(g, start, rest, n), Takes(g, rest, step, X, n)
  PROVE  \E h : Traced(h, X, start, step, n) /\ h[n] = g[1..n]
<1> USE DEF FoldOf, Takes, StepOn
<1> DEFINE h == [k \in 0..n |-> g[1..k]]
           S == {k \in 0..n : h[k] \in X}
<1>1. h[0] = start
  <2>1. 1..0 = {} /\ 1..0 \in SUBSET (1..n)
    OBVIOUS
  <2> QED BY <2>1
<1>2. ASSUME NEW k \in 1..n, h[k - 1] \in X PROVE h[k] = step[<<h[k - 1], k>>]
  <2>1. /\ 1..k \in SUBSET (1..n)
        /\ 1..k # {} /\ Max(1..k) = k /\ (1..k) \ {k} = 1..(k - 1)
    BY MaxOfInterval
  <2>2. h[k] = g[1..k] /\ h[k - 1] = g[1..(k - 1)]
    OBVIOUS
  <2>3. g[1..k] = rest[1..k]
    BY <2>1
  <2>4. rest[1..k] = step[<<g[1..(k - 1)], k>>]
    <3>1. g[(1..k) \ {Max(1..k)}] = g[1..(k - 1)] /\ g[1..(k - 1)] \in X
      BY <1>2, <2>1, <2>2
    <3>2. rest[1..k] = step[<<g[(1..k) \ {Max(1..k)}], Max(1..k)>>]
      BY <2>1, <3>1
    <3> QED BY <2>1, <3>1, <3>2
  <2> QED BY <2>2, <2>3, <2>4
<1>3. 0..n \subseteq S
  <2>1. 0 \in S
    BY <1>1
  <2>2. ASSUME NEW k \in 0..(n - 1), k \in S PROVE k + 1 \in S
    <3>1. h[k + 1] = step[<<h[k], k + 1>>]
      BY <1>2, <2>2, k + 1 \in 1..n, (k + 1) - 1 = k
    <3> HIDE DEF h
    <3> QED BY <2>2, <3>1
  <2> HIDE DEF S
  <2> QED BY <2>1, <2>2, Induction
<1>4. h \in [0..n -> X]
  BY <1>3
<1>5. ASSUME NEW k \in 1..n PROVE h[k] = step[<<h[k - 1], k>>]
  <2>1. k - 1 \in 0..n
    OBVIOUS
  <2>2. h[k - 1] \in X
    <3> HIDE DEF h
    <3> QED BY <1>4, <2>1
  <2> QED BY <1>2, <2>2
<1>6. h[n] = g[1..n]
  OBVIOUS
<1> HIDE DEF h
<1> QED BY <1>1, <1>4, <1>5, <1>6 DEF Traced

-----------------------------------------------------------------------------
(* What a feature needs.                                                    *)
LEMMA AncestorsSteps ==
  ASSUME NEW n \in Nat, NEW refers \in [1..n -> SUBSET (1..n)], NEW f \in 1..n
  PROVE  \E h \in [0..n -> SUBSET (1..n)] :
           /\ h[0] = refers[f] /\ h[n] = Ancestors(refers, f)
           /\ \A k \in 1..n : h[k] = Further(refers, h[k - 1])
<1> DEFINE op(seen, turn) == Further(refers, seen)
           X == SUBSET (1..n)
           start == refers[f]
           seq == Ordered(refers)
           Fold(g) == [s \in SUBSET (DOMAIN seq) |->
                         IF s = {} THEN start ELSE op(g[s \ {Max(s)}], seq[Max(s)])]
           step == [p \in X \X (1..n) |-> op(p[1], seq[p[2]])]
<1>1. Ancestors(refers, f) = (CHOOSE g : g = Fold(g))[DOMAIN seq]
  <2>1. Ancestors(refers, f) = FoldLeft(op, start, seq)
    BY Zenon DEF Ancestors
  <2> QED BY <2>1, Zenon DEF FoldLeft, MapThenFoldSet
<1>2. DOMAIN seq = 1..n
  BY DEF Ordered, Candidates
<1>3. start \in X /\ \A x \in X, k \in 1..n : op(x, seq[k]) \in X
  BY DEF Further
<1> HIDE DEF X, start, op, seq
<1>4. step \in [X \X (1..n) -> X]
  BY <1>3
<1>5. PICK g : g = Fold(g) /\ g = CHOOSE f1 : f1 = Fold(f1)
  <2>1. PICK g \in [SUBSET (1..n) -> X] : \A s \in SUBSET (1..n) : FoldsTo(g, start, step, s)
    BY <1>3, <1>4, FoldExists
  <2>2. ASSUME NEW s \in SUBSET (1..n)
        PROVE  g[s] = IF s = {} THEN start ELSE op(g[s \ {Max(s)}], seq[Max(s)])
    <3>1. s # {} => Max(s) \in 1..n
      BY MaxIsMember
    <3> QED BY <2>1, <3>1 DEF FoldsTo
  <2>3. g = Fold(g)
    BY <1>2, <2>1, <2>2
  <2> HIDE DEF Fold
  <2> QED BY <2>3
<1> DEFINE rest == [s \in SUBSET (1..n) |-> op(g[s \ {Max(s)}], seq[Max(s)])]
<1>6. FoldOf(g, start, rest, n)
  BY <1>2, <1>5 DEF FoldOf
<1>7. Takes(g, rest, step, X, n)
  BY MaxIsMember DEF Takes
<1>8. PICK h : Traced(h, X, start, step, n) /\ h[n] = g[1..n]
  <2> HIDE DEF rest, step, Fold
  <2>1. start \in X
    BY <1>3
  <2>2. StepOn(step, X, n)
    BY <1>4 DEF StepOn
  <2> QED BY <2>1, <2>2, <1>6, <1>7, FoldTrace
<1>9. ASSUME NEW k \in 1..n PROVE h[k] = op(h[k - 1], seq[k])
  <2>1. h[k - 1] \in X
    BY <1>8, k - 1 \in 0..n DEF Traced
  <2> QED BY <1>8, <2>1 DEF Traced
<1>10. Ancestors(refers, f) = h[n]
  <2> HIDE DEF Fold
  <2> QED BY <1>1, <1>2, <1>5, <1>8
<1> QED BY <1>8, <1>9, <1>10 DEF X, start, op, Traced

(* The candidates 1..n and what each refers to.                             *)
Graph(n, refers) == n \in Nat /\ refers \in [1..n -> SUBSET (1..n)]

Closed(refers, S) == \A g \in S : refers[g] \subseteq S

(* What is needed contains what that needs: n turns find everything, since  *)
(* each finds another candidate or the last has been found.                 *)
LEMMA AncestorsClosed ==
  ASSUME NEW n, NEW refers, Graph(n, refers), NEW f \in 1..n
  PROVE  /\ Ancestors(refers, f) \in SUBSET (1..n) /\ refers[f] \subseteq Ancestors(refers, f)
         /\ Closed(refers, Ancestors(refers, f))
<1> n \in Nat /\ refers \in [1..n -> SUBSET (1..n)]
  BY DEF Graph
<1>1. PICK h \in [0..n -> SUBSET (1..n)] :
        /\ h[0] = refers[f] /\ h[n] = Ancestors(refers, f)
        /\ \A k \in 1..n : h[k] = Further(refers, h[k - 1])
  BY AncestorsSteps
<1>2. ASSUME NEW k \in 0..n PROVE IsFiniteSet(h[k]) /\ Cardinality(h[k]) \in Nat /\ h[k] \subseteq 1..n
  <2>1. h[k] \in SUBSET (1..n) /\ IsFiniteSet(1..n)
    BY FS_Interval
  <2> QED BY <2>1, FS_Subset, FS_CardinalityType
<1>3. ASSUME NEW k \in 0..(n - 1)
      PROVE  h[k + 1] = Further(refers, h[k]) /\ h[k] \subseteq h[k + 1]
  <2>1. k + 1 \in 1..n /\ (k + 1) - 1 = k
    OBVIOUS
  <2>2. h[k + 1] = Further(refers, h[k])
    BY <1>1, <2>1
  <2> QED BY <2>2 DEF Further
<1> DEFINE Found(k) == refers[f] \subseteq h[k]
           Done(k) == Further(refers, h[k]) = h[k]
           S == {k \in 0..n : Found(k) /\ (Done(k) \/ Cardinality(h[k]) >= k)}
<1>4. 0..n \subseteq S
  <2>1. 0 \in S
    BY <1>1, <1>2
  <2>2. ASSUME NEW k \in 0..(n - 1), k \in S PROVE k + 1 \in S
    <3>1. Found(k + 1)
      BY <1>3, <2>2
    <3>2. CASE Done(k)
      BY <1>3, <3>1, <3>2
    <3>3. CASE ~Done(k)
      <4>1. h[k] # h[k + 1] /\ h[k] \in SUBSET h[k + 1]
        BY <1>3, <3>3
      <4>2. Cardinality(h[k]) <= Cardinality(h[k + 1]) /\ Cardinality(h[k]) # Cardinality(h[k + 1])
        BY <1>2, <4>1, FS_Subset
      <4>3. Cardinality(h[k]) >= k
        BY <2>2, <3>3
      <4>4. Cardinality(h[k]) \in Nat /\ Cardinality(h[k + 1]) \in Nat
        BY <1>2
      <4> HIDE DEF Found, Done
      <4> QED BY <3>1, <4>2, <4>3, <4>4
    <3> QED BY <3>2, <3>3
  <2> HIDE DEF S
  <2> QED BY <2>1, <2>2, Induction
<1>5. n \in S
  BY <1>4
<1>6. Further(refers, h[n]) = h[n]
  <2>1. CASE Cardinality(h[n]) >= n
    <3>1. IsFiniteSet(1..n) /\ Cardinality(1..n) = n
      BY FS_Interval
    <3>2. Cardinality(h[n]) <= n
      BY <1>2, <3>1, FS_Subset
    <3>3. h[n] = 1..n
      BY <1>2, <3>1, <3>2, <2>1, FS_Subset
    <3> QED BY <3>3 DEF Further
  <2> QED BY <1>5, <2>1
<1>7. Closed(refers, h[n])
  BY <1>6 DEF Further, Closed
<1> QED BY <1>1, <1>2, <1>5, <1>7

(* And it contains nothing else.                                            *)
LEMMA AncestorsLeast ==
  ASSUME NEW n, NEW refers, Graph(n, refers), NEW f \in 1..n, NEW S, Closed(refers, S),
         refers[f] \subseteq S
  PROVE  Ancestors(refers, f) \subseteq S
<1> n \in Nat /\ refers \in [1..n -> SUBSET (1..n)]
  BY DEF Graph
<1>1. PICK h \in [0..n -> SUBSET (1..n)] :
        /\ h[0] = refers[f] /\ h[n] = Ancestors(refers, f)
        /\ \A k \in 1..n : h[k] = Further(refers, h[k - 1])
  BY AncestorsSteps
<1> DEFINE T == {k \in 0..n : h[k] \subseteq S}
<1>2. 0 \in T
  BY <1>1
<1>3. ASSUME NEW k \in 0..(n - 1), k \in T PROVE k + 1 \in T
  <2>1. k + 1 \in 1..n /\ (k + 1) - 1 = k
    OBVIOUS
  <2>2. h[k + 1] = Further(refers, h[k]) /\ h[k] \subseteq S
    BY <1>1, <2>1, <1>3
  <2> QED BY <2>1, <2>2 DEF Further, Closed
<1>4. n \in T
  <2> HIDE DEF T
  <2>1. 0..n \subseteq T
    BY <1>2, <1>3, Induction
  <2> QED BY <2>1
<1> QED BY <1>1, <1>4

(* What f needs is what it refers to, and what that needs.                  *)
LEMMA AncestorsOf ==
  ASSUME NEW n, NEW refers, Graph(n, refers), NEW f \in 1..n
  PROVE  Ancestors(refers, f) = refers[f] \cup UNION {Ancestors(refers, g) : g \in refers[f]}
<1> refers[f] \subseteq 1..n
  BY DEF Graph
<1> DEFINE S == refers[f] \cup UNION {Ancestors(refers, g) : g \in refers[f]}
<1>1. \A g \in refers[f] : /\ refers[g] \subseteq Ancestors(refers, g)
                          /\ Closed(refers, Ancestors(refers, g))
  BY AncestorsClosed
<1>2. Closed(refers, S)
  BY <1>1 DEF Closed
<1>3. Ancestors(refers, f) \subseteq S
  <2> HIDE DEF S
  <2>1. refers[f] \subseteq S
    BY DEF S
  <2> QED BY <1>2, <2>1, AncestorsLeast
<1>4. refers[f] \subseteq Ancestors(refers, f) /\ Closed(refers, Ancestors(refers, f))
  BY AncestorsClosed
<1>5. ASSUME NEW g \in refers[f] PROVE Ancestors(refers, g) \subseteq Ancestors(refers, f)
  <2>1. refers[g] \subseteq Ancestors(refers, f)
    BY <1>4 DEF Closed
  <2> QED BY <2>1, <1>4, AncestorsLeast
<1> QED BY <1>3, <1>4, <1>5

Distinct(seq) == \A i, j \in 1..Len(seq) : seq[i] = seq[j] => i = j

(* What Only does, element by element.                                      *)
OnlySteps(h, seq, S) ==
  /\ h[0] = <<>> /\ h[Len(seq)] = Only(seq, S)
  /\ \A k \in 1..Len(seq) : h[k] = IF seq[k] \in S THEN Append(h[k - 1], seq[k]) ELSE h[k - 1]

(* A filter goes through what it keeps of each prefix.                      *)
LEMMA OnlyTrace ==
  ASSUME NEW Y, NEW seq \in Seq(Y), NEW S
  PROVE  \E h \in [0..Len(seq) -> Seq(Y)] : OnlySteps(h, seq, S)
<1> DEFINE op(kept, x) == IF x \in S THEN Append(kept, x) ELSE kept
           X == Seq(Y)
           start == <<>>
           n == Len(seq)
           Fold(g) == [s \in SUBSET (DOMAIN seq) |->
                         IF s = {} THEN start ELSE op(g[s \ {Max(s)}], seq[Max(s)])]
           step == [p \in X \X (1..n) |-> op(p[1], seq[p[2]])]
<1>1. Only(seq, S) = (CHOOSE g : g = Fold(g))[DOMAIN seq]
  <2>1. Only(seq, S) = FoldLeft(op, start, seq)
    BY Zenon DEF Only
  <2> QED BY <2>1, Zenon DEF FoldLeft, MapThenFoldSet
<1>2. DOMAIN seq = 1..n /\ n \in Nat
  OBVIOUS
<1>3. start \in X /\ \A x \in X, k \in 1..n : op(x, seq[k]) \in X
  OBVIOUS
<1> HIDE DEF X, start, op, n
<1>4. step \in [X \X (1..n) -> X]
  BY <1>3
<1>5. PICK g : g = Fold(g) /\ g = CHOOSE f1 : f1 = Fold(f1)
  <2>1. PICK g \in [SUBSET (1..n) -> X] : \A s \in SUBSET (1..n) : FoldsTo(g, start, step, s)
    BY <1>2, <1>3, <1>4, FoldExists
  <2>2. ASSUME NEW s \in SUBSET (1..n)
        PROVE  g[s] = IF s = {} THEN start ELSE op(g[s \ {Max(s)}], seq[Max(s)])
    <3>1. s # {} => Max(s) \in 1..n
      BY <1>2, MaxIsMember
    <3> QED BY <2>1, <3>1 DEF FoldsTo
  <2>3. g = Fold(g)
    BY <1>2, <2>1, <2>2
  <2> HIDE DEF Fold
  <2> QED BY <2>3
<1> DEFINE rest == [s \in SUBSET (1..n) |-> op(g[s \ {Max(s)}], seq[Max(s)])]
<1>6. FoldOf(g, start, rest, n)
  BY <1>2, <1>5 DEF FoldOf
<1>7. Takes(g, rest, step, X, n)
  BY <1>2, MaxIsMember DEF Takes
<1>8. PICK h : Traced(h, X, start, step, n) /\ h[n] = g[1..n]
  <2> HIDE DEF rest, step, Fold
  <2>1. start \in X /\ n \in Nat
    BY <1>2, <1>3
  <2>2. StepOn(step, X, n)
    BY <1>4 DEF StepOn
  <2> QED BY <2>1, <2>2, <1>6, <1>7, FoldTrace
<1>9. ASSUME NEW k \in 1..n PROVE h[k] = op(h[k - 1], seq[k])
  <2>1. h[k - 1] \in X
    BY <1>2, <1>8, k - 1 \in 0..n DEF Traced
  <2> QED BY <1>8, <2>1 DEF Traced
<1>10. Only(seq, S) = h[n]
  <2> HIDE DEF Fold
  <2> QED BY <1>1, <1>2, <1>5, <1>8
<1>11. h \in [0..n -> X] /\ h[0] = start
  BY <1>8 DEF Traced
<1> QED BY <1>9, <1>10, <1>11 DEF X, start, op, n, OnlySteps

(* The elements of r are those of seq that are in S, each after all that    *)
(* come before it in seq.                                                   *)
KeepsOrder(r, seq, S, k) ==
  /\ Len(r) <= k
  /\ \A i \in 1..Len(r) : \E j \in 1..k :
       /\ r[i] = seq[j] /\ seq[j] \in S
       /\ \A l \in 1..(j - 1) : seq[l] \in S => \E m \in 1..(i - 1) : r[m] = seq[l]
  /\ \A l \in 1..k : seq[l] \in S => \E m \in 1..Len(r) : r[m] = seq[l]
  /\ Distinct(seq) => Distinct(r)

(* A filter keeps what is in the set, in the order of the sequence, once    *)
(* each.                                                                    *)
LEMMA OnlyKeepsOrder ==
  ASSUME NEW Y, NEW seq \in Seq(Y), NEW S
  PROVE  Only(seq, S) \in Seq(Y) /\ KeepsOrder(Only(seq, S), seq, S, Len(seq))
<1> DEFINE n == Len(seq)
<1> n \in Nat
  OBVIOUS
<1>1. PICK h \in [0..n -> Seq(Y)] : OnlySteps(h, seq, S)
  BY OnlyTrace
<1> DEFINE T == {k \in 0..n : KeepsOrder(h[k], seq, S, k)}
<1>2. 0 \in T
  BY <1>1 DEF OnlySteps, KeepsOrder, Distinct
<1>3. ASSUME NEW k \in 0..(n - 1), k \in T PROVE k + 1 \in T
  <2> DEFINE r == h[k]
             x == seq[k + 1]
             s == h[k + 1]
  <2>1. k + 1 \in 1..n /\ (k + 1) - 1 = k /\ k \in 0..n /\ k + 1 \in 0..n
    OBVIOUS
  <2>2. KeepsOrder(r, seq, S, k) /\ r \in Seq(Y) /\ s = IF x \in S THEN Append(r, x) ELSE r
    BY <1>1, <1>3, <2>1 DEF OnlySteps
  <2> HIDE DEF r, s
  <2>3. CASE x \notin S
    BY <2>2, <2>3, <2>1 DEF KeepsOrder, s
  <2>4. CASE x \in S
    <3>1. s = Append(r, x) /\ Len(s) = Len(r) + 1 /\ s[Len(r) + 1] = x /\ Len(r) \in Nat
          /\ \A i \in 1..Len(r) : s[i] = r[i]
      BY <2>2, <2>4
    <3>2. Len(s) <= k + 1
      BY <3>1, <2>2 DEF KeepsOrder
    <3>3. ASSUME NEW i \in 1..Len(s) PROVE
            \E j \in 1..(k + 1) :
              /\ s[i] = seq[j] /\ seq[j] \in S
              /\ \A l \in 1..(j - 1) : seq[l] \in S => \E m \in 1..(i - 1) : s[m] = seq[l]
      <4>1. CASE i = Len(r) + 1
        <5>1. ASSUME NEW l \in 1..k, seq[l] \in S PROVE \E m \in 1..(i - 1) : s[m] = seq[l]
          <6>1. PICK m \in 1..Len(r) : r[m] = seq[l]
            BY <2>2, <5>1 DEF KeepsOrder
          <6> QED BY <3>1, <4>1, <6>1
        <5> QED BY <3>1, <4>1, <5>1, <2>4, <2>1
      <4>2. CASE i \in 1..Len(r)
        <5>1. PICK j \in 1..k :
                /\ r[i] = seq[j] /\ seq[j] \in S
                /\ \A l \in 1..(j - 1) : seq[l] \in S => \E m \in 1..(i - 1) : r[m] = seq[l]
          BY <2>2, <4>2 DEF KeepsOrder
        <5>2. \A m \in 1..(i - 1) : s[m] = r[m]
          BY <3>1, <4>2
        <5> QED BY <5>1, <5>2, <3>1, <4>2
      <4> QED BY <4>1, <4>2, <3>1
    <3>4. ASSUME NEW l \in 1..(k + 1), seq[l] \in S PROVE \E m \in 1..Len(s) : s[m] = seq[l]
      <4>1. CASE l = k + 1
        BY <4>1, <3>1, Len(s) \in 1..Len(s)
      <4>2. CASE l \in 1..k
        <5>1. PICK m \in 1..Len(r) : r[m] = seq[l]
          BY <2>2, <3>4, <4>2 DEF KeepsOrder
        <5> QED BY <5>1, <3>1
      <4> QED BY <4>1, <4>2
    <3>5. ASSUME Distinct(seq) PROVE Distinct(s)
      <4>1. Distinct(r)
        BY <3>5, <2>2 DEF KeepsOrder
      <4>2. \A i \in 1..Len(r) : r[i] # x
        <5> SUFFICES ASSUME NEW i \in 1..Len(r) PROVE r[i] # x
          OBVIOUS
        <5>1. PICK j \in 1..k : r[i] = seq[j]
          BY <2>2 DEF KeepsOrder
        <5>2. j \in 1..n /\ k + 1 \in 1..n /\ j # k + 1
          BY <5>1, <2>1
        <5>3. seq[j] # seq[k + 1]
          BY <5>2, <3>5 DEF Distinct
        <5> QED BY <5>1, <5>3
      <4> QED BY <4>1, <4>2, <3>1 DEF Distinct
    <3> QED BY <3>2, <3>3, <3>4, <3>5, <2>1 DEF KeepsOrder, s
  <2> QED BY <2>3, <2>4
<1>4. n \in T
  <2> HIDE DEF T
  <2>1. 0..n \subseteq T
    BY <1>2, <1>3, Induction
  <2> QED BY <2>1
<1>5. h[n] = Only(seq, S)
  BY <1>1 DEF OnlySteps
<1> QED BY <1>4, <1>5

(* What Kahn's order does, turn by turn.                                    *)
TopologicalSteps(h, refers, base) ==
  /\ h[0] = <<>> /\ h[Len(base)] = Topological(refers, base)
  /\ \A k \in 1..Len(base) : h[k] = TakeReady(refers, base, h[k - 1])

(* What is taken next was in the base and had not been taken.               *)
LEMMA ReadyIsNew ==
  ASSUME NEW Y, NEW base \in Seq(Y), NEW refers, NEW done \in Seq(Y), Ready(refers, base, done) # {}
  PROVE  \E i \in 1..Len(base) :
           /\ TakeReady(refers, base, done) = Append(done, base[i])
           /\ base[i] \notin ToSet(done) /\ refers[base[i]] \cap ToSet(base) \subseteq ToSet(done)
<1> DEFINE i == Min(Ready(refers, base, done))
<1>1. Ready(refers, base, done) \in SUBSET (1..Len(base))
  BY DEF Ready
<1>2. i \in Ready(refers, base, done)
  <2> DEFINE R == Ready(refers, base, done)
  <2>1. Len(base) \in Nat /\ R \in SUBSET (1..Len(base)) /\ R # {}
    BY <1>1
  <2> HIDE DEF R
  <2>2. Min(R) \in R
    BY <2>1, MinIsMember
  <2> QED BY <2>2 DEF R
<1>3. TakeReady(refers, base, done) = Append(done, base[i])
  BY DEF TakeReady
<1> HIDE DEF i
<1>4. i \in 1..Len(base) /\ base[i] \notin ToSet(done)
      /\ refers[base[i]] \cap ToSet(base) \subseteq ToSet(done)
  BY <1>2 DEF Ready
<1> QED BY <1>3, <1>4

(* Kahn's order goes through what it has taken after each turn.             *)
LEMMA TopologicalTrace ==
  ASSUME NEW Y, NEW base \in Seq(Y), NEW refers
  PROVE  \E h \in [0..Len(base) -> Seq(Y)] : TopologicalSteps(h, refers, base)
<1> DEFINE op(done, turn) == TakeReady(refers, base, done)
           X == Seq(Y)
           start == <<>>
           seq == base
           n == Len(seq)
           Fold(g) == [s \in SUBSET (DOMAIN seq) |->
                         IF s = {} THEN start ELSE op(g[s \ {Max(s)}], seq[Max(s)])]
           step == [p \in X \X (1..n) |-> op(p[1], seq[p[2]])]
<1>1. Topological(refers, base) = (CHOOSE g : g = Fold(g))[DOMAIN seq]
  <2>1. Topological(refers, base) = FoldLeft(op, start, seq)
    BY Zenon DEF Topological
  <2> QED BY <2>1, Zenon DEF FoldLeft, MapThenFoldSet
<1>2. DOMAIN seq = 1..n /\ n \in Nat
  OBVIOUS
<1>3. start \in X /\ \A x \in X, k \in 1..n : op(x, seq[k]) \in X
  <2> SUFFICES ASSUME NEW x \in X PROVE TakeReady(refers, base, x) \in X
    OBVIOUS
  <2>1. CASE Ready(refers, base, x) = {}
    BY <2>1 DEF TakeReady
  <2>2. CASE Ready(refers, base, x) # {}
    BY <2>2, ReadyIsNew
  <2> QED BY <2>1, <2>2
<1> HIDE DEF X, start, op, n
<1>4. step \in [X \X (1..n) -> X]
  BY <1>3
<1>5. PICK g : g = Fold(g) /\ g = CHOOSE f1 : f1 = Fold(f1)
  <2>1. PICK g \in [SUBSET (1..n) -> X] : \A s \in SUBSET (1..n) : FoldsTo(g, start, step, s)
    BY <1>2, <1>3, <1>4, FoldExists
  <2>2. ASSUME NEW s \in SUBSET (1..n)
        PROVE  g[s] = IF s = {} THEN start ELSE op(g[s \ {Max(s)}], seq[Max(s)])
    <3>1. s # {} => Max(s) \in 1..n
      BY <1>2, MaxIsMember
    <3> QED BY <2>1, <3>1 DEF FoldsTo
  <2>3. g = Fold(g)
    BY <1>2, <2>1, <2>2
  <2> HIDE DEF Fold
  <2> QED BY <2>3
<1> DEFINE rest == [s \in SUBSET (1..n) |-> op(g[s \ {Max(s)}], seq[Max(s)])]
<1>6. FoldOf(g, start, rest, n)
  BY <1>2, <1>5 DEF FoldOf
<1>7. Takes(g, rest, step, X, n)
  BY <1>2, MaxIsMember DEF Takes
<1>8. PICK h : Traced(h, X, start, step, n) /\ h[n] = g[1..n]
  <2> HIDE DEF rest, step, Fold
  <2>1. start \in X /\ n \in Nat
    BY <1>2, <1>3
  <2>2. StepOn(step, X, n)
    BY <1>4 DEF StepOn
  <2> QED BY <2>1, <2>2, <1>6, <1>7, FoldTrace
<1>9. ASSUME NEW k \in 1..n PROVE h[k] = op(h[k - 1], seq[k])
  <2>1. h[k - 1] \in X
    BY <1>2, <1>8, k - 1 \in 0..n DEF Traced
  <2> QED BY <1>8, <2>1 DEF Traced
<1>10. Topological(refers, base) = h[n]
  <2> HIDE DEF Fold
  <2> QED BY <1>1, <1>2, <1>5, <1>8
<1>11. h \in [0..n -> X] /\ h[0] = start
  BY <1>8 DEF Traced
<1> QED BY <1>9, <1>10, <1>11 DEF X, start, op, n, TopologicalSteps

(* Of base, and of what each element needs of it that comes first.          *)
SortedFrom(refers, base, done) ==
  /\ Distinct(done) /\ ToSet(done) \subseteq ToSet(base)
  /\ \A i \in 1..Len(done) : \A d \in refers[done[i]] \cap ToSet(base) :
       \E m \in 1..(i - 1) : done[m] = d

(* Taking what is ready puts it after what it needs of the base.            *)
LEMMA TakeReadySorts ==
  ASSUME NEW Y, NEW base \in Seq(Y), NEW refers, NEW done \in Seq(Y),
         SortedFrom(refers, base, done)
  PROVE  SortedFrom(refers, base, TakeReady(refers, base, done))
<1>1. CASE Ready(refers, base, done) = {}
  BY <1>1 DEF TakeReady
<1>2. CASE Ready(refers, base, done) # {}
  <2> DEFINE s == TakeReady(refers, base, done)
  <2>1. PICK i \in 1..Len(base) :
          /\ s = Append(done, base[i])
          /\ base[i] \notin ToSet(done) /\ refers[base[i]] \cap ToSet(base) \subseteq ToSet(done)
    BY <1>2, ReadyIsNew
  <2>2. /\ Len(s) = Len(done) + 1 /\ s[Len(done) + 1] = base[i] /\ Len(done) \in Nat
        /\ \A k \in 1..Len(done) : s[k] = done[k]
        /\ DOMAIN s = 1..(Len(done) + 1) /\ DOMAIN done = 1..Len(done)
    BY <2>1
  <2> HIDE DEF s
  <2>3. Distinct(s)
    <3>1. \A k \in 1..Len(done) : done[k] # base[i]
      BY <2>1, <2>2 DEF ToSet
    <3> QED BY <2>2, <3>1 DEF SortedFrom, Distinct
  <2>4. ToSet(s) \subseteq ToSet(base)
    <3>1. base[i] \in ToSet(base)
      BY DEF ToSet
    <3>2. ToSet(s) = ToSet(done) \cup {base[i]}
      BY <2>2 DEF ToSet
    <3> QED BY <3>1, <3>2 DEF SortedFrom
  <2>5. ASSUME NEW k \in 1..Len(s), NEW d \in refers[s[k]] \cap ToSet(base)
        PROVE  \E m \in 1..(k - 1) : s[m] = d
    <3>1. CASE k = Len(done) + 1
      <4>1. d \in ToSet(done)
        BY <2>1, <2>2, <2>5, <3>1
      <4>2. PICK m \in 1..Len(done) : done[m] = d
        BY <2>2, <4>1 DEF ToSet
      <4> QED BY <4>2, <2>2, <3>1
    <3>2. CASE k \in 1..Len(done)
      <4>1. d \in refers[done[k]] \cap ToSet(base)
        BY <2>2, <2>5, <3>2
      <4>2. PICK m \in 1..(k - 1) : done[m] = d
        BY <4>1, <3>2 DEF SortedFrom
      <4> QED BY <4>2, <2>2, <3>2
    <3> QED BY <3>1, <3>2, <2>2
  <2> QED BY <2>3, <2>4, <2>5 DEF SortedFrom, s
<1> QED BY <1>1, <1>2

(* What Kahn's order gives: nothing twice, nothing before what it needs.    *)
LEMMA TopologicalSorts ==
  ASSUME NEW Y, NEW base \in Seq(Y), NEW refers
  PROVE  /\ Topological(refers, base) \in Seq(Y)
         /\ SortedFrom(refers, base, Topological(refers, base))
         /\ Len(Topological(refers, base)) <= Len(base)
<1> DEFINE n == Len(base)
<1> n \in Nat
  OBVIOUS
<1>1. PICK h \in [0..n -> Seq(Y)] : TopologicalSteps(h, refers, base)
  BY TopologicalTrace
<1> DEFINE T == {k \in 0..n : SortedFrom(refers, base, h[k]) /\ Len(h[k]) <= k}
<1>2. 0 \in T
  <2>1. h[0] = <<>>
    BY <1>1 DEF TopologicalSteps
  <2>2. SortedFrom(refers, base, <<>>)
    BY DEF SortedFrom, Distinct, ToSet
  <2> QED BY <2>1, <2>2
<1>3. ASSUME NEW k \in 0..(n - 1), k \in T PROVE k + 1 \in T
  <2>1. k + 1 \in 1..n /\ (k + 1) - 1 = k /\ k \in 0..n
    OBVIOUS
  <2>2. h[k + 1] = TakeReady(refers, base, h[k])
    BY <1>1, <2>1 DEF TopologicalSteps
  <2>3. SortedFrom(refers, base, h[k + 1])
    BY <1>3, <2>1, <2>2, TakeReadySorts
  <2>4. h[k] \in Seq(Y) /\ (h[k + 1] = h[k] \/ \E i \in 1..n : h[k + 1] = Append(h[k], base[i]))
    <3>1. h[k] \in Seq(Y)
      BY <2>1
    <3>2. CASE Ready(refers, base, h[k]) = {}
      BY <2>2, <3>1, <3>2 DEF TakeReady
    <3>3. CASE Ready(refers, base, h[k]) # {}
      <4> DEFINE d == h[k]
      <4>1. d \in Seq(Y) /\ Ready(refers, base, d) # {}
        BY <3>1, <3>3
      <4> HIDE DEF d
      <4>2. \E i \in 1..n : TakeReady(refers, base, d) = Append(d, base[i])
        BY <4>1, ReadyIsNew
      <4> QED BY <4>2, <2>2, <3>1 DEF d
    <3> QED BY <3>2, <3>3, <3>1
  <2>5. Len(h[k]) <= k /\ Len(h[k]) \in Nat
    BY <1>3, <2>4
  <2>6. Len(h[k + 1]) <= k + 1
    BY <2>4, <2>5
  <2> QED BY <2>3, <2>6
<1>4. n \in T
  <2> HIDE DEF T
  <2>1. 0..n \subseteq T
    BY <1>2, <1>3, Induction
  <2> QED BY <2>1
<1>5. h[n] = Topological(refers, base)
  BY <1>1 DEF TopologicalSteps
<1> QED BY <1>4, <1>5

(* Each candidate after everything it needs.                                *)
InOrder(refers, seq) ==
  \A i \in 1..Len(seq) : \A d \in refers[seq[i]] : \E m \in 1..(i - 1) : seq[m] = d

(* A prefix of a sequence, element by element.                              *)
LEMMA PrefixOf ==
  ASSUME NEW Y, NEW s \in Seq(Y), NEW m \in 0..Len(s)
  PROVE  /\ SubSeq(s, 1, m) \in Seq(Y) /\ Len(SubSeq(s, 1, m)) = m
         /\ \A i \in 1..m : SubSeq(s, 1, m)[i] = s[i]
<1>1. m \in Int /\ 1 \in Int /\ \A i \in 1..m : s[i] \in Y
  OBVIOUS
<1> DEFINE t == SubSeq(s, 1, m)
<1>2. t \in Seq(Y) /\ Len(t) = (IF 1 <= m THEN m - 1 + 1 ELSE 0)
      /\ \A i \in 1..(m - 1 + 1) : t[i] = s[1 + i - 1]
  BY <1>1, SubSeqProperties
<1> HIDE DEF t
<1>3. Len(t) = m /\ \A i \in 1..m : t[i] = s[i]
  BY <1>2
<1> QED BY <1>2, <1>3 DEF t

(* The planner's order has every candidate once.                            *)
LEMMA OrderedIsAll ==
  ASSUME NEW n, NEW refers, Graph(n, refers)
  PROVE  /\ Ordered(refers) \in Seq(1..n) /\ Len(Ordered(refers)) = n
         /\ \A i \in 1..n : Ordered(refers)[i] = i
         /\ Distinct(Ordered(refers)) /\ Candidates(refers) = 1..n
BY DEF Graph, Ordered, Candidates, Distinct

(* A closure has its feature's ancestors, each after what it needs.         *)
LEMMA ClosureInOrder ==
  ASSUME NEW n, NEW refers, Graph(n, refers), NEW f \in 1..n
  PROVE  /\ Closure(refers, f) \in Seq(1..n) /\ Distinct(Closure(refers, f))
         /\ InOrder(refers, Closure(refers, f))
<1> DEFINE S == {f} \cup Ancestors(refers, f)
           base == Only(Ordered(refers), S)
           C == Closure(refers, f)
<1>1. Closed(refers, S) /\ S \subseteq 1..n
  BY AncestorsClosed DEF Closed
<1>2. base \in Seq(1..n) /\ KeepsOrder(base, Ordered(refers), S, n)
  BY OrderedIsAll, OnlyKeepsOrder
<1>3. S \subseteq ToSet(base)
  <2> HIDE DEF S, base
  <2> SUFFICES ASSUME NEW x \in S PROVE x \in ToSet(base)
    OBVIOUS
  <2>1. x \in 1..n /\ Ordered(refers)[x] = x
    BY <1>1, OrderedIsAll
  <2>2. PICK m \in 1..Len(base) : base[m] = x
    BY <1>2, <2>1 DEF KeepsOrder
  <2> QED BY <1>2, <2>2 DEF ToSet
<1>4. ToSet(base) \subseteq S
  <2> HIDE DEF S, base
  <2> SUFFICES ASSUME NEW m \in 1..Len(base) PROVE base[m] \in S
    BY <1>2 DEF ToSet
  <2> QED BY <1>2 DEF KeepsOrder
<1>5. C = Topological(refers, base)
  BY DEF Closure
<1> HIDE DEF S, base, C
<1>6. C \in Seq(1..n) /\ SortedFrom(refers, base, C)
  BY <1>2, <1>5, TopologicalSorts
<1>7. ASSUME NEW i \in 1..Len(C), NEW d \in refers[C[i]] PROVE \E m \in 1..(i - 1) : C[m] = d
  <2>1. C[i] \in ToSet(C)
    BY <1>6 DEF ToSet
  <2>2. C[i] \in S
    BY <1>4, <1>6, <2>1 DEF SortedFrom
  <2>3. d \in ToSet(base)
    BY <1>1, <1>3, <2>2 DEF Closed
  <2> QED BY <1>6, <2>3 DEF SortedFrom
<1> QED BY <1>6, <1>7 DEF InOrder, SortedFrom, C

Selection(n, refers, limit, chosen) ==
  chosen \in Seq(1..n) /\ Distinct(chosen) /\ InOrder(refers, chosen) /\ Len(chosen) <= limit

(* However many slots are left, what is admitted has what it needs.         *)
LEMMA AdmitSelects ==
  ASSUME NEW n, NEW refers, Graph(n, refers), NEW limit \in Nat, NEW chosen,
         Selection(n, refers, limit, chosen), NEW f \in 1..n
  PROVE  Selection(n, refers, limit, Admit(refers, limit, chosen, f))
<1> DEFINE C == Closure(refers, f)
           S == (1..n) \ ToSet(chosen)
           missing == Only(C, S)
           room == limit - Len(chosen)
           m == Min({room, Len(missing)})
           added == SubSeq(missing, 1, m)
           r == chosen \o added
<1>1. Admit(refers, limit, chosen, f) = r
  BY OrderedIsAll DEF Admit
<1>2. C \in Seq(1..n) /\ Distinct(C) /\ InOrder(refers, C)
  BY ClosureInOrder
<1>3. chosen \in Seq(1..n) /\ Distinct(chosen) /\ InOrder(refers, chosen)
      /\ Len(chosen) \in Nat /\ Len(chosen) <= limit /\ room \in Nat
  BY DEF Selection
<1> HIDE DEF C, S
<1>4. missing \in Seq(1..n) /\ KeepsOrder(missing, C, S, Len(C)) /\ Len(missing) \in Nat
  BY <1>2, OnlyKeepsOrder
<1> HIDE DEF missing, room
<1>5. m \in Nat /\ m <= Len(missing) /\ m <= room
  BY <1>3, <1>4 DEF Min
<1> HIDE DEF m
<1>6. added \in Seq(1..n) /\ Len(added) = m /\ \A i \in 1..m : added[i] = missing[i]
  <2>1. m \in 0..Len(missing) /\ missing \in Seq(1..n)
    BY <1>4, <1>5
  <2> QED BY ONLY <2>1, PrefixOf
<1> HIDE DEF added
<1>7. /\ r \in Seq(1..n) /\ Len(r) = Len(chosen) + m
      /\ \A i \in 1..Len(chosen) : r[i] = chosen[i]
      /\ \A i \in 1..m : r[Len(chosen) + i] = missing[i]
  BY <1>3, <1>5, <1>6
<1> HIDE DEF r
<1>8. Len(r) <= limit
  BY <1>3, <1>5, <1>7 DEF room
<1>9. \A i \in 1..m : missing[i] \notin ToSet(chosen)
  <2> SUFFICES ASSUME NEW i \in 1..m PROVE missing[i] \in S
    BY DEF S
  <2> QED BY <1>4, <1>5, i \in 1..Len(missing) DEF KeepsOrder
<1>10. \A i \in 1..Len(chosen) : chosen[i] \in ToSet(chosen)
  BY <1>3 DEF ToSet
<1>11. ASSUME NEW i \in 1..Len(r)
       PROVE  i \in 1..Len(chosen) \/ \E k \in 1..m : i = Len(chosen) + k
  <2>1. CASE i > Len(chosen)
    <3>1. i - Len(chosen) \in 1..m /\ i = Len(chosen) + (i - Len(chosen))
      BY <1>3, <1>5, <1>7, <2>1
    <3> QED BY <3>1
  <2> QED BY <2>1, <1>3, <1>7
<1>12. Distinct(r)
  <2>1. Distinct(missing)
    BY <1>2, <1>4 DEF KeepsOrder
  <2>2. ASSUME NEW i \in 1..Len(r), NEW j \in 1..Len(r), r[i] = r[j] PROVE i = j
    <3>1. CASE i \in 1..Len(chosen) /\ j \in 1..Len(chosen)
      BY <1>3, <1>7, <2>2, <3>1 DEF Distinct
    <3>2. CASE i \in 1..Len(chosen) /\ \E k \in 1..m : j = Len(chosen) + k
      BY <1>7, <1>9, <1>10, <2>2, <3>2
    <3>3. CASE j \in 1..Len(chosen) /\ \E k \in 1..m : i = Len(chosen) + k
      BY <1>7, <1>9, <1>10, <2>2, <3>3
    <3>4. ASSUME NEW k \in 1..m, i = Len(chosen) + k, NEW l \in 1..m, j = Len(chosen) + l
          PROVE  i = j
      <4>1. missing[k] = missing[l]
        BY <1>7, <2>2, <3>4
      <4>2. k \in 1..Len(missing) /\ l \in 1..Len(missing)
        BY <1>4, <1>5
      <4> QED BY <2>1, <3>4, <4>1, <4>2 DEF Distinct
    <3> QED BY <1>11, <3>1, <3>2, <3>3, <3>4
  <2> QED BY <2>2 DEF Distinct
<1>13. ASSUME NEW i \in 1..Len(r), NEW d \in refers[r[i]] PROVE \E l \in 1..(i - 1) : r[l] = d
  <2>1. CASE i \in 1..Len(chosen)
    <3>1. PICK l \in 1..(i - 1) : chosen[l] = d
      BY <1>3, <1>7, <1>13, <2>1 DEF InOrder
    <3> QED BY <1>3, <1>7, <2>1, <3>1
  <2>2. ASSUME NEW k \in 1..m, i = Len(chosen) + k PROVE \E l \in 1..(i - 1) : r[l] = d
    <3>1. r[i] = missing[k] /\ k \in 1..Len(missing)
      BY <1>4, <1>5, <1>7, <2>2
    <3>2. PICK j \in 1..Len(C) :
            /\ missing[k] = C[j] /\ C[j] \in S
            /\ \A l \in 1..(j - 1) : C[l] \in S => \E q \in 1..(k - 1) : missing[q] = C[l]
      BY <1>4, <3>1 DEF KeepsOrder
    <3>3. PICK l \in 1..(j - 1) : C[l] = d
      BY <1>2, <1>13, <3>1, <3>2 DEF InOrder
    <3>4. d \in 1..n
      <4>1. l \in 1..Len(C)
        BY <1>2, <3>2, <3>3
      <4>2. C[l] \in 1..n
        BY <1>2, <4>1, ElementOfSeq
      <4> QED BY <3>3, <4>2
    <3>5. CASE d \in S
      <4>1. PICK q \in 1..(k - 1) : missing[q] = d
        BY <3>2, <3>3, <3>5
      <4>2. q \in 1..m /\ Len(chosen) + q \in 1..(i - 1)
        BY <1>3, <1>5, <2>2
      <4> QED BY <1>7, <4>1, <4>2
    <3>6. CASE d \notin S
      <4>1. d \in ToSet(chosen)
        BY <3>4, <3>6 DEF S
      <4>2. PICK q \in 1..Len(chosen) : chosen[q] = d
        BY <1>3, <4>1 DEF ToSet
      <4>3. q \in 1..(i - 1)
        BY <1>3, <2>2
      <4> QED BY <1>7, <4>2, <4>3
    <3> QED BY <3>5, <3>6
  <2> QED BY <1>11, <2>1, <2>2
<1> QED BY <1>1, <1>7, <1>8, <1>12, <1>13 DEF Selection, InOrder

SelectSteps(h, n, refers, limit) ==
  /\ h[0] = <<>> /\ h[n] = SelectFeatures(refers, limit)
  /\ \A k \in 0..n : Selection(n, refers, limit, h[k])
  /\ \A k \in 1..n : h[k] = Admit(refers, limit, h[k - 1], k)

(* The selection goes through the candidates one at a time.                 *)
LEMMA SelectTrace ==
  ASSUME NEW n, NEW refers, Graph(n, refers), NEW limit \in Nat
  PROVE  \E h : SelectSteps(h, n, refers, limit)
<1> DEFINE op(chosen, f) == Admit(refers, limit, chosen, f)
           X == {c \in Seq(1..n) : Selection(n, refers, limit, c)}
           start == <<>>
           seq == Ordered(refers)
           Fold(g) == [s \in SUBSET (DOMAIN seq) |->
                         IF s = {} THEN start ELSE op(g[s \ {Max(s)}], seq[Max(s)])]
           step == [p \in X \X (1..n) |-> op(p[1], seq[p[2]])]
<1>1. SelectFeatures(refers, limit) = (CHOOSE g : g = Fold(g))[DOMAIN seq]
  <2>1. SelectFeatures(refers, limit) = FoldLeft(op, start, seq)
    BY Zenon DEF SelectFeatures
  <2> QED BY <2>1, Zenon DEF FoldLeft, MapThenFoldSet
<1>2. DOMAIN seq = 1..n /\ n \in Nat
  BY OrderedIsAll DEF Graph, Ordered, Candidates
<1>0. \A k \in 1..n : seq[k] = k
  BY OrderedIsAll
<1>3. start \in X /\ \A x \in X, k \in 1..n : op(x, seq[k]) \in X
  <2>1. start \in X
    BY DEF Selection, Distinct, InOrder
  <2>2. ASSUME NEW x \in X, NEW k \in 1..n PROVE op(x, seq[k]) \in X
    <3>1. Selection(n, refers, limit, x)
      OBVIOUS
    <3>2. Selection(n, refers, limit, Admit(refers, limit, x, k))
      BY <3>1, AdmitSelects
    <3> QED BY <1>0, <3>2 DEF Selection
  <2> QED BY <2>1, <2>2
<1> HIDE DEF X, start, op, seq
<1>4. step \in [X \X (1..n) -> X]
  BY <1>3
<1>5. PICK g : g = Fold(g) /\ g = CHOOSE f1 : f1 = Fold(f1)
  <2>1. PICK g \in [SUBSET (1..n) -> X] : \A s \in SUBSET (1..n) : FoldsTo(g, start, step, s)
    BY <1>2, <1>3, <1>4, FoldExists
  <2>2. ASSUME NEW s \in SUBSET (1..n)
        PROVE  g[s] = IF s = {} THEN start ELSE op(g[s \ {Max(s)}], seq[Max(s)])
    <3>1. s # {} => Max(s) \in 1..n
      BY <1>2, MaxIsMember
    <3> QED BY <2>1, <3>1 DEF FoldsTo
  <2>3. g = Fold(g)
    BY <1>2, <2>1, <2>2
  <2> HIDE DEF Fold
  <2> QED BY <2>3
<1> DEFINE rest == [s \in SUBSET (1..n) |-> op(g[s \ {Max(s)}], seq[Max(s)])]
<1>6. FoldOf(g, start, rest, n)
  BY <1>2, <1>5 DEF FoldOf
<1>7. Takes(g, rest, step, X, n)
  BY <1>2, MaxIsMember DEF Takes
<1>8. PICK h : Traced(h, X, start, step, n) /\ h[n] = g[1..n]
  <2> HIDE DEF rest, step, Fold
  <2>1. start \in X /\ n \in Nat
    BY <1>2, <1>3
  <2>2. StepOn(step, X, n)
    BY <1>4 DEF StepOn
  <2> QED BY <2>1, <2>2, <1>6, <1>7, FoldTrace
<1>9. ASSUME NEW k \in 1..n PROVE h[k] = op(h[k - 1], seq[k])
  <2>1. h[k - 1] \in X
    BY <1>2, <1>8, k - 1 \in 0..n DEF Traced
  <2> QED BY <1>8, <2>1 DEF Traced
<1>10. SelectFeatures(refers, limit) = h[n]
  <2> HIDE DEF Fold
  <2> QED BY <1>1, <1>2, <1>5, <1>8
<1>11. h \in [0..n -> X] /\ h[0] = start
  BY <1>8 DEF Traced
<1>12. \A k \in 0..n : Selection(n, refers, limit, h[k])
  BY <1>11 DEF X
<1> QED BY <1>0, <1>9, <1>10, <1>11, <1>12 DEF start, op, SelectSteps

(* What is selected is closed, in order and within the limit.               *)
LEMMA SelectFeaturesSelects ==
  ASSUME NEW n, NEW refers, Graph(n, refers), NEW limit \in Nat
  PROVE  Selection(n, refers, limit, SelectFeatures(refers, limit))
<1>1. n \in Nat
  BY DEF Graph
<1> QED BY <1>1, SelectTrace, n \in 0..n DEF SelectSteps

(* The order of what was selected loses nothing it needs.                   *)
LEMMA ChosenSelects ==
  ASSUME NEW n, NEW refers, Graph(n, refers), NEW limit \in Nat
  PROVE  Selection(n, refers, limit, Topological(refers, SelectFeatures(refers, limit)))
<1> DEFINE base == SelectFeatures(refers, limit)
           C == Topological(refers, base)
<1>1. base \in Seq(1..n) /\ Distinct(base) /\ InOrder(refers, base) /\ Len(base) <= limit
  BY SelectFeaturesSelects DEF Selection
<1> HIDE DEF base
<1>2. C \in Seq(1..n) /\ SortedFrom(refers, base, C) /\ Len(C) <= Len(base)
  BY <1>1, TopologicalSorts
<1> HIDE DEF C
<1>3. Len(C) <= limit
  BY <1>1, <1>2
<1>4. ASSUME NEW i \in 1..Len(C), NEW d \in refers[C[i]] PROVE \E m \in 1..(i - 1) : C[m] = d
  <2>1. C[i] \in ToSet(base)
    <3>1. C[i] \in ToSet(C)
      BY <1>2 DEF ToSet
    <3> QED BY <1>2, <3>1 DEF SortedFrom
  <2>2. PICK j \in 1..Len(base) : C[i] = base[j]
    BY <1>1, <2>1 DEF ToSet
  <2>3. PICK l \in 1..(j - 1) : base[l] = d
    BY <1>1, <1>4, <2>2 DEF InOrder
  <2>4. d \in ToSet(base)
    <3>1. l \in 1..Len(base) /\ DOMAIN base = 1..Len(base)
      BY <1>1, <2>2, <2>3
    <3> QED BY <2>3, <3>1 DEF ToSet
  <2> QED BY <1>2, <2>4 DEF SortedFrom
<1> QED BY <1>2, <1>3, <1>4 DEF Selection, SortedFrom, InOrder, C, base

(* A number is its quotient and its remainder.                              *)
LEMMA Division ==
  ASSUME NEW m \in Nat \ {0}, NEW a \in Nat
  PROVE  a = m * (a \div m) + (a % m)
BY SMTT(20)

(* Numbers less than m apart have different remainders.                     *)
LEMMA ModDiffers ==
  ASSUME NEW m \in Nat \ {0}, NEW a \in Nat, NEW b \in Nat, a < b, b - a < m
  PROVE  a % m # b % m
<1> SUFFICES ASSUME a % m = b % m PROVE FALSE
  OBVIOUS
<1> DEFINE p == a \div m
           q == b \div m
<1>1. p \in Int /\ q \in Int /\ a = m * p + (a % m) /\ b = m * q + (b % m)
      /\ a % m \in Int
  <2>1. a = m * p + (a % m)
    BY Division
  <2>2. b = m * q + (b % m)
    BY Division
  <2>3. p \in Int /\ q \in Int /\ a % m \in Int
    OBVIOUS
  <2> QED BY ONLY <2>1, <2>2, <2>3
<1> HIDE DEF p, q
<1>2. b - a = m * (q - p)
  BY <1>1
<1> DEFINE d == q - p
<1>3. d \in Int /\ b - a = m * d
  BY <1>1, <1>2
<1> HIDE DEF d
<1>4. d <= 0 => m * d <= 0
  BY <1>3
<1>5. d >= 1 => m * d >= m
  BY <1>3
<1> QED BY <1>3, <1>4, <1>5

(* The ledger candidates are taken in turn, none twice.                     *)
LEMMA LedgerInTurn ==
  ASSUME NEW first \in Nat, NEW ledger \in Nat, NEW limit \in Nat, NEW turn \in Nat
  PROVE  LET L == SelectLedger(first, ledger, limit, turn)
         IN  /\ L \in Seq(first..(first + ledger - 1)) /\ Distinct(L)
             /\ Len(L) = Min({limit, ledger}) /\ Len(L) <= limit /\ Len(L) <= ledger
<1> DEFINE L == SelectLedger(first, ledger, limit, turn)
           m == Min({limit, ledger})
<1>1. m \in Nat /\ m <= limit /\ m <= ledger
  BY DEF Min
<1>2. L = [i \in 1..m |-> first + ((turn + i - 1) % ledger)]
  BY DEF SelectLedger
<1> HIDE DEF L, m
<1>3. ASSUME NEW i \in 1..m PROVE (turn + i - 1) % ledger \in 0..(ledger - 1)
  BY <1>1
<1>4. L \in Seq(first..(first + ledger - 1)) /\ Len(L) = m
  BY <1>1, <1>2, <1>3
<1>5. ASSUME NEW i \in 1..m, NEW j \in 1..m, i < j PROVE L[i] # L[j]
  <2> DEFINE a == turn + i - 1
             b == turn + j - 1
  <2>1. a \in Nat /\ b \in Nat /\ b - a \in 1..(ledger - 1) /\ ledger \in Nat \ {0}
    BY <1>1, <1>5
  <2>2. a % ledger # b % ledger
    <3> HIDE DEF a, b
    <3>1. a < b /\ b - a < ledger
      BY <2>1
    <3> QED BY <2>1, <3>1, ModDiffers
  <2>3. a % ledger \in Nat /\ b % ledger \in Nat
    BY <1>3
  <2> QED BY <1>2, <2>2, <2>3
<1>6. Distinct(L)
  <2> SUFFICES ASSUME NEW i \in 1..m, NEW j \in 1..m, L[i] = L[j] PROVE i = j
    BY <1>4 DEF Distinct
  <2>1. i < j \/ j < i \/ i = j
    OBVIOUS
  <2> QED BY <1>5, <2>1
<1> QED BY <1>1, <1>4, <1>6 DEF L, m

(* What the lanes of a plan are made of.                                    *)
Slotted(n, ledger, cap, loop, count, slots, limit, turn) ==
  /\ count = Min({cap, n + ledger}) /\ count \in Nat /\ count <= cap
  /\ slots = LedgerSlots(loop, count, n, ledger) /\ slots \in Nat /\ slots <= ledger
  /\ limit = Min({count - slots, n}) /\ turn = Rotation(loop, count, n) /\ turn \in Nat
  /\ count > 0 => slots <= count /\ limit \in Nat /\ limit <= count - slots

(* The smaller of two numbers is one of them and above neither.             *)
LEMMA MinOfTwo ==
  ASSUME NEW a \in Int, NEW b \in Int
  PROVE  Min({a, b}) \in {a, b} /\ Min({a, b}) <= a /\ Min({a, b}) <= b
BY DEF Min

(* The larger of two numbers is one of them and below neither.              *)
LEMMA MaxOfTwo ==
  ASSUME NEW a \in Int, NEW b \in Int
  PROVE  Max({a, b}) \in {a, b} /\ Max({a, b}) >= a /\ Max({a, b}) >= b
BY DEF Max

(* Every plan shares its slots in one way.                                  *)
LEMMA SlotsShared ==
  ASSUME NEW n \in Nat, NEW ledger \in Nat, NEW cap \in Nat, NEW loop \in Nat \ {0}
  PROVE  \E count, slots, limit, turn : Slotted(n, ledger, cap, loop, count, slots, limit, turn)
<1> DEFINE count == Min({cap, n + ledger})
           slots == LedgerSlots(loop, count, n, ledger)
           limit == Min({count - slots, n})
           turn == Rotation(loop, count, n)
<1>3. count \in Nat /\ count <= cap /\ count <= n + ledger
  BY MinOfTwo
<1> HIDE DEF count
<1>4. slots \in Nat /\ slots <= ledger /\ (count > 0 => slots <= count)
  <2>1. Min({count, ledger}) \in Nat /\ Min({count, ledger}) <= count /\ Min({count, ledger}) <= ledger
    BY <1>3, MinOfTwo
  <2> QED BY <1>3, <2>1 DEF LedgerSlots
<1> HIDE DEF slots
<1>5. count > 0 => limit \in Nat /\ limit <= count - slots
  <2>1. count > 0 => count - slots \in Nat
    BY <1>3, <1>4
  <2>2. count - slots \in Int
    BY <1>3, <1>4
  <2>3. limit \in {count - slots, n} /\ limit <= count - slots
    <3> DEFINE room == count - slots
    <3>1. room \in Int
      BY <2>2
    <3> HIDE DEF room
    <3>2. Min({room, n}) \in {room, n} /\ Min({room, n}) <= room
      BY <3>1, MinOfTwo
    <3> QED BY <3>2 DEF room
  <2> QED BY <2>1, <2>3
<1>6. turn \in Nat
  <2>1. loop \div 2 \in Int /\ Max({1, loop \div 2}) \in Int /\ Max({1, loop \div 2}) >= 1
    <3>1. loop \div 2 \in Int
      OBVIOUS
    <3> QED BY <3>1, MaxOfTwo
  <2> QED BY <2>1 DEF Rotation
<1> HIDE DEF limit, turn
<1>7. Slotted(n, ledger, cap, loop, count, slots, limit, turn)
  BY <1>3, <1>4, <1>5, <1>6 DEF Slotted, count, slots, limit, turn
<1> QED BY <1>7

(* A plan: features, each after what it needs, then ledger candidates.      *)
Chosen(refers, count, limit) ==
  IF count = 0 THEN <<>> ELSE Topological(refers, SelectFeatures(refers, limit))

(* A plan by its two lanes.                                                 *)
LEMMA PlanIs ==
  ASSUME NEW n, NEW refers, Graph(n, refers), NEW ledger \in Nat, NEW cap \in Nat,
         NEW loop \in Nat \ {0}, NEW count, NEW slots, NEW limit, NEW turn,
         Slotted(n, ledger, cap, loop, count, slots, limit, turn)
  PROVE  /\ Plan(refers, ledger, cap, loop) =
              Chosen(refers, count, limit)
                \o SelectLedger(n + 1, ledger, count - Len(Chosen(refers, count, limit)), turn)
         /\ Selection(n, refers, count, Chosen(refers, count, limit))
         /\ count > 0 => Len(Chosen(refers, count, limit)) <= count - slots
<1>1. n \in Nat /\ Candidates(refers) = 1..n /\ Cardinality(1..n) = n
  <2>1. n \in Nat
    BY DEF Graph
  <2> QED BY <2>1, OrderedIsAll, FS_Interval
<1>2. Plan(refers, ledger, cap, loop) =
        Chosen(refers, count, limit)
          \o SelectLedger(n + 1, ledger, count - Len(Chosen(refers, count, limit)), turn)
  BY <1>1, Zenon DEF Plan, Chosen, Slotted
<1>3. CASE count = 0
  <2>1. Chosen(refers, count, limit) = <<>>
    BY <1>3 DEF Chosen
  <2>2. Selection(n, refers, count, <<>>)
    BY <1>3 DEF Selection, Distinct, InOrder
  <2>3. ~(count > 0)
    BY <1>3
  <2> QED BY <1>2, <2>1, <2>2, <2>3
<1>4. CASE count # 0
  <2> DEFINE C == Topological(refers, SelectFeatures(refers, limit))
  <2>1. count > 0 /\ limit \in Nat /\ limit <= count - slots /\ slots \in Nat /\ count \in Nat
    BY <1>4 DEF Slotted
  <2>2. Chosen(refers, count, limit) = C
    BY <1>4 DEF Chosen
  <2>3. Selection(n, refers, limit, C)
    BY <2>1, ChosenSelects
  <2> HIDE DEF C
  <2>4. Len(C) \in Nat /\ Len(C) <= limit
    BY <2>3 DEF Selection
  <2>5. Len(C) <= count - slots /\ Len(C) <= count
    BY <2>1, <2>4
  <2>6. Selection(n, refers, count, C)
    BY <2>3, <2>5 DEF Selection
  <2> QED BY <1>2, <2>2, <2>5, <2>6
<1> QED BY <1>3, <1>4

(* In bounds, in order, nothing twice.                                      *)
SoundPlan(n, refers, ledger, cap, assignments) ==
  /\ assignments \in Seq(1..(n + ledger)) /\ Distinct(assignments) /\ Len(assignments) <= cap
  /\ \A i \in 1..Len(assignments) : assignments[i] \in 1..n =>
       \A d \in refers[assignments[i]] : \E m \in 1..(i - 1) : assignments[m] = d

(* Every plan is sound, whatever needs whatever (MissionPlanner.plan).      *)
LEMMA PlanIsSound ==
  ASSUME NEW n, NEW refers, Graph(n, refers), NEW ledger \in Nat, NEW cap \in Nat,
         NEW loop \in Nat \ {0}
  PROVE  SoundPlan(n, refers, ledger, cap, Plan(refers, ledger, cap, loop))
<1>1. n \in Nat
  BY DEF Graph
<1>2. PICK count, slots, limit, turn : Slotted(n, ledger, cap, loop, count, slots, limit, turn)
  BY <1>1, SlotsShared
<1> DEFINE C == Chosen(refers, count, limit)
           m == count - Len(C)
           L == SelectLedger(n + 1, ledger, m, turn)
           P == C \o L
<1>3. Plan(refers, ledger, cap, loop) = P /\ Selection(n, refers, count, C)
  BY <1>2, PlanIs
<1> HIDE DEF C
<1>4. count \in Nat /\ count <= cap /\ turn \in Nat
  BY <1>2 DEF Slotted
<1>5. /\ C \in Seq(1..n) /\ Distinct(C) /\ InOrder(refers, C)
      /\ Len(C) \in Nat /\ Len(C) <= count /\ m \in Nat
  BY <1>3, <1>4 DEF Selection
<1> HIDE DEF m
<1>6. L \in Seq((n + 1)..((n + 1) + ledger - 1)) /\ Distinct(L) /\ Len(L) <= m
  BY <1>1, <1>4, <1>5, n + 1 \in Nat, LedgerInTurn
<1> HIDE DEF L
<1>7. /\ \A i \in 1..Len(C) : C[i] \in 1..n
      /\ \A i \in 1..Len(L) : L[i] \in (n + 1)..(n + ledger)
  <2>1. (n + 1)..((n + 1) + ledger - 1) = (n + 1)..(n + ledger)
    BY <1>1
  <2>2. L \in Seq((n + 1)..(n + ledger))
    BY <1>6, <2>1
  <2> QED BY <1>5, <2>2, ElementOfSeq
<1>8. C \in Seq(1..(n + ledger)) /\ L \in Seq(1..(n + ledger)) /\ Len(L) \in Nat
  BY <1>1, <1>5, <1>6, <1>7
<1>9. /\ P \in Seq(1..(n + ledger)) /\ Len(P) = Len(C) + Len(L)
      /\ \A i \in 1..Len(C) : P[i] = C[i]
      /\ \A i \in 1..Len(L) : P[Len(C) + i] = L[i]
  BY <1>8
<1> HIDE DEF P
<1>10. ASSUME NEW i \in 1..Len(P)
       PROVE  i \in 1..Len(C) \/ \E k \in 1..Len(L) : i = Len(C) + k
  <2>1. CASE i > Len(C)
    <3>1. i - Len(C) \in 1..Len(L) /\ i = Len(C) + (i - Len(C))
      BY <1>5, <1>8, <1>9, <2>1
    <3> QED BY <3>1
  <2> QED BY <2>1, <1>5, <1>9
<1>14. \A x \in 1..n, y \in (n + 1)..(n + ledger) : x # y
  BY <1>1
<1>11. Distinct(P)
  <2> SUFFICES ASSUME NEW i \in 1..Len(P), NEW j \in 1..Len(P), P[i] = P[j] PROVE i = j
    BY DEF Distinct
  <2>1. CASE i \in 1..Len(C) /\ j \in 1..Len(C)
    BY <1>5, <1>9, <2>1 DEF Distinct
  <2>2. ASSUME i \in 1..Len(C), NEW k \in 1..Len(L), j = Len(C) + k PROVE FALSE
    <3>1. P[i] = C[i] /\ C[i] \in 1..n /\ P[j] = L[k] /\ L[k] \in (n + 1)..(n + ledger)
      BY <1>7, <1>9, <2>2
    <3>2. P[i] \in 1..n /\ P[j] \in (n + 1)..(n + ledger)
      BY ONLY <3>1
    <3> QED BY <1>14, <3>2
  <2>3. ASSUME j \in 1..Len(C), NEW k \in 1..Len(L), i = Len(C) + k PROVE FALSE
    <3>1. P[j] = C[j] /\ C[j] \in 1..n /\ P[i] = L[k] /\ L[k] \in (n + 1)..(n + ledger)
      BY <1>7, <1>9, <2>3
    <3> QED BY <1>1, <3>1
  <2>4. ASSUME NEW k \in 1..Len(L), i = Len(C) + k, NEW l \in 1..Len(L), j = Len(C) + l
        PROVE  i = j
    BY <1>6, <1>9, <2>4 DEF Distinct
  <2> QED BY <1>10, <2>1, <2>2, <2>3, <2>4
<1>12. ASSUME NEW i \in 1..Len(P), P[i] \in 1..n, NEW d \in refers[P[i]]
       PROVE  \E l \in 1..(i - 1) : P[l] = d
  <2>1. i \in 1..Len(C)
    <3>1. ASSUME NEW k \in 1..Len(L), i = Len(C) + k PROVE FALSE
      BY <1>1, <1>7, <1>9, <1>12, <3>1
    <3> QED BY <1>10, <3>1
  <2>2. PICK l \in 1..(i - 1) : C[l] = d
    BY <1>5, <1>9, <1>12, <2>1 DEF InOrder
  <2> QED BY <1>5, <1>9, <2>1, <2>2
<1>13. Len(P) <= cap
  BY <1>4, <1>5, <1>6, <1>8, <1>9 DEF m
<1> QED BY <1>3, <1>9, <1>11, <1>12, <1>13 DEF SoundPlan

(* Any m numbers in a row leave every remainder.                            *)
LEMMA RemainderOf ==
  ASSUME NEW m \in Nat \ {0}, NEW p \in Nat, NEW r \in 0..(m - 1)
  PROVE  m * p + r \in Nat /\ (m * p + r) % m = r
<1> DEFINE b == m * p + r
           q == b \div m
           s == b % m
<1>1. m * p \in Nat
  OBVIOUS
<1>2. b \in Nat /\ b = m * p + r
  BY <1>1
<1> HIDE DEF b
<1>3. b = m * q + s
  BY <1>2, Division
<1>4. q \in Int /\ s \in 0..(m - 1)
  BY <1>2
<1> HIDE DEF q, s
<1>5. m * (q - p) = r - s
  BY <1>1, <1>2, <1>3, <1>4
<1> DEFINE d == q - p
<1>6. d \in Int /\ m * d = r - s
  BY <1>4, <1>5
<1> HIDE DEF d
<1>7. d <= -1 => m * d <= -m
  BY <1>6
<1>8. d >= 1 => m * d >= m
  BY <1>6
<1>9. d = 0 => m * d = 0
  BY <1>6
<1>10. r = s
  BY <1>4, <1>6, <1>7, <1>8, <1>9
<1> QED BY <1>2, <1>10 DEF b, s

(* m numbers in a row leave every remainder.                                *)
LEMMA EveryRemainder ==
  ASSUME NEW m \in Nat \ {0}, NEW a \in Nat, NEW r \in 0..(m - 1)
  PROVE  \E b \in Nat : b >= a /\ b < a + m /\ b % m = r
<1> DEFINE p == a \div m
           t == a % m
<1>1. a = m * p + t
  BY Division
<1>2. p \in Nat /\ t \in 0..(m - 1)
  <2>1. p \in Int /\ t \in 0..(m - 1)
    OBVIOUS
  <2>2. p >= 0
    BY SMTT(20)
  <2> QED BY <2>1, <2>2
<1> HIDE DEF p, t
<1>3. m * p \in Nat /\ m * (p + 1) = m * p + m /\ p + 1 \in Nat
  BY <1>2
<1>4. CASE r >= t
  <2>1. m * p + r \in Nat /\ (m * p + r) % m = r
    BY <1>2, RemainderOf
  <2>2. m * p + r >= a /\ m * p + r < a + m
    BY <1>1, <1>2, <1>3, <1>4
  <2> QED BY <2>1, <2>2
<1>5. CASE r < t
  <2>1. m * (p + 1) + r \in Nat /\ (m * (p + 1) + r) % m = r
    BY <1>3, RemainderOf
  <2>2. m * (p + 1) + r >= a /\ m * (p + 1) + r < a + m
    BY <1>1, <1>2, <1>3, <1>5
  <2> QED BY <2>1, <2>2
<1> QED BY <1>2, <1>4, <1>5

(* Where no feature needs itself some feature needs nothing, in any set     *)
(* that contains what its features need.                                    *)
LEMMA SomethingIsReady ==
  ASSUME NEW n, NEW refers, Graph(n, refers), ~Cyclic(refers),
         NEW S \in SUBSET (1..n), Closed(refers, S), S # {}
  PROVE  \E f \in S : refers[f] = {}
<1> n \in Nat
  BY DEF Graph
<1> DEFINE size == [f \in 1..n |-> Cardinality(Ancestors(refers, f))]
           T == {k \in 0..n : (\E f \in S : size[f] <= k) => \E f \in S : refers[f] = {}}
<1>1. ASSUME NEW f \in 1..n
      PROVE  /\ IsFiniteSet(Ancestors(refers, f)) /\ size[f] \in Nat /\ size[f] <= n
             /\ refers[f] \subseteq Ancestors(refers, f) /\ f \notin Ancestors(refers, f)
             /\ Closed(refers, Ancestors(refers, f))
  <2>1. Ancestors(refers, f) \in SUBSET (1..n) /\ IsFiniteSet(1..n) /\ Cardinality(1..n) = n
    <3>1. IsFiniteSet(1..n) /\ Cardinality(1..n) = n
      BY FS_Interval
    <3> QED BY <3>1, AncestorsClosed
  <2>2. f \notin Ancestors(refers, f)
    BY OrderedIsAll DEF Cyclic
  <2> QED BY <2>1, <2>2, AncestorsClosed, FS_Subset, FS_CardinalityType
<1>2. ASSUME NEW f \in S, NEW g \in refers[f]
      PROVE  g \in S /\ size[g] < size[f]
  <2>1. f \in 1..n /\ g \in 1..n /\ g \in S
    BY DEF Graph, Closed
  <2>2. refers[g] \subseteq Ancestors(refers, f) /\ Closed(refers, Ancestors(refers, f)) /\ g \in Ancestors(refers, f)
    BY <1>1, <2>1 DEF Closed
  <2>3. Ancestors(refers, g) \subseteq Ancestors(refers, f)
    BY <2>1, <2>2, AncestorsLeast
  <2>4. Ancestors(refers, g) # Ancestors(refers, f)
    BY <1>1, <2>1, <2>2
  <2>5. size[g] <= size[f] /\ size[g] # size[f]
    BY <1>1, <2>1, <2>3, <2>4, FS_Subset
  <2> QED BY <1>1, <2>1, <2>5
<1>3. \A f \in S : size[f] \in Nat /\ size[f] <= n
  BY <1>1
<1> HIDE DEF size
<1>4. 0 \in T
  <2> SUFFICES ASSUME NEW f \in S, size[f] <= 0 PROVE \E g \in S : refers[g] = {}
    OBVIOUS
  <2>1. refers[f] = {}
    <3> SUFFICES ASSUME NEW g \in refers[f] PROVE FALSE
      OBVIOUS
    <3>1. g \in S /\ size[g] < size[f]
      BY <1>2
    <3>2. size[g] \in Nat /\ size[f] \in Nat
      BY <1>3, <3>1
    <3> QED BY <3>1, <3>2
  <2> QED BY <2>1
<1>5. ASSUME NEW k \in 0..(n - 1), k \in T PROVE k + 1 \in T
  <2>0. k + 1 \in 0..n
    OBVIOUS
  <2> SUFFICES ASSUME NEW f \in S, size[f] <= k + 1 PROVE \E g \in S : refers[g] = {}
    BY <2>0
  <2>1. CASE refers[f] = {}
    BY <2>1
  <2>2. CASE refers[f] # {}
    <3>1. PICK g \in refers[f] : TRUE
      BY <2>2
    <3>2. g \in S /\ size[g] < size[f]
      BY <1>2
    <3>3. size[g] \in Nat /\ size[f] \in Nat
      BY <1>3, <3>2
    <3>4. size[g] <= k
      BY <3>2, <3>3
    <3> QED BY <1>5, <3>2, <3>4
  <2> QED BY <2>1, <2>2
<1>6. n \in T
  <2> HIDE DEF T
  <2>1. 0..n \subseteq T
    BY <1>4, <1>5, Induction
  <2> QED BY <2>1
<1> QED BY <1>3, <1>6

(* An order of anything with something ready has something.                 *)
LEMMA TopologicalTakes ==
  ASSUME NEW Y, NEW base \in Seq(Y), NEW refers, NEW i \in 1..Len(base),
         refers[base[i]] \cap ToSet(base) = {}
  PROVE  Len(Topological(refers, base)) >= 1
<1> DEFINE n == Len(base)
<1>1. n \in Nat /\ n >= 1
  OBVIOUS
<1>2. PICK h \in [0..n -> Seq(Y)] : TopologicalSteps(h, refers, base)
  BY TopologicalTrace
<1>3. ASSUME NEW k \in 1..n
      PROVE  /\ h[k] = TakeReady(refers, base, h[k - 1]) /\ h[k - 1] \in Seq(Y) /\ h[k] \in Seq(Y)
             /\ Len(h[k]) \in Nat /\ Len(h[k - 1]) \in Nat
             /\ Ready(refers, base, h[k - 1]) # {} => Len(h[k]) = Len(h[k - 1]) + 1
             /\ Ready(refers, base, h[k - 1]) = {} => h[k] = h[k - 1]
  <2>1. h[k] = TakeReady(refers, base, h[k - 1])
    BY <1>2 DEF TopologicalSteps
  <2>2. h[k - 1] \in Seq(Y) /\ h[k] \in Seq(Y)
    BY <1>2, k - 1 \in 0..n, k \in 0..n
  <2>3. ASSUME Ready(refers, base, h[k - 1]) # {} PROVE Len(h[k]) = Len(h[k - 1]) + 1
    <3> DEFINE d == h[k - 1]
    <3>1. d \in Seq(Y) /\ Ready(refers, base, d) # {}
      BY <2>2, <2>3
    <3> HIDE DEF d
    <3>2. \E j \in 1..Len(base) : TakeReady(refers, base, d) = Append(d, base[j])
      BY <3>1, ReadyIsNew
    <3>3. Len(TakeReady(refers, base, d)) = Len(d) + 1
      BY <3>1, <3>2
    <3> QED BY <2>1, <3>3 DEF d
  <2> QED BY <2>1, <2>2, <2>3 DEF TakeReady
<1> DEFINE T == {k \in 0..n : k = 0 \/ Len(h[k]) >= 1}
<1>4. 0 \in T
  BY <1>1
<1>5. ASSUME NEW k \in 0..(n - 1), k \in T PROVE k + 1 \in T
  <2>0. k + 1 \in 1..n /\ (k + 1) - 1 = k /\ k + 1 \in 0..n
    BY <1>1
  <2>1. CASE k = 0
    <3>1. h[0] = <<>>
      BY <1>2 DEF TopologicalSteps
    <3>2. ToSet(<<>>) = {} /\ Len(<<>>) = 0
      BY DEF ToSet
    <3>3. i \in Ready(refers, base, <<>>)
      BY <3>2 DEF Ready
    <3>4. Ready(refers, base, h[(k + 1) - 1]) # {}
      BY <2>0, <2>1, <3>1, <3>3
    <3>5. Len(h[k + 1]) = Len(h[(k + 1) - 1]) + 1 /\ Len(h[(k + 1) - 1]) \in Nat
      BY ONLY <1>3, <2>0, <3>4
    <3> QED BY <2>0, <3>5
  <2>2. CASE k # 0
    <3>1. Len(h[k]) >= 1
      BY <1>5, <2>2
    <3>2. Len(h[k + 1]) >= Len(h[(k + 1) - 1])
      <4>1. /\ Len(h[k + 1]) \in Nat /\ Len(h[(k + 1) - 1]) \in Nat
            /\ \/ Len(h[k + 1]) = Len(h[(k + 1) - 1]) + 1
               \/ h[k + 1] = h[(k + 1) - 1]
        BY <1>3, <2>0
      <4> QED BY <4>1
    <3>3. Len(h[k + 1]) \in Nat /\ Len(h[k]) \in Nat /\ Len(h[k + 1]) >= Len(h[k])
      BY <1>3, <2>0, <3>2
    <3> QED BY <2>0, <3>1, <3>3
  <2> QED BY <2>1, <2>2
<1>6. n \in T
  <2> HIDE DEF T
  <2>1. 0..n \subseteq T
    BY <1>1, <1>4, <1>5, Induction
  <2> QED BY <1>1, <2>1
<1>7. h[n] = Topological(refers, base)
  BY <1>2 DEF TopologicalSteps
<1> QED BY <1>1, <1>6, <1>7

(* Where nothing is cyclic a closure is not empty.                          *)
LEMMA ClosureTakes ==
  ASSUME NEW n, NEW refers, Graph(n, refers), ~Cyclic(refers), NEW f \in 1..n
  PROVE  Len(Closure(refers, f)) >= 1
<1> DEFINE S == {f} \cup Ancestors(refers, f)
           base == Only(Ordered(refers), S)
<1>1. Closed(refers, S) /\ S \in SUBSET (1..n) /\ S # {}
  BY AncestorsClosed DEF Closed
<1>2. base \in Seq(1..n) /\ KeepsOrder(base, Ordered(refers), S, n)
  BY OrderedIsAll, OnlyKeepsOrder
<1>3. Closure(refers, f) = Topological(refers, base)
  BY DEF Closure
<1> HIDE DEF S, base
<1>4. PICK x \in S : refers[x] = {}
  BY <1>1, SomethingIsReady
<1>5. x \in 1..n /\ Ordered(refers)[x] = x
  BY <1>1, OrderedIsAll
<1>6. PICK m \in 1..Len(base) : base[m] = x
  BY <1>2, <1>5 DEF KeepsOrder
<1>7. refers[base[m]] \cap ToSet(base) = {}
  BY <1>4, <1>6
<1> QED BY <1>2, <1>3, <1>7, TopologicalTakes

(* Admitting never loses anything, and the first candidate is admitted.     *)
LEMMA AdmitTakes ==
  ASSUME NEW n, NEW refers, Graph(n, refers), NEW limit \in Nat \ {0}, NEW chosen,
         Selection(n, refers, limit, chosen), NEW f \in 1..n
  PROVE  /\ Len(Admit(refers, limit, chosen, f)) >= Len(chosen)
         /\ chosen = <<>> /\ ~Cyclic(refers) => Len(Admit(refers, limit, chosen, f)) >= 1
<1> DEFINE C == Closure(refers, f)
           S == (1..n) \ ToSet(chosen)
           missing == Only(C, S)
           room == limit - Len(chosen)
           m == Min({room, Len(missing)})
           added == SubSeq(missing, 1, m)
<1>1. Admit(refers, limit, chosen, f) = chosen \o added
  BY OrderedIsAll DEF Admit
<1>2. C \in Seq(1..n)
  BY ClosureInOrder
<1>3. chosen \in Seq(1..n) /\ Len(chosen) \in Nat /\ Len(chosen) <= limit /\ room \in Nat
  BY DEF Selection
<1>8. ASSUME chosen = <<>>, ~Cyclic(refers) PROVE room >= 1 /\ Len(missing) >= 1
  <2>1. Len(chosen) = 0 /\ ToSet(chosen) = {} /\ S = 1..n
    BY <1>8 DEF ToSet
  <2>2. Len(C) >= 1
    BY <1>8, ClosureTakes
  <2>3. C[1] \in S /\ 1 \in 1..Len(C)
    <3> HIDE DEF C, S
    <3>1. Len(C) \in Nat
      BY <1>2
    <3>2. 1 \in 1..Len(C)
      BY <2>2, <3>1
    <3> QED BY <1>2, <2>1, <3>2, ElementOfSeq
  <2>4. missing \in Seq(1..n) /\ KeepsOrder(missing, C, S, Len(C))
    BY <1>2, OnlyKeepsOrder
  <2> HIDE DEF missing, C, S
  <2>5. \E q \in 1..Len(missing) : missing[q] = C[1]
    BY <2>3, <2>4 DEF KeepsOrder
  <2>6. Len(missing) \in Nat
    BY <2>4
  <2> QED BY <2>1, <2>5, <2>6
<1>4. missing \in Seq(1..n) /\ Len(missing) \in Nat
  BY <1>2, OnlyKeepsOrder
<1> HIDE DEF C, S, missing, room
<1>5. m \in {room, Len(missing)} /\ m \in Nat /\ m <= Len(missing)
  <2>1. room \in Int /\ Len(missing) \in Int
    BY <1>3, <1>4
  <2>2. m \in {room, Len(missing)} /\ m <= Len(missing)
    BY <2>1, MinOfTwo
  <2> QED BY <1>3, <1>4, <2>2
<1> HIDE DEF m
<1>6. added \in Seq(1..n) /\ Len(added) = m
  <2>1. m \in 0..Len(missing) /\ missing \in Seq(1..n)
    BY <1>4, <1>5
  <2> QED BY ONLY <2>1, PrefixOf
<1> HIDE DEF added
<1>7. Len(chosen \o added) = Len(chosen) + m
  BY <1>3, <1>6
<1> QED BY <1>1, <1>3, <1>5, <1>7, <1>8

(* With a slot for features, one is chosen.                                 *)
LEMMA ChosenTakes ==
  ASSUME NEW n, NEW refers, Graph(n, refers), ~Cyclic(refers), n >= 1, NEW limit \in Nat \ {0}
  PROVE  Len(Topological(refers, SelectFeatures(refers, limit))) >= 1
<1> n \in Nat
  BY DEF Graph
<1>1. PICK h : SelectSteps(h, n, refers, limit)
  BY SelectTrace
<1>2. ASSUME NEW k \in 1..n
      PROVE  /\ Selection(n, refers, limit, h[k - 1]) /\ h[k] = Admit(refers, limit, h[k - 1], k)
             /\ Len(h[k]) \in Nat /\ Len(h[k - 1]) \in Nat
  BY <1>1, k - 1 \in 0..n, k \in 0..n DEF SelectSteps, Selection
<1> DEFINE T == {k \in 0..n : k = 0 \/ Len(h[k]) >= 1}
<1>3. 0 \in T
  OBVIOUS
<1>4. ASSUME NEW k \in 0..(n - 1), k \in T PROVE k + 1 \in T
  <2>0. k + 1 \in 1..n /\ (k + 1) - 1 = k /\ k + 1 \in 0..n
    OBVIOUS
  <2> DEFINE d == h[k]
  <2>1. /\ Selection(n, refers, limit, d) /\ h[k + 1] = Admit(refers, limit, d, k + 1)
        /\ Len(d) \in Nat /\ Len(h[k + 1]) \in Nat
    BY <1>2, <2>0
  <2>2. k = 0 => d = <<>>
    BY <1>1 DEF SelectSteps
  <2>3. k # 0 => Len(d) >= 1
    BY <1>4
  <2> HIDE DEF d
  <2>4. /\ Len(Admit(refers, limit, d, k + 1)) >= Len(d)
        /\ d = <<>> => Len(Admit(refers, limit, d, k + 1)) >= 1
    BY <2>0, <2>1, AdmitTakes
  <2>5. Len(h[k + 1]) >= 1
    BY <2>1, <2>2, <2>3, <2>4
  <2> QED BY <2>0, <2>5
<1>5. n \in T
  <2> HIDE DEF T
  <2>1. 0..n \subseteq T
    BY <1>3, <1>4, Induction
  <2> QED BY <2>1
<1> DEFINE base == SelectFeatures(refers, limit)
<1>6. Len(base) >= 1 /\ Selection(n, refers, limit, base)
  BY <1>1, <1>5, n \in 0..n DEF SelectSteps
<1> HIDE DEF base
<1>7. base \in Seq(1..n) /\ Len(base) \in Nat /\ InOrder(refers, base)
  BY <1>6 DEF Selection
<1>8. 1 \in 1..Len(base)
  BY <1>6, <1>7
<1>9. refers[base[1]] = {}
  <2>1. \A d \in refers[base[1]] : \E m \in 1..(1 - 1) : base[m] = d
    BY ONLY <1>7, <1>8 DEF InOrder
  <2>2. 1..(1 - 1) = {}
    OBVIOUS
  <2> QED BY <2>1, <2>2
<1>10. Len(Topological(refers, base)) >= 1
  BY <1>7, <1>8, <1>9, TopologicalTakes
<1> QED BY <1>10 DEF base

(* What one plan takes from each lane.                                      *)
LEMMA LedgerTakes ==
  ASSUME NEW n, NEW refers, Graph(n, refers), NEW ledger \in Nat \ {0}, NEW cap \in Nat \ {0},
         NEW loop \in Nat \ {0}, NEW count, NEW slots, NEW limit, NEW turn,
         Slotted(n, ledger, cap, loop, count, slots, limit, turn), slots >= 1
  PROVE  (n + 1) + (turn % ledger) \in ToSet(Plan(refers, ledger, cap, loop))
<1> n \in Nat
  BY DEF Graph
<1> DEFINE C == Chosen(refers, count, limit)
           m == count - Len(C)
           L == SelectLedger(n + 1, ledger, m, turn)
<1>1. /\ Plan(refers, ledger, cap, loop) = C \o L /\ Selection(n, refers, count, C)
      /\ count > 0 => Len(C) <= count - slots
  <2>1. /\ Graph(n, refers) /\ ledger \in Nat /\ cap \in Nat /\ loop \in Nat \ {0}
        /\ Slotted(n, ledger, cap, loop, count, slots, limit, turn)
    OBVIOUS
  <2> QED BY ONLY <2>1, PlanIs
<1>2. /\ count \in Nat /\ turn \in Nat /\ slots \in Nat /\ count = Min({cap, n + ledger})
  BY DEF Slotted
<1>3. count > 0
  <2> DEFINE all == n + ledger
  <2>1. all \in Int /\ all > 0 /\ cap \in Int /\ cap > 0 /\ count = Min({cap, all})
    BY <1>2
  <2> HIDE DEF all
  <2>2. Min({cap, all}) \in {cap, all}
    BY <2>1, MinOfTwo
  <2> QED BY <2>1, <2>2
<1> HIDE DEF C
<1>4. C \in Seq(1..n) /\ Len(C) \in Nat /\ m \in Nat /\ m >= 1
  BY <1>1, <1>2, <1>3 DEF Selection
<1> HIDE DEF m
<1>5. Min({m, ledger}) \in Nat /\ Min({m, ledger}) >= 1
  <2>1. m \in Int /\ ledger \in Int
    BY <1>4
  <2>2. Min({m, ledger}) \in {m, ledger}
    BY <2>1, MinOfTwo
  <2> QED BY <1>4, <2>2
<1>6. L = [i \in 1..Min({m, ledger}) |-> (n + 1) + ((turn + i - 1) % ledger)]
  BY DEF SelectLedger
<1>7. L \in Seq((n + 1)..((n + 1) + ledger - 1)) /\ Len(L) = Min({m, ledger})
  BY <1>2, <1>4, n + 1 \in Nat, LedgerInTurn
<1>8. L[1] = (n + 1) + (turn % ledger) /\ 1 \in 1..Len(L)
  <2>1. turn + 1 - 1 = turn /\ 1 \in 1..Min({m, ledger})
    BY <1>2, <1>5
  <2> QED BY <1>6, <1>7, <2>1
<1> HIDE DEF L
<1>9. C \in Seq(Int) /\ L \in Seq(Int) /\ Len(L) \in Nat
  BY <1>4, <1>7
<1>10. (C \o L)[Len(C) + 1] = L[1] /\ Len(C) + 1 \in DOMAIN (C \o L)
  BY <1>4, <1>8, <1>9
<1> QED BY <1>1, <1>8, <1>10 DEF ToSet

(* With a slot left by the ledger, a feature is planned.                    *)
LEMMA FeatureTakes ==
  ASSUME NEW n, NEW refers, Graph(n, refers), ~Cyclic(refers), n >= 1, NEW ledger \in Nat,
         NEW cap \in Nat \ {0}, NEW loop \in Nat \ {0}, NEW count, NEW slots, NEW limit, NEW turn,
         Slotted(n, ledger, cap, loop, count, slots, limit, turn), count > slots
  PROVE  ToSet(Plan(refers, ledger, cap, loop)) \cap (1..n) # {}
<1> n \in Nat
  BY DEF Graph
<1> DEFINE C == Topological(refers, SelectFeatures(refers, limit))
           L == SelectLedger(n + 1, ledger, count - Len(C), turn)
<1>1. /\ count \in Nat /\ slots \in Nat /\ turn \in Nat /\ limit = Min({count - slots, n})
      /\ limit \in Nat
  BY DEF Slotted
<1>2. limit \in Nat \ {0}
  <2> DEFINE a == count - slots
  <2>1. a \in Int /\ a >= 1
    BY <1>1
  <2>2. limit = Min({a, n})
    BY <1>1
  <2> HIDE DEF a
  <2>3. limit \in {a, n}
    BY <2>1, <2>2, MinOfTwo
  <2> QED BY <1>1, <2>1, <2>3
<1>3. Len(C) >= 1 /\ Selection(n, refers, limit, C)
  BY <1>2, ChosenTakes, ChosenSelects
<1>4. Chosen(refers, count, limit) = C
  BY <1>1 DEF Chosen
<1>5. Plan(refers, ledger, cap, loop) = C \o L /\ Selection(n, refers, count, C)
  <2>1. /\ Graph(n, refers) /\ ledger \in Nat /\ cap \in Nat /\ loop \in Nat \ {0}
        /\ Slotted(n, ledger, cap, loop, count, slots, limit, turn)
    OBVIOUS
  <2> HIDE DEF C
  <2>2. /\ Plan(refers, ledger, cap, loop) =
             Chosen(refers, count, limit)
               \o SelectLedger(n + 1, ledger, count - Len(Chosen(refers, count, limit)), turn)
        /\ Selection(n, refers, count, Chosen(refers, count, limit))
    BY ONLY <2>1, PlanIs
  <2> QED BY <1>4, <2>2
<1> HIDE DEF C
<1>6. C \in Seq(1..n) /\ Len(C) \in Nat /\ Len(C) <= count /\ count - Len(C) \in Nat
  BY <1>1, <1>5 DEF Selection
<1>7. L \in Seq((n + 1)..((n + 1) + ledger - 1))
  BY <1>1, <1>6, n + 1 \in Nat, LedgerInTurn
<1> HIDE DEF L
<1>8. C \in Seq(Int) /\ L \in Seq(Int) /\ Len(L) \in Nat /\ 1 \in 1..Len(C)
  BY <1>3, <1>6, <1>7
<1>9. (C \o L)[1] = C[1] /\ 1 \in DOMAIN (C \o L)
  BY <1>6, <1>8
<1>10. C[1] \in 1..n
  BY <1>6, <1>8, ElementOfSeq
<1> QED BY <1>5, <1>9, <1>10 DEF ToSet

(* The smaller of two positive numbers is positive.                         *)
LEMMA MinOfPositives ==
  ASSUME NEW a \in Nat \ {0}, NEW b \in Nat \ {0}
  PROVE  Min({a, b}) \in Nat \ {0}
<1>1. a \in Int /\ b \in Int
  OBVIOUS
<1>2. Min({a, b}) \in {a, b}
  BY <1>1, MinOfTwo
<1> QED BY <1>2

(* Every ledger candidate has its turn in any 2 * ledger loops in a row.    *)
LEMMA LedgerServed ==
  ASSUME NEW n, NEW refers, Graph(n, refers), NEW ledger \in Nat \ {0}, NEW cap \in Nat \ {0},
         NEW loop \in Nat \ {0}, NEW x \in (n + 1)..(n + ledger)
  PROVE  \E l \in loop..(loop + 2 * ledger - 1) : x \in ToSet(Plan(refers, ledger, cap, l))
<1> DEFINE r == x - n - 1
           all == n + ledger
           count == Min({cap, all})
<1>1. n \in Nat /\ r \in 0..(ledger - 1) /\ (n + 1) + r = x /\ all \in Nat \ {0}
  BY DEF Graph
<1>2. count \in Nat \ {0}
  <2> HIDE DEF all
  <2> QED BY <1>1, MinOfPositives
<1>3. ASSUME NEW l \in Nat \ {0}, Rotation(l, count, n) % ledger = r, LedgerSlots(l, count, n, ledger) >= 1
      PROVE  x \in ToSet(Plan(refers, ledger, cap, l))
  <2>1. PICK c, slots, limit, turn : Slotted(n, ledger, cap, l, c, slots, limit, turn)
    BY <1>1, SlotsShared
  <2>2. c = count /\ turn = Rotation(l, count, n) /\ slots = LedgerSlots(l, count, n, ledger)
    BY <2>1 DEF Slotted
  <2>3. slots >= 1 /\ turn % ledger = r
    BY <1>3, <2>2
  <2>4. (n + 1) + (turn % ledger) \in ToSet(Plan(refers, ledger, cap, l))
    BY <2>1, <2>3, LedgerTakes
  <2> QED BY <1>1, <2>3, <2>4
<1> HIDE DEF r, all, count
<1>4. CASE n = 0 \/ count # 1
  <2> DEFINE a == loop - 1
  <2>1. a \in Nat
    OBVIOUS
  <2> HIDE DEF a
  <2>2. PICK b \in Nat : b >= a /\ b < a + ledger /\ b % ledger = r
    BY <1>1, <2>1, EveryRemainder
  <2> DEFINE l == b + 1
  <2>3. l \in Nat \ {0} /\ l \in loop..(loop + 2 * ledger - 1)
    BY <2>2 DEF a
  <2>4. Rotation(l, count, n) = b
    BY <1>4, <1>1, <2>2 DEF Rotation
  <2>5. LedgerSlots(l, count, n, ledger) >= 1
    <3>1. Min({count, ledger}) \in Nat \ {0}
      BY <1>2, MinOfPositives
    <3> QED BY <1>1, <1>4, <3>1 DEF LedgerSlots
  <2> HIDE DEF l
  <2>6. x \in ToSet(Plan(refers, ledger, cap, l))
    BY <1>3, <2>2, <2>3, <2>4, <2>5
  <2> QED BY <2>3, <2>6
<1>5. CASE n > 0 /\ count = 1
  <2> DEFINE q == (loop + 1) \div 2
             a == q - 1
  <2>1. q \in Nat \ {0} /\ loop <= 2 * q /\ 2 * q <= loop + 1
    BY SMTT(20)
  <2>2. a \in Nat /\ a + 1 = q
    BY <2>1
  <2> HIDE DEF a, q
  <2>3. PICK b \in Nat : b >= a /\ b < a + ledger /\ b % ledger = r
    BY <1>1, <2>2, EveryRemainder
  <2> DEFINE l == 2 * (b + 1)
  <2>4. l \in Nat \ {0} /\ l \in loop..(loop + 2 * ledger - 1)
    BY <2>1, <2>2, <2>3
  <2>5. l % 2 = 0 /\ l \div 2 = b + 1
    BY <2>3, SMTT(20)
  <2>6. Rotation(l, count, n) = b
    <3> HIDE DEF l
    <3>1. Max({1, b + 1}) = b + 1
      <4> DEFINE c == b + 1
      <4>1. c \in Int /\ c >= 1
        BY <2>3
      <4> HIDE DEF c
      <4> QED BY <4>1, MaxOfTwo
    <3> QED BY <1>5, <2>3, <2>5, <3>1 DEF Rotation
  <2>7. LedgerSlots(l, count, n, ledger) >= 1
    <3> HIDE DEF l
    <3> QED BY <1>1, <1>5, <2>5 DEF LedgerSlots
  <2> HIDE DEF l
  <2>8. x \in ToSet(Plan(refers, ledger, cap, l))
    BY <1>3, <2>3, <2>4, <2>6, <2>7
  <2> QED BY <2>4, <2>8
<1> QED BY <1>1, <1>4, <1>5

(* One of any two loops in a row plans a feature.                           *)
LEMMA FeaturesServed ==
  ASSUME NEW n, NEW refers, Graph(n, refers), ~Cyclic(refers), n >= 1, NEW ledger \in Nat,
         NEW cap \in Nat \ {0}, NEW loop \in Nat \ {0}
  PROVE  \E l \in loop..(loop + 1) : ToSet(Plan(refers, ledger, cap, l)) \cap (1..n) # {}
<1> DEFINE all == n + ledger
           count == Min({cap, all})
<1>1. n \in Nat /\ all \in Nat \ {0}
  BY DEF Graph
<1>2. count \in Nat \ {0}
  <2> HIDE DEF all
  <2> QED BY <1>1, MinOfPositives
<1>3. ASSUME NEW l \in Nat \ {0}, count > LedgerSlots(l, count, n, ledger)
      PROVE  ToSet(Plan(refers, ledger, cap, l)) \cap (1..n) # {}
  <2>1. PICK c, slots, limit, turn : Slotted(n, ledger, cap, l, c, slots, limit, turn)
    BY <1>1, SlotsShared
  <2>2. c = count /\ slots = LedgerSlots(l, count, n, ledger)
    BY <2>1 DEF Slotted
  <2>3. c > slots
    BY <1>3, <2>2
  <2> QED BY <2>1, <2>3, FeatureTakes
<1> HIDE DEF all, count
<1>4. \E l \in loop..(loop + 1) : l % 2 # 0
  BY SMTT(20)
<1>5. PICK l \in loop..(loop + 1) : l % 2 # 0
  BY <1>4
<1>6. l \in Nat \ {0}
  OBVIOUS
<1>7. count > LedgerSlots(l, count, n, ledger)
  BY <1>1, <1>2, <1>5 DEF LedgerSlots
<1> QED BY <1>3, <1>6, <1>7

-----------------------------------------------------------------------------
Size == Cardinality(Features)

(* What every state of the model has to plan for.                           *)
WellPosed ==
  /\ Graph(Size, needs) /\ Features = 1..Size /\ Jobs = 1..(Size + backlog.ledger)
  /\ Size \in Nat /\ backlog.ledger \in Nat /\ backlog.slots \in Nat
  /\ backlog.loop \in Nat \ {0}

(* Whatever a loop finds to plan for is well posed.                         *)
LEMMA BacklogFound == backlog \in Backlogs => WellPosed
<1> SUFFICES ASSUME backlog \in Backlogs PROVE WellPosed
  OBVIOUS
<1>1. Backlog(backlog)
  BY DispatchAssumption
<1>2. /\ Size \in Nat /\ needs \in [1..Size -> SUBSET (1..Size)]
      /\ backlog.ledger \in Nat /\ backlog.slots \in Nat /\ backlog.loop \in Nat \ {0}
  BY <1>1 DEF Backlog, Size, Features, needs
<1>3. Features = 1..Size
  BY <1>2 DEF Features
<1> QED BY <1>2, <1>3 DEF WellPosed, Graph, Jobs, Size

(* What the scheduler's rounds do, assignment by assignment.                *)
ScheduleSteps(h, N, P) ==
  /\ h[0] = <<>> /\ h[N] = Arranged(P)
  /\ \A k \in 1..N : h[k] = Schedule(P, h[k - 1], Rounds(P)[k])

(* The rounds go through the assignments as often as there are assignments. *)
LEMMA RoundsRepeat ==
  ASSUME NEW Y, NEW P \in Seq(Y)
  PROVE  /\ Len(P) * Len(P) \in Nat /\ DOMAIN Rounds(P) = 1..(Len(P) * Len(P))
         /\ Len(P) <= Len(P) * Len(P)
         /\ \A k \in 1..(Len(P) * Len(P)) : Rounds(P)[k] \in Y /\ Rounds(P)[k] \in ToSet(P)
         /\ \A k \in 1..Len(P) : Rounds(P)[k] = P[k]
<1> DEFINE L == Len(P)
           N == L * L
<1>1. L \in Nat /\ N \in Nat /\ L <= N
  OBVIOUS
<1>2. N > 0 => L > 0
  OBVIOUS
<1>3. Rounds(P) = [i \in 1..N |-> P[1 + ((i - 1) % L)]]
  BY DEF Rounds
<1> HIDE DEF N
<1>4. ASSUME NEW k \in 1..N PROVE 1 + ((k - 1) % L) \in 1..L
  <2>1. k - 1 \in Nat /\ L \in Nat \ {0}
    BY <1>1, <1>2
  <2> HIDE DEF L
  <2>2. (k - 1) % L \in 0..(L - 1)
    BY <2>1
  <2> QED BY <2>1, <2>2
<1>5. ASSUME NEW k \in 1..N PROVE Rounds(P)[k] \in Y /\ Rounds(P)[k] \in ToSet(P)
  <2>1. Rounds(P)[k] = P[1 + ((k - 1) % L)]
    BY <1>3
  <2> QED BY <1>4, <2>1 DEF ToSet
<1>6. ASSUME NEW k \in 1..L PROVE Rounds(P)[k] = P[k]
  <2>1. (k - 1) % L = k - 1
    <3>1. k - 1 \in Nat /\ L \in Nat \ {0} /\ k - 1 < L
      BY <1>1
    <3> HIDE DEF L
    <3> QED BY <3>1
  <2>2. k \in 1..N
    BY <1>1
  <2>3. 1 + (k - 1) = k
    OBVIOUS
  <2> QED BY <1>3, <2>1, <2>2, <2>3
<1>7. DOMAIN Rounds(P) = 1..N
  BY <1>3
<1> QED BY <1>1, <1>5, <1>6, <1>7 DEF N

(* The scheduler's order goes through its rounds.                           *)
LEMMA ArrangedTrace ==
  ASSUME NEW Y, NEW P \in Seq(Y)
  PROVE  \E h \in [0..(Len(P) * Len(P)) -> Seq(Y)] : ScheduleSteps(h, Len(P) * Len(P), P)
<1> DEFINE op(done, job) == Schedule(P, done, job)
           X == Seq(Y)
           start == <<>>
           seq == Rounds(P)
           n == Len(P) * Len(P)
           Fold(g) == [s \in SUBSET (DOMAIN seq) |->
                         IF s = {} THEN start ELSE op(g[s \ {Max(s)}], seq[Max(s)])]
           step == [p \in X \X (1..n) |-> op(p[1], seq[p[2]])]
<1>1. Arranged(P) = (CHOOSE g : g = Fold(g))[DOMAIN seq]
  <2>1. Arranged(P) = FoldLeft(op, start, seq)
    BY Zenon DEF Arranged
  <2> QED BY <2>1, Zenon DEF FoldLeft, MapThenFoldSet
<1>2. DOMAIN seq = 1..n /\ n \in Nat
  BY RoundsRepeat
<1>3. start \in X /\ \A x \in X, k \in 1..n : op(x, seq[k]) \in X
  <2>1. ASSUME NEW x \in X, NEW k \in 1..n PROVE op(x, seq[k]) \in X
    <3>1. seq[k] \in Y
      BY RoundsRepeat
    <3> HIDE DEF seq
    <3> QED BY <3>1 DEF Schedule
  <2> HIDE DEF op
  <2> QED BY <2>1
<1> HIDE DEF X, start, op, n, seq
<1>4. step \in [X \X (1..n) -> X]
  BY <1>3
<1>5. PICK g : g = Fold(g) /\ g = CHOOSE f1 : f1 = Fold(f1)
  <2>1. PICK g \in [SUBSET (1..n) -> X] : \A s \in SUBSET (1..n) : FoldsTo(g, start, step, s)
    BY <1>2, <1>3, <1>4, FoldExists
  <2>2. ASSUME NEW s \in SUBSET (1..n)
        PROVE  g[s] = IF s = {} THEN start ELSE op(g[s \ {Max(s)}], seq[Max(s)])
    <3>1. s # {} => Max(s) \in 1..n
      BY <1>2, MaxIsMember
    <3> QED BY <2>1, <3>1 DEF FoldsTo
  <2>3. g = Fold(g)
    BY <1>2, <2>1, <2>2
  <2> HIDE DEF Fold
  <2> QED BY <2>3
<1> DEFINE rest == [s \in SUBSET (1..n) |-> op(g[s \ {Max(s)}], seq[Max(s)])]
<1>6. FoldOf(g, start, rest, n)
  BY <1>2, <1>5 DEF FoldOf
<1>7. Takes(g, rest, step, X, n)
  BY <1>2, MaxIsMember DEF Takes
<1>8. PICK h : Traced(h, X, start, step, n) /\ h[n] = g[1..n]
  <2> HIDE DEF rest, step, Fold
  <2>1. start \in X /\ n \in Nat
    BY <1>2, <1>3
  <2>2. StepOn(step, X, n)
    BY <1>4 DEF StepOn
  <2> QED BY <2>1, <2>2, <1>6, <1>7, FoldTrace
<1>9. ASSUME NEW k \in 1..n PROVE h[k] = op(h[k - 1], seq[k])
  <2>1. h[k - 1] \in X
    BY <1>2, <1>8, k - 1 \in 0..n DEF Traced
  <2> QED BY <1>8, <2>1 DEF Traced
<1>10. Arranged(P) = h[n]
  <2> HIDE DEF Fold
  <2> QED BY <1>1, <1>2, <1>5, <1>8
<1>11. h \in [0..n -> X] /\ h[0] = start
  BY <1>8 DEF Traced
<1> QED BY <1>9, <1>10, <1>11 DEF X, start, op, n, seq, ScheduleSteps

(* A plan in order is run as it is: the first round takes every assignment. *)
LEMMA ArrangedIsPlan ==
  ASSUME WellPosed, NEW P, SoundPlan(Size, needs, backlog.ledger, backlog.slots, P)
  PROVE  Arranged(P) = P
<1> DEFINE L == Len(P)
           N == L * L
           Reached(k) == IF k < L THEN SubSeq(P, 1, k) ELSE P
<1>1. P \in Seq(Jobs) /\ Distinct(P) /\ L \in Nat /\ DOMAIN P = 1..L
  BY DEF SoundPlan, WellPosed
<1>2. PICK h \in [0..N -> Seq(Jobs)] : ScheduleSteps(h, N, P)
  BY <1>1, ArrangedTrace
<1>3. N \in Nat /\ L <= N
  BY <1>1, RoundsRepeat
<1> HIDE DEF N
<1> DEFINE T == {k \in 0..N : h[k] = Reached(k)}
<1>4. 0 \in T
  BY <1>2, <1>3 DEF ScheduleSteps
<1>5. ASSUME NEW k \in 0..(N - 1), k \in T PROVE k + 1 \in T
  <2> DEFINE job == Rounds(P)[k + 1]
             done == h[k]
  <2>0. k + 1 \in 1..N /\ (k + 1) - 1 = k /\ k \in Nat
    BY <1>3
  <2>1. h[k + 1] = Schedule(P, done, job) /\ done = Reached(k)
    BY <1>2, <1>5, <2>0 DEF ScheduleSteps
  <2>2. CASE k < L
    <3>1. job = P[k + 1] /\ k + 1 \in 1..L
      BY <1>1, <2>0, <2>2, RoundsRepeat
    <3> HIDE DEF job, done
    <3>2. done \in Seq(Jobs) /\ Len(done) = k /\ \A i \in 1..k : done[i] = P[i]
      <4>1. done = SubSeq(P, 1, k) /\ k \in 0..Len(P)
        BY <2>0, <2>1, <2>2
      <4> QED BY <1>1, <4>1, PrefixOf
    <3>3. job \notin ToSet(done)
      BY <1>1, <3>1, <3>2 DEF ToSet, Distinct
    <3>4. DependsOn(needs, P, job) \subseteq ToSet(done)
      <4> SUFFICES ASSUME NEW d \in DependsOn(needs, P, job) PROVE d \in ToSet(done)
        OBVIOUS
      <4>1. job \in 1..Size /\ d \in needs[job]
        BY DEF DependsOn, WellPosed, Candidates, Features
      <4>2. PICK m \in 1..((k + 1) - 1) : P[m] = d
        BY <3>1, <4>1 DEF SoundPlan
      <4> QED BY <2>0, <3>2, <4>2 DEF ToSet
    <3>5. h[k + 1] = Append(done, P[k + 1])
      BY <2>1, <3>1, <3>3, <3>4 DEF Schedule
    <3>6. Append(done, P[k + 1]) = SubSeq(P, 1, k + 1)
      <4>1. SubSeq(P, 1, k + 1) \in Seq(Jobs) /\ Len(SubSeq(P, 1, k + 1)) = k + 1
            /\ \A i \in 1..(k + 1) : SubSeq(P, 1, k + 1)[i] = P[i]
        <5>1. k + 1 \in 0..Len(P)
          BY <3>1, <2>0
        <5> QED BY <1>1, <5>1, PrefixOf
      <4>2. /\ Append(done, P[k + 1]) \in Seq(Jobs) /\ Len(Append(done, P[k + 1])) = k + 1
            /\ \A i \in 1..(k + 1) : Append(done, P[k + 1])[i] = P[i]
        BY <1>1, <3>1, <3>2
      <4> DEFINE u == Append(done, P[k + 1])
                 v == SubSeq(P, 1, k + 1)
      <4>3. u \in Seq(Jobs) /\ v \in Seq(Jobs) /\ Len(u) = Len(v) /\ \A i \in 1..Len(u) : u[i] = v[i]
        BY <4>1, <4>2
      <4> HIDE DEF u, v
      <4>4. u = v
        BY <4>3, SeqEqual
      <4> QED BY <4>4 DEF u, v
    <3>7. SubSeq(P, 1, L) = P
      BY <1>1, SubSeqFull
    <3>8. h[k + 1] = Reached(k + 1)
      <4>1. CASE k + 1 < L
        BY <4>1, <3>5, <3>6
      <4>2. CASE k + 1 = L
        <5>1. h[k + 1] = SubSeq(P, 1, L)
          BY <3>5, <3>6, <4>2
        <5>2. ~(k + 1 < L)
          BY <1>1, <4>2
        <5> QED BY ONLY <3>7, <5>1, <5>2
      <4>3. k + 1 < L \/ k + 1 = L
        <5>1. L \in Nat /\ k + 1 \in 1..L
          BY <1>1, <3>1
        <5> HIDE DEF L
        <5> QED BY ONLY <5>1
      <4> HIDE DEF Reached
      <4> QED BY <4>1, <4>2, <4>3
    <3> QED BY <2>0, <3>8
  <2>3. CASE k >= L
    <3>1. done = P
      <4>1. ~(k < L)
        BY <1>1, <2>0, <2>3
      <4> QED BY ONLY <2>1, <4>1
    <3>2. job \in ToSet(P)
      BY <1>1, <2>0, RoundsRepeat DEF N
    <3> HIDE DEF job, done
    <3>3. h[k + 1] = P
      BY <2>1, <3>1, <3>2 DEF Schedule
    <3>4. Reached(k + 1) = P
      <4>1. ~(k + 1 < L)
        BY <1>1, <2>0, <2>3
      <4> QED BY ONLY <4>1
    <3> QED BY <2>0, <3>3, <3>4
  <2> QED BY <1>1, <2>0, <2>2, <2>3
<1>6. N \in T
  <2> HIDE DEF T, N
  <2>1. 0..N \subseteq T
    BY <1>3, <1>4, <1>5, Induction
  <2> QED BY <1>3, <2>1
<1>7. h[N] = Arranged(P)
  BY <1>2 DEF ScheduleSteps
<1>8. Reached(N) = P
  <2>1. ~(N < L)
    BY <1>1, <1>3
  <2> QED BY ONLY <2>1
<1> HIDE DEF Reached
<1> QED BY <1>6, <1>7, <1>8

(* What is left of the plan is its end.                                     *)
Remaining ==
  /\ SoundPlan(Size, needs, backlog.ledger, backlog.slots, plan)
  /\ todo \in Seq(Jobs) /\ Len(todo) <= Len(plan)
  /\ \A i \in 1..Len(todo) : todo[i] = plan[(Len(plan) - Len(todo)) + i]

Shape ==
  /\ handoffs \in Seq(Handoffs)
  /\ drafts \in Seq([handoffs : Seq(Handoffs), evaluation : Evaluations])
  /\ pc = "attempt" => todo # <<>> /\ result \in Results \cup {"running"}
  /\ pc = "plan" => answered = {}
  /\ pc \in {"plan", "next", "attempt", "stopped", "settle", "audit", "over"}

Settled == pc = "over" /\ Drafting

(* Where the passes stand.                                                  *)
Passes ==
  /\ Len(drafts) \in {draft - 1, draft}
  /\ pc = "attempt" => Len(drafts) = draft - 1
  /\ pc = "next" /\ Len(drafts) = draft => todo = <<>>
  /\ pc = "plan" => Len(drafts) = draft - 1
  /\ pc \in {"settle", "audit"} => Drafting
  /\ pc \in {"settle", "audit"} \/ Settled => Len(drafts) = Drafts /\ tree = Winner
  /\ pc = "audit" \/ Settled => rows = WinnersRows /\ evidence \subseteq {Winner}
  /\ Settled => \A h \in ToSet(drafts[Winner].handoffs) : audit[h.job] = Winner

Processed == {plan[i] : i \in 1..(Len(plan) - Len(todo))}

(* What was looked at was skipped where something it depends on was not done. *)
Skipping ==
  pc \in {"next", "attempt"} =>
    /\ failed \cup skipped \subseteq Processed
    /\ \A j \in Processed : j \in skipped <=> HeldBack(j)
    /\ pc = "attempt" => ~HeldBack(Current)

DispatchInv == TypeOK /\ Remaining /\ Shape /\ Passes /\ EveryAnswerHasItsRow /\ Skipping

(* What was found to plan for does not change.                              *)
LEMMA BacklogStays == [Next]_vars => backlog' = backlog
BY DEF Next, MakePlan, Proceeds, Skip, Take, TakeNobody, Works, Answer, Deliver, Evaluate,
       NextDraft, Restore, Settle, RewriteAudit, Stray, vars

(* Neither does what is said of it alone.                                   *)
LEMMA SameBacklog ==
  ASSUME backlog' = backlog
  PROVE  /\ Jobs' = Jobs /\ Handoffs' = Handoffs /\ Size' = Size /\ needs' = needs
         /\ Features' = Features
BY DEF Jobs, Handoffs, Size, needs, Features

(* The set of a sequence.                                                   *)
LEMMA ToSetOf ==
  ASSUME NEW Y, NEW s \in Seq(Y)
  PROVE  ToSet(s) \subseteq Y /\ \A x : x \in ToSet(s) <=> \E i \in 1..Len(s) : s[i] = x
<1>1. DOMAIN s = 1..Len(s) /\ \A i \in 1..Len(s) : s[i] \in Y
  OBVIOUS
<1> QED BY <1>1 DEF ToSet

(* Removing the head of a sequence.                                         *)
LEMMA TailOf ==
  ASSUME NEW Y, NEW s \in Seq(Y), s # <<>>
  PROVE  /\ Head(s) \in Y /\ Tail(s) \in Seq(Y) /\ Len(Tail(s)) = Len(s) - 1
         /\ Len(s) \in Nat \ {0} /\ Head(s) = s[1]
         /\ \A i \in 1..Len(Tail(s)) : Tail(s)[i] = s[i + 1]
         /\ ToSet(Tail(s)) \subseteq ToSet(s) /\ Head(s) \in ToSet(s)
<1>1. /\ Head(s) \in Y /\ Tail(s) \in Seq(Y) /\ Len(Tail(s)) = Len(s) - 1
      /\ Len(s) \in Nat \ {0} /\ Head(s) = s[1]
      /\ \A i \in 1..Len(Tail(s)) : Tail(s)[i] = s[i + 1]
  BY HeadTailProperties, EmptySeq
<1>2. \A i \in 1..Len(Tail(s)) : i + 1 \in 1..Len(s)
  BY <1>1
<1>3. ToSet(Tail(s)) \subseteq ToSet(s)
  <2> SUFFICES ASSUME NEW x \in ToSet(Tail(s)) PROVE x \in ToSet(s)
    OBVIOUS
  <2>1. PICK i \in 1..Len(Tail(s)) : Tail(s)[i] = x
    <3> DEFINE t == Tail(s)
    <3>1. t \in Seq(Y) /\ x \in ToSet(t)
      BY <1>1
    <3> HIDE DEF t
    <3>2. \E i \in 1..Len(t) : t[i] = x
      BY <3>1, ToSetOf
    <3> QED BY <3>2 DEF t
  <2>2. s[i + 1] = x /\ i + 1 \in 1..Len(s)
    BY <1>1, <1>2, <2>1
  <2> QED BY <2>2, ToSetOf
<1>4. Head(s) \in ToSet(s)
  BY <1>1, ToSetOf, 1 \in 1..Len(s)
<1> QED BY <1>1, <1>3, <1>4

(* A pass starts with the whole plan before it.                             *)
LEMMA PassStarts ==
  ASSUME WellPosed, backlog' = backlog, NEW P,
         SoundPlan(Size, needs, backlog.ledger, backlog.slots, P), StartPass(P)
  PROVE  /\ plan' = P /\ todo' = P /\ P \in Seq(Jobs) /\ ToSet(P) \subseteq Jobs
         /\ Remaining'
<1>1. plan' = P /\ todo' = P
  BY ArrangedIsPlan DEF StartPass
<1>2. P \in Seq(Jobs) /\ Len(P) \in Nat
  BY DEF SoundPlan, WellPosed
<1>3. ToSet(P) \subseteq Jobs
  BY <1>2, ToSetOf
<1>4. Remaining'
  <2>1. SoundPlan(Size, needs, backlog.ledger, backlog.slots, plan)'
    BY <1>1, SameBacklog
  <2>2. \A i \in 1..Len(P) : (Len(P) - Len(P)) + i = i
    BY <1>2
  <2> QED BY <1>1, <1>2, <2>1, <2>2, SameBacklog DEF Remaining
<1> QED BY <1>1, <1>2, <1>3, <1>4

(* What is left of a pass stays the end of the plan.                        *)
LEMMA RemainingStep == WellPosed /\ Remaining /\ Shape /\ [Next]_vars => Remaining'
<1> SUFFICES ASSUME WellPosed, Remaining, Shape, [Next]_vars PROVE Remaining'
  OBVIOUS
<1>1. backlog' = backlog
  BY BacklogStays
<1>2. /\ Jobs' = Jobs /\ Handoffs' = Handoffs /\ Size' = Size /\ needs' = needs
      /\ Features' = Features
  BY <1>1, SameBacklog
<1>3. plan \in Seq(Jobs) /\ Len(plan) \in Nat
  BY DEF Remaining, SoundPlan, WellPosed
<1>4. ASSUME plan' = plan, todo' = todo PROVE Remaining'
  BY <1>1, <1>2, <1>4 DEF Remaining
<1>5. ASSUME plan' = plan, todo # <<>>, todo' = Tail(todo) PROVE Remaining'
  <2>1. /\ Len(todo') = Len(todo) - 1 /\ Len(todo) \in Nat \ {0} /\ todo' \in Seq(Jobs)
        /\ \A i \in 1..Len(todo') : todo'[i] = todo[i + 1]
    BY <1>5, TailOf DEF Remaining
  <2>2. ASSUME NEW i \in 1..Len(todo') PROVE todo'[i] = plan[(Len(plan) - Len(todo')) + i]
    <3>1. i + 1 \in 1..Len(todo) /\ (Len(plan) - Len(todo)) + (i + 1) = (Len(plan) - Len(todo')) + i
      BY <1>3, <2>1
    <3>2. todo[i + 1] = plan[(Len(plan) - Len(todo)) + (i + 1)]
      BY <3>1 DEF Remaining
    <3> QED BY <2>1, <3>1, <3>2
  <2>3. Len(todo') <= Len(plan)
    BY <1>3, <2>1 DEF Remaining
  <2> QED BY <1>1, <1>2, <1>5, <2>1, <2>2, <2>3 DEF Remaining
<1>6. ASSUME plan' = plan, Stopped PROVE Remaining'
  <2>1. todo' = <<>> /\ Len(todo') = 0
    BY <1>6 DEF Stopped
  <2> QED BY <1>1, <1>2, <1>3, <1>6, <2>1 DEF Remaining
<1>7. ASSUME MakePlan PROVE Remaining'
  <2>1. CASE backlog.slots > 0 /\ Cyclic(needs)
    BY <1>4, <1>7, <2>1 DEF MakePlan, passVars
  <2>2. CASE ~(backlog.slots > 0 /\ Cyclic(needs))
    <3>1. StartPass(Plan(needs, backlog.ledger, backlog.slots, backlog.loop))
      BY <1>7, <2>2 DEF MakePlan
    <3>2. SoundPlan(Size, needs, backlog.ledger, backlog.slots,
                    Plan(needs, backlog.ledger, backlog.slots, backlog.loop))
      BY PlanIsSound DEF WellPosed
    <3> QED BY <1>1, <3>1, <3>2, PassStarts
  <2> QED BY <2>1, <2>2
<1>8. ASSUME NextDraft PROVE Remaining'
  BY <1>1, <1>8, PassStarts DEF NextDraft, Remaining
<1>9. ASSUME Skip PROVE Remaining'
  BY <1>5, <1>9 DEF Skip
<1>10. ASSUME Take PROVE Remaining'
  BY <1>4, <1>6, <1>10 DEF Take
<1>11. ASSUME Answer PROVE Remaining'
  <2>1. CASE result = "stop"
    BY <1>6, <1>11, <2>1 DEF Answer
  <2>2. CASE result # "stop" /\ MayRetry
    BY <1>4, <1>6, <1>11, <2>2 DEF Answer, Retry
  <2>3. CASE result # "stop" /\ ~MayRetry
    <3>1. todo' = Tail(todo) /\ plan' = plan
      BY <1>11, <2>3 DEF Answer, Conclude
    <3>2. todo # <<>>
      BY <1>11 DEF Answer, Shape
    <3> QED BY <1>5, <3>1, <3>2
  <2> QED BY <2>1, <2>2, <2>3
<1>12. CASE TakeNobody \/ Works \/ Deliver \/ Evaluate \/ Restore \/ Settle \/ RewriteAudit \/ Stray
            \/ UNCHANGED vars
  BY <1>4, <1>12 DEF TakeNobody, Works, Deliver, Evaluate, Restore, Settle, RewriteAudit, Stray,
                     vars, passVars
<1> QED BY <1>7, <1>8, <1>9, <1>10, <1>11, <1>12 DEF Next, Proceeds

(* The drafts' order is strict and total, so a best draft exists.           *)
LEMMA BetterOrders ==
  ASSUME Shape
  PROVE  /\ DOMAIN drafts = 1..Len(drafts) /\ Len(drafts) \in Nat
         /\ \A i \in DOMAIN drafts : /\ drafts[i].evaluation \in Evaluations
                                     /\ drafts[i].handoffs \in Seq(Handoffs)
         /\ \A i, j \in DOMAIN drafts : i # j => Better(i, j) \/ Better(j, i)
         /\ \A i, j \in DOMAIN drafts : Better(i, j) => ~Better(j, i)
         /\ \A i, j, k \in DOMAIN drafts : Better(i, j) /\ Better(j, k) => Better(i, k)
<1>1. DOMAIN drafts = 1..Len(drafts) /\ Len(drafts) \in Nat
      /\ \A i \in DOMAIN drafts : /\ drafts[i].evaluation \in Evaluations
                                  /\ drafts[i].handoffs \in Seq(Handoffs)
  <2> DEFINE R == [handoffs : Seq(Handoffs), evaluation : Evaluations]
  <2>1. \A r \in R : r.evaluation \in Evaluations /\ r.handoffs \in Seq(Handoffs)
    OBVIOUS
  <2>2. drafts \in Seq(R)
    BY DEF Shape
  <2> HIDE DEF R
  <2>3. DOMAIN drafts = 1..Len(drafts) /\ Len(drafts) \in Nat /\ \A i \in DOMAIN drafts : drafts[i] \in R
    BY <2>2
  <2> QED BY <2>1, <2>3
<1>2. \A i \in DOMAIN drafts : drafts[i].evaluation.newly \in Nat /\ drafts[i].evaluation.failing \in Nat
                               /\ i \in Nat
  BY <1>1, DispatchAssumption
<1>3. \A i, j \in DOMAIN drafts : i # j => Better(i, j) \/ Better(j, i)
  BY <1>2 DEF Better
<1>4. \A i, j \in DOMAIN drafts : Better(i, j) => ~Better(j, i)
  BY <1>2 DEF Better
<1>5. \A i, j, k \in DOMAIN drafts : Better(i, j) /\ Better(j, k) => Better(i, k)
  BY <1>2 DEF Better
<1> QED BY <1>1, <1>3, <1>4, <1>5

(* The draft that is restored is one that finished, and none is better.     *)
LEMMA WinnerIsBest ==
  ASSUME Shape, drafts # <<>>
  PROVE  Winner \in Contenders /\ \A j \in Contenders \ {Winner} : Better(Winner, j)
<1> DEFINE n == Len(drafts)
           Best(t) == \E i \in t : \A j \in t \ {i} : Better(i, j)
           S == {k \in 0..n : \A t \in SUBSET (1..k) : t # {} => Best(t)}
<1>1. DOMAIN drafts = 1..n /\ n \in Nat /\ n # 0
  BY BetterOrders DEF Shape
<1> HIDE DEF n
<1>2. 0 \in S
  <2>1. 1..0 = {}
    OBVIOUS
  <2>2. \A t \in SUBSET (1..0) : t = {}
    BY <2>1
  <2>3. 0 \in 0..n
    BY <1>1
  <2> HIDE DEF Best
  <2>4. \A t \in SUBSET (1..0) : t # {} => Best(t)
    BY <2>2
  <2> QED BY <2>3, <2>4
<1>3. ASSUME NEW k \in 0..(n - 1), k \in S PROVE k + 1 \in S
  <2>1. k + 1 \in 1..n
    BY <1>1
  <2> SUFFICES ASSUME NEW t \in SUBSET (1..(k + 1)), t # {} PROVE Best(t)
    BY <2>1
  <2>2. CASE k + 1 \notin t
    <3>1. t \in SUBSET (1..k)
      BY <2>2
    <3> QED BY <1>3, <3>1
  <2>3. CASE t = {k + 1}
    BY <2>3
  <2>4. CASE k + 1 \in t /\ t # {k + 1}
    <3> DEFINE u == t \ {k + 1}
    <3>1. u \in SUBSET (1..k) /\ u # {}
      BY <2>4
    <3>2. PICK i \in u : \A j \in u \ {i} : Better(i, j)
      BY <1>3, <3>1
    <3>3. u \subseteq DOMAIN drafts /\ k + 1 \in DOMAIN drafts /\ i # k + 1 /\ k + 1 \notin u
      BY <1>1, <2>1, <3>1
    <3>4. t = u \cup {k + 1} /\ i \in DOMAIN drafts
      BY <2>4, <3>3
    <3> HIDE DEF u
    <3>5. CASE Better(i, k + 1)
      BY <3>2, <3>4, <3>5
    <3>6. CASE Better(k + 1, i)
      <4>1. \A j \in u \ {i} : Better(k + 1, j)
        BY <3>2, <3>3, <3>4, <3>6, BetterOrders
      <4> QED BY <3>4, <3>6, <4>1
    <3> QED BY <3>3, <3>4, <3>5, <3>6, BetterOrders
  <2> QED BY <2>2, <2>3, <2>4
<1>4. n \in S
  <2> HIDE DEF S
  <2>1. 0..n \subseteq S
    BY <1>1, <1>2, <1>3, Induction
  <2> QED BY <1>1, <2>1
<1>5. Contenders \in SUBSET (1..n) /\ Contenders # {}
  <2>1. 1 \in DOMAIN drafts
    BY <1>1
  <2> QED BY <1>1, <2>1 DEF Contenders
<1>6. Best(Contenders)
  BY <1>4, <1>5
<1> QED BY <1>6 DEF Winner

(* Every step keeps the variables in their types.                           *)
LEMMA TypeStep == WellPosed /\ TypeOK /\ Remaining /\ Shape /\ Passes /\ [Next]_vars => TypeOK'
<1> SUFFICES ASSUME WellPosed, TypeOK, Remaining, Shape, Passes, [Next]_vars PROVE TypeOK'
  OBVIOUS
<1> MaxRetries \in Nat /\ MaxLoose \in Nat /\ Drafts \in Nat \ {0} /\ Prices \subseteq Nat
    /\ Ceiling \in Nat
  BY DispatchAssumption, PricesAssumption
<1>1. backlog' = backlog
  BY BacklogStays
<1>2. /\ Jobs' = Jobs /\ Handoffs' = Handoffs /\ Size' = Size /\ needs' = needs
      /\ Features' = Features
  BY <1>1, SameBacklog
<1>3. /\ plan \in Seq(Jobs) /\ todo \in Seq(Jobs) /\ ToSet(todo) \subseteq Jobs
      /\ ToSet(plan) \subseteq Jobs
  <2>1. plan \in Seq(Jobs) /\ todo \in Seq(Jobs)
    BY DEF Remaining, SoundPlan, WellPosed
  <2> QED BY <2>1, ToSetOf
<1>4. todo # <<>> => Current \in Jobs /\ Current \in ToSet(todo) /\ ToSet(Tail(todo)) \subseteq Jobs
  BY <1>3, TailOf DEF Current
<1>5. Remaining' /\ ToSet(plan') \subseteq Jobs /\ ToSet(todo') \subseteq Jobs
  <2>1. Remaining'
    BY RemainingStep
  <2>2. plan' \in Seq(Jobs) /\ todo' \in Seq(Jobs)
    BY <1>1, <1>2, <2>1 DEF Remaining, SoundPlan, WellPosed
  <2> QED BY <2>1, <2>2, ToSetOf
<1>6. ASSUME UNCHANGED <<spent, loose, draft, failed, skipped, retries, handoffs, answered, rows,
                         audit, evidence, tree>>
      PROVE  TypeOK'
  BY <1>1, <1>2, <1>5, <1>6 DEF TypeOK
<1>7. ASSUME MakePlan PROVE TypeOK'
  <2>1. CASE backlog.slots > 0 /\ Cyclic(needs)
    BY <1>6, <1>7, <2>1 DEF MakePlan, passVars, attemptVars, storeVars
  <2>2. CASE ~(backlog.slots > 0 /\ Cyclic(needs))
    <3>1. /\ failed' = {} /\ skipped' = {} /\ handoffs' = <<>> /\ answered' = {}
          /\ UNCHANGED <<spent, loose, draft, retries, rows, audit, evidence, tree>>
      BY <1>7, <2>2 DEF MakePlan, StartPass, attemptVars, storeVars
    <3>2. ToSet(<<>>) = {}
      BY DEF ToSet
    <3> QED BY <1>1, <1>2, <1>5, <3>1, <3>2 DEF TypeOK
  <2> QED BY <2>1, <2>2
<1>8. ASSUME NextDraft PROVE TypeOK'
  <2>1. /\ failed' = {} /\ skipped' = {} /\ handoffs' = <<>> /\ answered' = {} /\ rows' = {}
        /\ draft' = draft + 1 /\ tree' = draft + 1 /\ draft < Drafts
        /\ UNCHANGED <<spent, loose, retries, audit, evidence>>
    BY <1>8 DEF NextDraft, StartPass, DropRows
  <2>2. ToSet(<<>>) = {}
    BY DEF ToSet
  <2>3. draft + 1 \in 1..Drafts
    BY <2>1 DEF TypeOK
  <2>4. evidence \subseteq 1..Drafts
    BY DEF TypeOK
  <2> QED BY <1>1, <1>2, <1>5, <2>1, <2>2, <2>3, <2>4 DEF TypeOK
<1>9. ASSUME Skip PROVE TypeOK'
  BY <1>1, <1>2, <1>4, <1>5, <1>9 DEF TypeOK, Skip, attemptVars, storeVars
<1>10. ASSUME Take PROVE TypeOK'
  <2>1. skipped' \subseteq skipped \cup ToSet(todo)
    BY <1>10 DEF Take, Stopped
  <2>2. UNCHANGED <<spent, loose, draft, failed, retries, handoffs, answered, rows, audit, evidence, tree>>
    BY <1>10 DEF Take, Begin, storeVars
  <2> QED BY <1>1, <1>2, <1>3, <1>5, <2>1, <2>2 DEF TypeOK
<1>11. ASSUME Works PROVE TypeOK'
  <2>1. spent' \in Nat /\ loose' \in 0..MaxLoose
    BY <1>11 DEF TypeOK, Works, Spend, Touch, Finish, Expire
  <2>2. evidence' \subseteq 1..Drafts /\ UNCHANGED <<draft, failed, skipped, retries, handoffs, answered,
          rows, audit, tree>>
    BY <1>11 DEF TypeOK, Works, passVars
  <2> QED BY <1>1, <1>2, <1>5, <2>1, <2>2 DEF TypeOK
<1>12. ASSUME Answer PROVE TypeOK'
  <2>1. todo # <<>> /\ result \in Results /\ Current \in Jobs
    BY <1>4, <1>12 DEF Answer, Shape, Running
  <2>2. retries[Current] \in 0..MaxRetries
    BY <2>1 DEF TypeOK
  <2>3. Handoff \in Handoffs /\ Row \in [job : Jobs, try : 0..MaxRetries, answer : Results, draft : 1..Drafts]
    BY <2>1, <2>2 DEF Handoff, Row, Handoffs, TypeOK
  <2>4. CASE result = "stop"
    <3>1. /\ skipped' = skipped \cup ToSet(todo)
          /\ UNCHANGED <<spent, loose, draft, failed, retries, handoffs, answered, rows, audit, evidence, tree>>
      BY <1>12, <2>4 DEF Answer, Stopped, attemptVars
    <3> QED BY <1>1, <1>2, <1>3, <1>5, <3>1 DEF TypeOK
  <2>5. ASSUME result # "stop"
        PROVE  /\ answered' \subseteq Handoffs /\ draft' = draft /\ evidence' = evidence /\ tree' = tree
               /\ rows' \subseteq [job : Jobs, try : 0..MaxRetries, answer : Results, draft : 1..Drafts]
               /\ audit' \in [Jobs -> 0..Drafts]
    BY <1>12, <2>1, <2>3, <2>5 DEF Answer, Persist, TypeOK
  <2>6. CASE result # "stop" /\ MayRetry
    <3>1. /\ skipped' \subseteq skipped \cup ToSet(todo) /\ failed' = failed /\ handoffs' = handoffs
          /\ retries' = [retries EXCEPT ![Current] = @ + 1] /\ UNCHANGED <<spent, loose>>
      BY <1>12, <2>6 DEF Answer, Retry, Stopped, Begin
    <3>2. retries' \in [Jobs -> 0..MaxRetries]
      BY <2>1, <2>2, <2>6, <3>1 DEF TypeOK, MayRetry
    <3>3. skipped' \subseteq Jobs
      BY <1>3, <3>1 DEF TypeOK
    <3> QED BY <1>1, <1>2, <1>5, <2>5, <2>6, <3>1, <3>2, <3>3 DEF TypeOK
  <2>7. CASE result # "stop" /\ ~MayRetry
    <3>1. /\ skipped' = skipped /\ failed' \subseteq failed \cup {Current}
          /\ handoffs' = Append(handoffs, Handoff) /\ UNCHANGED <<spent, loose, retries>>
      BY <1>12, <2>7 DEF Answer, Conclude, attemptVars
    <3>2. handoffs' \in Seq(Handoffs)
      BY <2>3, <3>1 DEF Shape
    <3>3. ToSet(handoffs') \subseteq Handoffs
      BY <3>2, ToSetOf
    <3> QED BY <1>1, <1>2, <1>5, <2>1, <2>5, <2>7, <3>1, <3>3 DEF TypeOK
  <2> QED BY <2>4, <2>6, <2>7
<1>13. ASSUME Restore PROVE TypeOK'
  <2>1. drafts # <<>> /\ DOMAIN drafts = 1..Drafts
    BY <1>13, BetterOrders DEF Restore
  <2>2. Winner \in 1..Drafts
    BY <2>1, WinnerIsBest DEF Contenders
  <2> QED BY <1>1, <1>2, <1>5, <1>13, <2>2 DEF TypeOK, Restore, passVars
<1>14. ASSUME pc \in {"settle", "audit"}
       PROVE  /\ Winner \in 1..Drafts /\ drafts[Winner].handoffs \in Seq(Handoffs)
              /\ ToSet(drafts[Winner].handoffs) \subseteq Handoffs
  <2>1. Len(drafts) = Drafts
    BY <1>14 DEF Passes
  <2>2. drafts # <<>> /\ DOMAIN drafts = 1..Drafts
    BY <2>1, BetterOrders
  <2>3. Winner \in 1..Drafts
    BY <2>2, WinnerIsBest DEF Contenders
  <2>4. drafts[Winner].handoffs \in Seq(Handoffs)
    BY <2>2, <2>3, BetterOrders
  <2> QED BY <2>3, <2>4, ToSetOf
<1>15. ASSUME Settle PROVE TypeOK'
  <2>1. rows' \subseteq [job : Jobs, try : 0..MaxRetries, answer : Results, draft : 1..Drafts]
    BY <1>14, <1>15 DEF Settle, WinnersRows, Handoffs
  <2>2. evidence' \subseteq 1..Drafts
    BY <1>15 DEF Settle, TypeOK
  <2> QED BY <1>1, <1>2, <1>5, <1>15, <2>1, <2>2 DEF TypeOK, Settle, passVars, attemptVars
<1>16. ASSUME RewriteAudit PROVE TypeOK'
  <2>1. audit' \in [Jobs -> 0..Drafts]
    BY <1>14, <1>16 DEF RewriteAudit, TypeOK
  <2> QED BY <1>1, <1>2, <1>5, <1>14, <1>16, <2>1 DEF TypeOK, RewriteAudit, attemptVars
<1>17. ASSUME Stray PROVE TypeOK'
  <2>1. spent' = spent /\ loose' \in 0..MaxLoose
    BY <1>17 DEF Stray, LooseTouch, LooseEnds, TypeOK
  <2> QED BY <1>1, <1>2, <1>5, <1>17, <2>1 DEF TypeOK, Stray, passVars, storeVars
<1>18. CASE TakeNobody \/ Deliver \/ Evaluate \/ UNCHANGED vars
  BY <1>6, <1>18 DEF TakeNobody, Unmanned, Deliver, Evaluate, vars, passVars, attemptVars, storeVars
<1> QED BY <1>7, <1>8, <1>9, <1>10, <1>11, <1>12, <1>13, <1>15, <1>16, <1>17, <1>18
        DEF Next, Proceeds

(* An attempt that has answered has one of the answers.                     *)
LEMMA AnswerType ==
  ASSUME WellPosed, TypeOK, Remaining, Shape, Answer
  PROVE  /\ todo # <<>> /\ Current \in Jobs /\ result \in Results /\ Handoff \in Handoffs
         /\ Tail(todo) \in Seq(Jobs)
<1>1. todo # <<>> /\ result \in Results /\ todo \in Seq(Jobs)
  BY DEF Answer, Shape, Running, Remaining
<1>2. Current \in Jobs /\ Tail(todo) \in Seq(Jobs)
  BY <1>1, TailOf DEF Current
<1>3. retries[Current] \in 0..MaxRetries
  BY <1>2 DEF TypeOK
<1> QED BY <1>1, <1>2, <1>3 DEF Handoff, Handoffs

(* Every step keeps the drafts in step with the place in the loop.          *)
LEMMA ShapeStep == WellPosed /\ TypeOK /\ Remaining /\ Shape /\ Passes /\ [Next]_vars => Shape'
<1> SUFFICES ASSUME WellPosed, TypeOK, Remaining, Shape, Passes, [Next]_vars PROVE Shape'
  OBVIOUS
<1>1. backlog' = backlog
  BY BacklogStays
<1>2. Handoffs' = Handoffs /\ <<>> \in Seq(Handoffs)
  BY <1>1, SameBacklog
<1>3. ASSUME handoffs' \in Seq(Handoffs), UNCHANGED drafts,
             pc' \in {"next", "stopped", "settle", "audit", "over"}
      PROVE  Shape'
  BY <1>2, <1>3 DEF Shape
<1>4. ASSUME MakePlan PROVE Shape'
  <2>1. drafts' = drafts /\ pc' \in {"next", "stopped"}
    BY <1>4 DEF MakePlan, Goto
  <2>2. handoffs' = handoffs \/ handoffs' = <<>>
    BY <1>4 DEF MakePlan, StartPass, passVars
  <2> QED BY <1>2, <1>3, <2>1, <2>2 DEF Shape
<1>5. ASSUME Skip \/ Deliver \/ Restore \/ Settle PROVE Shape'
  <2>1. UNCHANGED <<handoffs, drafts>> /\ pc' \in {"next", "settle", "audit", "over"}
    BY <1>5 DEF Skip, Deliver, Restore, Settle, Goto, passVars
  <2> QED BY <1>3, <2>1 DEF Shape
<1>6. ASSUME Take PROVE Shape'
  <2>1. UNCHANGED <<handoffs, drafts>>
    BY <1>6 DEF Take
  <2>2. CASE result' = "stop"
    BY <1>3, <1>6, <2>1, <2>2 DEF Take, Stopped, Goto, Shape
  <2>3. CASE result' # "stop"
    <3>1. pc' = "attempt" /\ todo' = todo /\ todo # <<>> /\ result' = "running"
      BY <1>6, <2>3 DEF Take, Begin, Goto
    <3> QED BY <1>2, <2>1, <3>1 DEF Shape
  <2> QED BY <2>2, <2>3
<1>7. ASSUME TakeNobody PROVE Shape'
  <2>1. /\ UNCHANGED <<handoffs, drafts>>
        /\ pc' = "attempt" /\ todo' = todo /\ todo # <<>> /\ result' \in Results
    BY <1>7 DEF TakeNobody, Unmanned, Goto, passVars, Results
  <2> QED BY <1>2, <2>1 DEF Shape
<1>8. ASSUME Works PROVE Shape'
  <2>1. UNCHANGED <<handoffs, drafts, todo, pc>> /\ pc = "attempt"
    BY <1>8 DEF Works, passVars
  <2>2. result' \in Results \cup {"running"}
    BY <1>8 DEF Works, Spend, Touch, Finish, Expire, Results, Running
  <2> QED BY <1>2, <2>1, <2>2 DEF Shape
<1>9. ASSUME Answer PROVE Shape'
  <2>1. CASE result = "stop"
    BY <1>3, <1>9, <2>1 DEF Answer, Stopped, Goto, Shape
  <2>2. CASE result # "stop" /\ MayRetry /\ result' = "stop"
    BY <1>3, <1>9, <2>2 DEF Answer, Retry, Stopped, Goto, Shape
  <2>3. CASE result # "stop" /\ MayRetry /\ result' # "stop"
    <3>1. /\ pc' = "attempt" /\ todo' = todo /\ UNCHANGED <<handoffs, drafts>>
          /\ result' = "running" /\ todo # <<>>
      BY <1>9, <2>3, AnswerType DEF Answer, Retry, Begin, Goto
    <3> QED BY <1>2, <3>1 DEF Shape
  <2>4. CASE result # "stop" /\ ~MayRetry
    <3>1. handoffs' = Append(handoffs, Handoff) /\ drafts' = drafts /\ pc' = "next"
      BY <1>9, <2>4 DEF Answer, Conclude, Goto
    <3>2. Handoff \in Handoffs /\ handoffs \in Seq(Handoffs)
      BY <1>9, AnswerType DEF Shape
    <3>3. handoffs' \in Seq(Handoffs)
      BY <3>1, <3>2
    <3> QED BY <1>3, <3>1, <3>3
  <2> QED BY <2>1, <2>2, <2>3, <2>4
<1>10. ASSUME Evaluate PROVE Shape'
  <2>1. /\ UNCHANGED <<handoffs, todo, answered, pc>> /\ pc = "next"
        /\ \E evaluation \in Evaluations :
             drafts' = Append(drafts, [handoffs |-> handoffs, evaluation |-> evaluation])
    BY <1>10 DEF Evaluate, PassEnds, passVars
  <2> DEFINE R == [handoffs : Seq(Handoffs), evaluation : Evaluations]
  <2>2. \E r \in R : drafts' = Append(drafts, r)
    BY <2>1 DEF Shape
  <2>3. drafts \in Seq(R) /\ R' = R
    BY <1>2 DEF Shape
  <2> HIDE DEF R
  <2>4. drafts' \in Seq(R)
    BY <2>2, <2>3
  <2>5. handoffs' \in Seq(Handoffs)
    BY <2>1 DEF Shape
  <2> QED BY <1>2, <2>1, <2>4, <2>5 DEF Shape, R
<1>11. ASSUME NextDraft PROVE Shape'
  BY <1>2, <1>3, <1>11 DEF NextDraft, StartPass, PassEnds
<1>12. ASSUME RewriteAudit PROVE Shape'
  <2>1. Len(drafts) = Drafts /\ Drafts \in Nat \ {0}
    BY <1>12, DispatchAssumption DEF RewriteAudit, Passes
  <2>2. drafts # <<>> /\ DOMAIN drafts = 1..Drafts
    BY <2>1, BetterOrders
  <2>3. Winner \in DOMAIN drafts
    BY <2>2, WinnerIsBest DEF Contenders
  <2>4. drafts[Winner].handoffs \in Seq(Handoffs)
    BY <2>3, BetterOrders
  <2> QED BY <1>3, <1>12, <2>4 DEF RewriteAudit, Goto
<1>13. ASSUME Stray PROVE Shape'
  <2>1. UNCHANGED <<handoffs, drafts, todo, answered, pc, result>>
    BY <1>13 DEF Stray, LooseTouch, LooseEnds, passVars
  <2> QED BY <1>2, <2>1 DEF Shape
<1>14. ASSUME UNCHANGED vars PROVE Shape'
  BY <1>2, <1>14 DEF Shape, vars, passVars, attemptVars
<1> QED BY <1>4, <1>5, <1>6, <1>7, <1>8, <1>9, <1>10, <1>11, <1>12, <1>13, <1>14
        DEF Next, Proceeds

(* Whether a loop samples drafts is settled with its plan, and which draft  *)
(* is the best one once the last has been evaluated.                        *)
LEMMA SampledOnce ==
  ASSUME backlog' = backlog
  PROVE  /\ plan' = plan => Drafting' = Drafting
         /\ drafts' = drafts => Winner' = Winner /\ WinnersRows' = WinnersRows
<1>1. ASSUME plan' = plan PROVE Drafting' = Drafting
  BY <1>1 DEF Drafting
<1>2. ASSUME drafts' = drafts PROVE Winner' = Winner
  BY <1>2 DEF Winner, Contenders, Better, PassesGate
<1> QED BY <1>1, <1>2 DEF WinnersRows

(* Every step keeps the rows, the evidence and the audit of each pass       *)
(* apart.                                                                   *)
LEMMA PassesStep == WellPosed /\ TypeOK /\ Remaining /\ Shape /\ Passes /\ [Next]_vars => Passes'
<1> SUFFICES ASSUME WellPosed, TypeOK, Remaining, Shape, Passes, [Next]_vars PROVE Passes'
  OBVIOUS
<1>1. /\ draft \in 1..Drafts /\ Drafts \in Nat \ {0} /\ Len(drafts) \in Nat
      /\ Len(drafts) \in {draft - 1, draft}
  BY DispatchAssumption, BetterOrders DEF TypeOK, Passes
<1>2. backlog' = backlog
  BY BacklogStays
<1>3. ASSUME UNCHANGED <<plan, drafts, draft>>, pc' \in {"next", "attempt", "stopped"},
             pc' = "attempt" => Len(drafts) = draft - 1,
             pc' = "next" /\ Len(drafts) = draft => todo' = <<>>
      PROVE  Passes'
  BY <1>1, <1>3 DEF Passes, Settled
<1>4. ASSUME MakePlan PROVE Passes'
  <2>1. UNCHANGED <<drafts, draft>> /\ pc' \in {"next", "stopped"} /\ Len(drafts) = draft - 1
    BY <1>4 DEF MakePlan, Goto, Passes
  <2> QED BY <1>1, <2>1 DEF Passes, Settled
<1>5. ASSUME Skip PROVE Passes'
  BY <1>1, <1>3, <1>5 DEF Skip, Passes
<1>6. ASSUME Take \/ TakeNobody PROVE Passes'
  <2>1. /\ UNCHANGED <<plan, drafts, draft>> /\ pc' \in {"attempt", "stopped"}
        /\ pc = "next" /\ todo # <<>>
    BY <1>6 DEF Take, TakeNobody, Stopped, Goto
  <2>2. Len(drafts) = draft - 1
    BY <2>1 DEF Passes
  <2> QED BY <1>3, <2>1, <2>2
<1>7. ASSUME Works PROVE Passes'
  BY <1>1, <1>3, <1>7 DEF Works, Passes
<1>8. ASSUME Answer PROVE Passes'
  <2>1. UNCHANGED <<plan, drafts, draft>> /\ pc' \in {"next", "attempt", "stopped"} /\ pc = "attempt"
    BY <1>8 DEF Answer, Stopped, Retry, Conclude, Goto
  <2>2. Len(drafts) = draft - 1
    BY <2>1 DEF Passes
  <2> QED BY <1>1, <1>3, <2>1, <2>2
<1>9. ASSUME Stray PROVE Passes'
  <2>1. UNCHANGED <<plan, drafts, draft, pc, todo, tree, rows, evidence, audit>>
    BY <1>9 DEF Stray, passVars, storeVars
  <2>2. Drafting' = Drafting /\ Winner' = Winner /\ WinnersRows' = WinnersRows
    BY <1>2, <2>1, SampledOnce
  <2> QED BY <2>1, <2>2 DEF Passes, Settled
<1>10. ASSUME Deliver PROVE Passes'
  <2>1. UNCHANGED <<plan, drafts, draft>> /\ pc' = "over" /\ ~Drafting
    BY <1>10 DEF Deliver, Goto
  <2> QED BY <1>2, <2>1, SampledOnce DEF Passes, Settled
<1>11. ASSUME Evaluate PROVE Passes'
  <2>1. /\ UNCHANGED <<plan, draft, pc, todo>> /\ pc = "next" /\ todo = <<>> /\ Len(drafts) < draft
        /\ \E r : drafts' = Append(drafts, r)
    BY <1>11 DEF Evaluate, PassEnds, passVars
  <2>2. Len(drafts') = Len(drafts) + 1
    BY <2>1 DEF Shape
  <2> QED BY <1>1, <2>1, <2>2 DEF Passes, Settled
<1>12. ASSUME NextDraft PROVE Passes'
  <2>1. /\ UNCHANGED <<drafts, pc>> /\ pc = "next" /\ draft' = draft + 1 /\ Len(drafts) = draft
    BY <1>12 DEF NextDraft, PassEnds
  <2> QED BY <1>1, <2>1 DEF Passes, Settled
<1>13. ASSUME Restore PROVE Passes'
  <2>1. /\ UNCHANGED <<plan, drafts, draft>> /\ pc' = "settle" /\ Drafting /\ Len(drafts) = Drafts
        /\ tree' = Winner
    BY <1>13 DEF Restore, Goto, passVars
  <2>2. Drafting' /\ Winner' = Winner
    BY <1>2, <2>1, SampledOnce
  <2> QED BY <1>1, <2>1, <2>2 DEF Passes, Settled
<1>14. ASSUME Settle PROVE Passes'
  <2>1. /\ UNCHANGED <<plan, drafts, draft, tree>> /\ pc' = "audit" /\ pc = "settle"
        /\ rows' = WinnersRows /\ evidence' \subseteq {Winner}
    BY <1>14 DEF Settle, Goto, passVars
  <2>2. Drafting' = Drafting /\ Winner' = Winner /\ WinnersRows' = WinnersRows
    BY <1>2, <2>1, SampledOnce
  <2> QED BY <2>1, <2>2 DEF Passes, Settled
<1>15. ASSUME RewriteAudit PROVE Passes'
  <2>1. /\ UNCHANGED <<plan, drafts, draft, tree, rows, evidence>> /\ pc' = "over" /\ pc = "audit"
        /\ audit' = [j \in Jobs |-> IF \E h \in ToSet(drafts[Winner].handoffs) : h.job = j
                                    THEN Winner ELSE audit[j]]
    BY <1>15 DEF RewriteAudit, Goto
  <2>2. Drafting' = Drafting /\ Winner' = Winner /\ WinnersRows' = WinnersRows
    BY <1>2, <2>1, SampledOnce
  <2>3. Len(drafts) = Drafts
    BY <2>1 DEF Passes
  <2>4. ToSet(drafts[Winner].handoffs) \subseteq Handoffs
    <3>1. drafts # <<>> /\ DOMAIN drafts = 1..Drafts
      BY <1>1, <2>3, BetterOrders
    <3>2. Winner \in DOMAIN drafts
      BY <3>1, WinnerIsBest DEF Contenders
    <3>3. drafts[Winner].handoffs \in Seq(Handoffs)
      BY <3>2, BetterOrders
    <3> QED BY <3>3, ToSetOf
  <2>5. \A h \in ToSet(drafts[Winner].handoffs) : audit'[h.job] = Winner
    BY <2>1, <2>4 DEF Handoffs
  <2>6. \A h \in ToSet(drafts'[Winner'].handoffs) : audit'[h.job] = Winner'
    BY <2>1, <2>2, <2>5
  <2> QED BY <2>1, <2>2, <2>6 DEF Passes, Settled
<1>16. ASSUME UNCHANGED vars PROVE Passes'
  <2>1. UNCHANGED <<plan, drafts, draft, pc, todo, tree, rows, evidence, audit>>
    BY <1>16 DEF vars, passVars, storeVars
  <2>2. Drafting' = Drafting /\ Winner' = Winner /\ WinnersRows' = WinnersRows
    BY <1>2, <2>1, SampledOnce
  <2> QED BY <2>1, <2>2 DEF Passes, Settled
<1> QED BY <1>4, <1>5, <1>6, <1>7, <1>8, <1>9, <1>10, <1>11, <1>12, <1>13, <1>14, <1>15, <1>16
        DEF Next, Proceeds

(* An answer is written down before the next attempt begins.                *)
LEMMA RowsStep ==
  WellPosed /\ TypeOK /\ Remaining /\ Shape /\ Passes /\ EveryAnswerHasItsRow /\ [Next]_vars =>
    EveryAnswerHasItsRow'
<1> SUFFICES ASSUME WellPosed, TypeOK, Remaining, Shape, Passes, EveryAnswerHasItsRow, [Next]_vars
             PROVE  EveryAnswerHasItsRow'
  OBVIOUS
<1>1. backlog' = backlog
  BY BacklogStays
<1> DEFINE Of(h, d) == [job |-> h.job, try |-> h.try, answer |-> h.answer, draft |-> d]
<1>2. ASSUME pc \in {"plan", "next", "attempt", "stopped", "settle"}
      PROVE  rows = {Of(h, draft) : h \in answered}
  BY <1>2 DEF EveryAnswerHasItsRow
<1>3. ASSUME UNCHANGED <<rows, answered, draft>>,
             pc \in {"plan", "next", "attempt", "stopped", "settle"}
      PROVE  EveryAnswerHasItsRow'
  BY <1>2, <1>3 DEF EveryAnswerHasItsRow
<1>4. ASSUME MakePlan PROVE EveryAnswerHasItsRow'
  <2>1. answered = {} /\ answered' = {} /\ rows' = rows /\ draft' = draft /\ pc = "plan"
    BY <1>4 DEF MakePlan, StartPass, passVars, storeVars, Shape
  <2> QED BY <1>3, <2>1
<1>5. ASSUME Answer PROVE EveryAnswerHasItsRow'
  <2>1. pc = "attempt" /\ draft' = draft
    BY <1>5 DEF Answer
  <2>2. CASE result = "stop"
    BY <1>3, <1>5, <2>1, <2>2 DEF Answer
  <2>3. CASE result # "stop"
    <3>1. rows' = rows \cup {Of(Handoff, draft)} /\ answered' = answered \cup {Handoff}
      BY <1>5, <2>3 DEF Answer, Persist, Row, Handoff
    <3>2. rows = {Of(h, draft) : h \in answered}
      BY <1>2, <2>1
    <3>3. rows' = {Of(h, draft') : h \in answered'}
      BY <2>1, <3>1, <3>2
    <3> QED BY <3>3 DEF EveryAnswerHasItsRow
  <2> QED BY <2>2, <2>3
<1>6. ASSUME NextDraft PROVE EveryAnswerHasItsRow'
  BY <1>6 DEF NextDraft, DropRows, StartPass, EveryAnswerHasItsRow
<1>7. ASSUME Settle \/ RewriteAudit PROVE EveryAnswerHasItsRow'
  <2>1. pc \in {"settle", "audit"} /\ plan' = plan /\ pc' \in {"audit", "over"}
    BY <1>7 DEF Settle, RewriteAudit, Goto
  <2>2. Drafting'
    BY <1>1, <2>1, SampledOnce DEF Passes
  <2> QED BY <2>1, <2>2 DEF EveryAnswerHasItsRow
<1>8. ASSUME Stray \/ UNCHANGED vars PROVE EveryAnswerHasItsRow'
  <2>1. UNCHANGED <<rows, answered, draft, pc, plan>>
    BY <1>8 DEF Stray, vars, passVars, storeVars
  <2> QED BY <1>1, <2>1, SampledOnce DEF EveryAnswerHasItsRow
<1>9. ASSUME Skip \/ Take \/ TakeNobody \/ Works \/ Deliver \/ Evaluate \/ Restore
      PROVE  EveryAnswerHasItsRow'
  <2>1. UNCHANGED <<rows, answered, draft>> /\ pc \in {"next", "attempt"}
    BY <1>9 DEF Skip, Take, TakeNobody, Works, Deliver, Evaluate, Restore, PassEnds, passVars, storeVars
  <2> QED BY <1>3, <2>1
<1> QED BY <1>4, <1>5, <1>6, <1>7, <1>8, <1>9 DEF Next, Proceeds

(* The assignment looked at next depends on none that comes after it, and   *)
(* none before it depends on it.                                            *)
LEMMA CurrentIsNext ==
  ASSUME WellPosed, Remaining
  PROVE  /\ todo # <<>> => /\ {plan[i] : i \in 1..(Len(plan) - Len(Tail(todo)))} = Processed \cup {Current}
                           /\ Current \notin Processed
                           /\ \A j \in Processed \cup {Current} : Current \notin Depends(j)
         /\ \A i \in 1..Len(plan) : Depends(plan[i]) \subseteq {plan[m] : m \in 1..(i - 1)}
<1>1. /\ plan \in Seq(Jobs) /\ Len(plan) \in Nat /\ DOMAIN plan = 1..Len(plan) /\ Distinct(plan)
      /\ todo \in Seq(Jobs) /\ Len(todo) \in Nat /\ Len(todo) <= Len(plan)
  BY DEF Remaining, SoundPlan, WellPosed
<1>2. ASSUME NEW i \in 1..Len(plan), NEW d \in Depends(plan[i])
      PROVE  \E m \in 1..(i - 1) : plan[m] = d
  <2>1. plan[i] \in 1..Size /\ d \in needs[plan[i]]
    BY DEF Depends, DependsOn, WellPosed, Candidates, Features
  <2> QED BY <2>1 DEF Remaining, SoundPlan
<1>3. ASSUME todo # <<>>
      PROVE  /\ {plan[i] : i \in 1..(Len(plan) - Len(Tail(todo)))} = Processed \cup {Current}
             /\ Current \notin Processed
             /\ \A j \in Processed \cup {Current} : Current \notin Depends(j)
  <2> DEFINE t == Len(plan) - Len(todo)
  <2>1. Len(Tail(todo)) = Len(todo) - 1 /\ Len(todo) \in Nat \ {0} /\ Current = todo[1]
    BY <1>1, <1>3, TailOf DEF Current
  <2>2. t \in Nat /\ t + 1 \in 1..Len(plan) /\ Len(plan) - Len(Tail(todo)) = t + 1
    BY <1>1, <2>1
  <2>3. Current = plan[t + 1]
    BY <2>1, 1 \in 1..Len(todo) DEF Remaining
  <2>4. Processed = {plan[i] : i \in 1..t}
    BY DEF Processed
  <2> HIDE DEF t
  <2>5. 1..(t + 1) = (1..t) \cup {t + 1}
    BY <2>2
  <2>6. {plan[i] : i \in 1..(t + 1)} = Processed \cup {Current}
    BY <2>3, <2>4, <2>5
  <2>7. \A i \in 1..t : i \in 1..Len(plan) /\ i # t + 1
    BY <1>1, <2>2
  <2>8. Current \notin Processed
    <3> SUFFICES ASSUME NEW i \in 1..t, plan[i] = plan[t + 1] PROVE FALSE
      BY <2>3, <2>4
    <3> QED BY <1>1, <2>2, <2>7 DEF Distinct
  <2>9. ASSUME NEW i \in 1..(t + 1) PROVE Current \notin Depends(plan[i])
    <3> SUFFICES ASSUME Current \in Depends(plan[i]) PROVE FALSE
      OBVIOUS
    <3>1. i \in 1..Len(plan)
      BY <2>2, <2>5, <2>7
    <3>2. PICK m \in 1..(i - 1) : plan[m] = Current
      BY <1>2, <3>1
    <3>3. m \in 1..t
      BY <2>2, <3>2
    <3> QED BY <2>4, <2>8, <3>2, <3>3
  <2>10. \A j \in Processed \cup {Current} : Current \notin Depends(j)
    BY <2>6, <2>9
  <2> QED BY <2>2, <2>6, <2>8, <2>10
<1> QED BY <1>2, <1>3

(* What is behind the pass was skipped for a reason, or not at all.         *)
LEMMA SkippingStep ==
  WellPosed /\ TypeOK /\ Remaining /\ Shape /\ Passes /\ Skipping /\ [Next]_vars => Skipping'
<1> SUFFICES ASSUME WellPosed, TypeOK, Remaining, Shape, Passes, Skipping, [Next]_vars
             PROVE  Skipping'
  OBVIOUS
<1>1. backlog' = backlog
  BY BacklogStays
<1>2. /\ needs' = needs /\ (plan' = plan => \A j : Depends(j)' = Depends(j))
  BY <1>1, SameBacklog DEF Depends
<1>3. ASSUME UNCHANGED <<plan, todo, failed, skipped>>, pc \in {"next", "attempt"},
             pc' = "attempt" => ~HeldBack(Current)
      PROVE  Skipping'
  <2>1. /\ Processed' = Processed /\ Current' = Current /\ \A j : HeldBack(j)' = HeldBack(j)
    BY <1>2, <1>3 DEF Processed, Current, HeldBack
  <2> QED BY <1>3, <2>1 DEF Skipping
<1>4. ASSUME todo # <<>>, todo' = Tail(todo), plan' = plan, pc \in {"next", "attempt"}, pc' = "next",
             \/ /\ skipped' = skipped /\ failed' \in {failed, failed \cup {Current}}
                /\ ~HeldBack(Current)
             \/ /\ skipped' = skipped \cup {Current} /\ failed' = failed
                /\ HeldBack(Current)
      PROVE  Skipping'
  <2>1. /\ Processed' = Processed \cup {Current} /\ Current \notin Processed
        /\ \A j \in Processed \cup {Current} : Current \notin Depends(j)
    BY <1>4, CurrentIsNext DEF Processed
  <2>2. failed \cup skipped \subseteq Processed /\ \A j \in Processed : j \in skipped <=> HeldBack(j)
    BY <1>4 DEF Skipping
  <2>3. failed' \cup skipped' \subseteq Processed'
    BY <1>4, <2>1, <2>2
  <2>4. \A j \in Processed \cup {Current} : HeldBack(j)' <=> HeldBack(j)
    BY <1>2, <1>4, <2>1 DEF HeldBack
  <2>5. \A j \in Processed \cup {Current} : j \in skipped' <=> HeldBack(j)
    BY <1>4, <2>1, <2>2
  <2> QED BY <1>4, <2>1, <2>3, <2>4, <2>5 DEF Skipping
<1>5. ASSUME NEW P, StartPass(P), WellPosed,
             SoundPlan(Size, needs, backlog.ledger, backlog.slots, P), pc' # "attempt"
      PROVE  Skipping'
  <2>1. plan' = P /\ todo' = P /\ P \in Seq(Jobs) /\ failed' = {} /\ skipped' = {}
    BY <1>1, <1>5, PassStarts DEF StartPass
  <2>2. Processed' = {}
    <3>1. Len(P) - Len(P) = 0
      BY <2>1
    <3> QED BY <2>1, <3>1 DEF Processed
  <2> QED BY <1>5, <2>1, <2>2 DEF Skipping
<1>6. ASSUME MakePlan PROVE Skipping'
  <2>1. CASE backlog.slots > 0 /\ Cyclic(needs)
    BY <1>6, <2>1 DEF MakePlan, Goto, Skipping
  <2>2. CASE ~(backlog.slots > 0 /\ Cyclic(needs))
    <3>1. StartPass(Plan(needs, backlog.ledger, backlog.slots, backlog.loop)) /\ pc' = "next"
      BY <1>6, <2>2 DEF MakePlan, Goto
    <3>2. SoundPlan(Size, needs, backlog.ledger, backlog.slots,
                    Plan(needs, backlog.ledger, backlog.slots, backlog.loop))
      BY PlanIsSound DEF WellPosed
    <3> QED BY <1>5, <3>1, <3>2
  <2> QED BY <2>1, <2>2
<1>7. ASSUME NextDraft PROVE Skipping'
  BY <1>5, <1>7 DEF NextDraft, PassEnds, Remaining
<1>8. ASSUME Skip PROVE Skipping'
  BY <1>4, <1>8 DEF Skip
<1>9. ASSUME Take \/ TakeNobody PROVE Skipping'
  <2>1. CASE pc' = "stopped"
    BY <2>1 DEF Skipping
  <2>2. CASE pc' # "stopped"
    <3>1. UNCHANGED <<plan, todo, failed, skipped>> /\ pc = "next" /\ ~HeldBack(Current)
      BY <1>9, <2>2 DEF Take, TakeNobody, Stopped, Goto, passVars
    <3> QED BY <1>3, <3>1
  <2> QED BY <2>1, <2>2
<1>10. ASSUME Answer PROVE Skipping'
  <2>1. CASE pc' = "stopped"
    BY <2>1 DEF Skipping
  <2>2. CASE pc' # "stopped" /\ MayRetry
    <3>1. UNCHANGED <<plan, todo, failed, skipped>> /\ pc = "attempt"
      BY <1>10, <2>2 DEF Answer, Retry, Stopped, Goto
    <3> QED BY <1>3, <3>1 DEF Skipping
  <2>3. CASE pc' # "stopped" /\ ~MayRetry
    <3>1. /\ plan' = plan /\ todo' = Tail(todo) /\ pc = "attempt" /\ pc' = "next" /\ skipped' = skipped
          /\ failed' \in {failed, failed \cup {Current}}
      BY <1>10, <2>3 DEF Answer, Conclude, Stopped, Goto
    <3>2. todo # <<>> /\ ~HeldBack(Current)
      BY <3>1 DEF Shape, Skipping
    <3> QED BY <1>4, <3>1, <3>2
  <2> QED BY <2>1, <2>2, <2>3
<1>11. ASSUME Works \/ Evaluate PROVE Skipping'
  <2>1. UNCHANGED <<plan, todo, failed, skipped, pc>> /\ pc \in {"next", "attempt"}
    BY <1>11 DEF Works, Evaluate, PassEnds, passVars
  <2> QED BY <1>3, <2>1 DEF Skipping
<1>12. ASSUME Stray \/ UNCHANGED vars PROVE Skipping'
  <2>1. UNCHANGED <<plan, todo, failed, skipped, pc>>
    BY <1>12 DEF Stray, vars, passVars
  <2>2. CASE pc \in {"next", "attempt"}
    BY <1>3, <2>1, <2>2 DEF Skipping
  <2>3. CASE pc \notin {"next", "attempt"}
    BY <2>1, <2>3 DEF Skipping
  <2> QED BY <2>2, <2>3
<1>13. ASSUME Deliver \/ Restore \/ Settle \/ RewriteAudit PROVE Skipping'
  BY <1>13 DEF Deliver, Restore, Settle, RewriteAudit, Goto, Skipping
<1> QED BY <1>6, <1>7, <1>8, <1>9, <1>10, <1>11, <1>12, <1>13 DEF Next, Proceeds

(* The invariant holds before there is a plan.                              *)
LEMMA InitInv == Init => WellPosed /\ DispatchInv
<1> SUFFICES ASSUME Init PROVE WellPosed /\ DispatchInv
  OBVIOUS
<1> USE DEF Init
<1>1. WellPosed
  BY BacklogFound
<1>2. Drafts \in Nat \ {0} /\ MaxRetries \in Nat /\ MaxLoose \in Nat
  BY DispatchAssumption
<1>3. ToSet(<<>>) = {} /\ Len(<<>>) = 0
  BY DEF ToSet
<1>4. TypeOK
  BY <1>2, <1>3 DEF TypeOK, AttemptInit
<1>5. Remaining
  BY <1>1, <1>3 DEF Remaining, SoundPlan, Distinct, WellPosed
<1>6. Shape
  BY <1>3 DEF Shape
<1>7. Passes
  BY <1>2, <1>3 DEF Passes, Settled
<1>8. EveryAnswerHasItsRow /\ Skipping
  BY DEF EveryAnswerHasItsRow, Skipping
<1> QED BY <1>1, <1>4, <1>5, <1>6, <1>7, <1>8 DEF DispatchInv

(* The parts of the invariant, put together.                                *)
LEMMA StepInv == DispatchInv /\ [Next]_vars => DispatchInv'
<1>1. TypeOK => WellPosed
  BY BacklogFound DEF TypeOK
<1> QED BY <1>1, TypeStep, RemainingStep, ShapeStep, PassesStep, RowsStep, SkippingStep DEF DispatchInv

(* What holds of every state of a work phase, for any backlog, any number   *)
(* of drafts and retries, and any answers.                                  *)
THEOREM DispatchInvariant == Spec => []DispatchInv
<1>1. Init => DispatchInv
  BY InitInv
<1> QED BY <1>1, StepInv, PTL DEF Spec

(* The variables keep their types: a plan and a pass have jobs that exist,  *)
(* a retry count its limit, a row its draft.                                *)
THEOREM TypeCorrect == Spec => []TypeOK
BY DispatchInvariant, PTL DEF DispatchInv

(* Whatever features refer to whatever, however many slots there are:       *)
(* nothing is planned before what it needs, nothing twice, nothing beyond   *)
(* the slots (MissionPlanner.plan).                                         *)
THEOREM PlansAreClosed == Spec => []PlanIsClosed
<1>1. DispatchInv => PlanIsClosed
  <2> SUFFICES ASSUME TypeOK, Remaining PROVE PlanIsClosed
    BY DEF DispatchInv
  <2>1. WellPosed
    BY BacklogFound DEF TypeOK
  <2>2. /\ DOMAIN plan = 1..Len(plan) /\ Distinct(plan) /\ Len(plan) <= backlog.slots
        /\ \A i \in 1..Len(plan) : plan[i] \in 1..Size =>
             \A d \in needs[plan[i]] : \E m \in 1..(i - 1) : plan[m] = d
    BY DEF Remaining, SoundPlan
  <2> QED BY <2>1, <2>2 DEF PlanIsClosed, Distinct, WellPosed
<1> QED BY <1>1, DispatchInvariant, PTL

(* No attempt that has returned is without its row, at whatever step a kill *)
(* or the ceiling ends the pass (WorkerScheduler.execute_assignments).      *)
THEOREM AnswersKeepRows == Spec => []EveryAnswerHasItsRow
BY DispatchInvariant, PTL DEF DispatchInv

(* What is skipped needs what failed, and only that.                        *)
LEMMA SkippedNeedFailed ==
  ASSUME WellPosed, Remaining, Skipping, PassEnds
  PROVE  skipped = {j \in ToSet(plan) \cap Features : Ancestors(needs, j) \cap failed # {}}
<1> DEFINE L == Len(plan)
           Doomed(j) == j \in Features /\ Ancestors(needs, j) \cap failed # {}
<1>1. L \in Nat /\ DOMAIN plan = 1..L /\ plan \in Seq(Jobs)
  BY DEF Remaining, SoundPlan, WellPosed
<1>2. Processed = {plan[i] : i \in 1..L}
  <2>1. Len(plan) - Len(todo) = L
    BY <1>1 DEF PassEnds
  <2> QED BY <2>1 DEF Processed
<1>3. /\ failed \cup skipped \subseteq Processed
      /\ \A i \in 1..L : plan[i] \in skipped <=> HeldBack(plan[i])
  BY <1>2 DEF Skipping, PassEnds
<1> HIDE DEF L
<1> DEFINE S == {k \in 0..L : \A i \in 1..k : plan[i] \in skipped <=> Doomed(plan[i])}
<1>4. 0 \in S
  BY <1>1
<1>5. ASSUME NEW k \in 0..(L - 1), k \in S PROVE k + 1 \in S
  <2> DEFINE p == plan[k + 1]
  <2>0. k + 1 \in 1..L /\ k + 1 \in 0..L /\ (k + 1) - 1 = k /\ 1..(k + 1) = (1..k) \cup {k + 1}
    BY <1>1
  <2>1. Depends(p) \subseteq {plan[m] : m \in 1..k}
    BY <2>0, CurrentIsNext DEF L
  <2>2. ASSUME NEW d \in {plan[m] : m \in 1..k} PROVE d \in skipped <=> Doomed(d)
    BY <1>5, <2>2
  <2>3. p \in skipped <=> Depends(p) \cap (failed \cup skipped) # {}
    BY <1>3, <2>0 DEF HeldBack
  <2> HIDE DEF p
  <2>4. CASE p \notin Features
    <3>1. Depends(p) = {}
      BY <2>4 DEF Depends, DependsOn, Candidates, Features
    <3> QED BY <1>5, <2>0, <2>3, <2>4, <3>1 DEF p
  <2>5. CASE p \in Features
    <3>1. Graph(Size, needs) /\ p \in 1..Size /\ Features = 1..Size /\ needs[p] \subseteq 1..Size
      BY <2>5 DEF WellPosed, Graph
    <3>2. \A d \in needs[p] : \E m \in 1..((k + 1) - 1) : plan[m] = d
      BY <2>0, <3>1 DEF Remaining, SoundPlan, p, L
    <3>3. needs[p] \subseteq {plan[m] : m \in 1..k}
      BY <2>0, <3>2
    <3>4. {plan[m] : m \in 1..k} \subseteq ToSet(plan)
      BY <1>1, <2>0 DEF ToSet
    <3>5. Depends(p) = needs[p]
      BY <2>5, <3>3, <3>4 DEF Depends, DependsOn, Candidates, Features
    <3>6. Ancestors(needs, p) = needs[p] \cup UNION {Ancestors(needs, g) : g \in needs[p]}
      BY <3>1, AncestorsOf
    <3>7. Doomed(p) <=> \/ needs[p] \cap failed # {}
                        \/ \E g \in needs[p] : Ancestors(needs, g) \cap failed # {}
      BY <2>5, <3>6
    <3>8. \A g \in needs[p] : g \in skipped <=> Ancestors(needs, g) \cap failed # {}
      BY <2>2, <3>1, <3>3
    <3>9. p \in skipped <=> Doomed(p)
      BY <2>3, <3>5, <3>7, <3>8
    <3> HIDE DEF Doomed
    <3> QED BY <1>5, <2>0, <3>9 DEF p
  <2> QED BY <2>4, <2>5
<1>6. L \in S
  <2> HIDE DEF S
  <2>1. 0..L \subseteq S
    BY <1>1, <1>4, <1>5, Induction
  <2> QED BY <1>1, <2>1
<1>7. \A j \in ToSet(plan) : j \in skipped <=> Doomed(j)
  BY <1>1, <1>6 DEF ToSet
<1>8. skipped \subseteq ToSet(plan)
  BY <1>1, <1>2, <1>3 DEF ToSet
<1> QED BY <1>7, <1>8

(* A pass that ends has skipped what needs something that failed, directly  *)
(* or through others, and nothing else: skipping is decided over direct     *)
(* needs alone, one assignment at a time.                                   *)
THEOREM SkipsAreExact == Spec => []SkipsExactly
<1>1. DispatchInv => SkipsExactly
  <2> SUFFICES ASSUME TypeOK, Remaining, Skipping PROVE SkipsExactly
    BY DEF DispatchInv
  <2>1. WellPosed
    BY BacklogFound DEF TypeOK
  <2> QED BY <2>1, SkippedNeedFailed DEF SkipsExactly
<1> QED BY <1>1, DispatchInvariant, PTL

(* After draft sampling the rows, the audit, the evidence and the tree are  *)
(* one draft's, the best one's (LoopOrchestrator._run_draft_sampling).      *)
THEOREM BestDraftLeaves == Spec => []OneDraftLeaves
<1>1. DispatchInv => OneDraftLeaves
  <2> SUFFICES ASSUME Shape, Passes, pc = "over", Drafting,
                      OneDraftLeaves <=>
                        /\ \A i \in DOMAIN drafts : PassesGate(i) => PassesGate(tree)
                        /\ \A i \in DOMAIN drafts :
                             PassesGate(i) = PassesGate(tree) => ~(i # tree /\ Better(i, tree))
                        /\ rows = WinnersRows
                        /\ \A row \in rows : row.draft = tree /\ audit[row.job] = tree
                        /\ evidence \subseteq {tree}
               PROVE  OneDraftLeaves
    BY DEF DispatchInv, OneDraftLeaves
  <2>1. /\ Len(drafts) = Drafts /\ tree = Winner /\ rows = WinnersRows /\ evidence \subseteq {Winner}
        /\ \A h \in ToSet(drafts[Winner].handoffs) : audit[h.job] = Winner
    BY DEF Passes, Settled
  <2>2. drafts # <<>>
    BY <2>1, DispatchAssumption, BetterOrders
  <2>3. tree \in Contenders /\ \A j \in Contenders \ {tree} : Better(tree, j)
    BY <2>1, <2>2, WinnerIsBest
  <2>4. ASSUME NEW i \in DOMAIN drafts, PassesGate(i) PROVE PassesGate(tree)
    BY <2>3, <2>4 DEF Contenders
  <2>5. ASSUME NEW i \in DOMAIN drafts, PassesGate(i) = PassesGate(tree), i # tree
        PROVE  ~Better(i, tree)
    <3>1. i \in Contenders /\ tree \in DOMAIN drafts
      BY <2>3, <2>4, <2>5 DEF Contenders
    <3> QED BY <2>3, <2>5, <3>1, BetterOrders
  <2>6. \A row \in rows : row.draft = tree /\ audit[row.job] = tree
    BY <2>1 DEF WinnersRows
  <2> QED BY <2>1, <2>4, <2>5, <2>6
<1> QED BY <1>1, DispatchInvariant, PTL

(* The evidence of the drafts that lost goes in the step their rows go.     *)
THEOREM EvidenceGoesWithRows == Spec => SettlesAtOnce
<1>1. DispatchInv /\ [Next]_vars =>
        [Len(drafts) = Drafts /\ evidence' # evidence => rows' = WinnersRows]_vars
  <2> SUFFICES ASSUME DispatchInv, Next, Len(drafts) = Drafts, evidence' # evidence
               PROVE  rows' = WinnersRows
    BY DEF vars, storeVars
  <2>1. ASSUME Works PROVE FALSE
    <3>1. Len(drafts) = draft - 1 /\ draft \in 1..Drafts /\ Drafts \in Nat
      BY <2>1, DispatchAssumption DEF Works, DispatchInv, Passes, TypeOK
    <3> QED BY <3>1
  <2>2. CASE Settle
    BY <2>2 DEF Settle
  <2> QED BY <2>1, <2>2 DEF Next, MakePlan, Proceeds, Skip, Take, TakeNobody, Answer, Deliver,
             Evaluate, NextDraft, Restore, RewriteAudit, Stray, storeVars
<1> QED BY <1>1, DispatchInvariant, PTL DEF Spec, SettlesAtOnce

(* No candidate waits for ever for a slot: each ledger candidate is planned *)
(* in any 2 * ledger loops in a row, and a feature in any two.              *)
THEOREM LanesAreServed == Spec => []NoLaneStarves
<1>1. TypeOK => NoLaneStarves
  <2> SUFFICES ASSUME TypeOK, backlog.slots > 0, ~Cyclic(needs)
               PROVE  LET planned(last) ==
                            UNION {ToSet(Plan(needs, backlog.ledger, backlog.slots, l)) :
                                     l \in backlog.loop..last}
                      IN /\ Jobs \ Features \subseteq planned(backlog.loop + 2 * backlog.ledger - 1)
                         /\ Features # {} => planned(backlog.loop + 1) \cap Features # {}
    BY DEF NoLaneStarves
  <2>1. /\ Graph(Size, needs) /\ Features = 1..Size /\ Jobs = 1..(Size + backlog.ledger)
        /\ Size \in Nat /\ backlog.ledger \in Nat /\ backlog.slots \in Nat \ {0}
        /\ backlog.loop \in Nat \ {0}
    BY BacklogFound DEF TypeOK, WellPosed
  <2>2. ASSUME NEW x \in Jobs \ Features
        PROVE  \E l \in backlog.loop..(backlog.loop + 2 * backlog.ledger - 1) :
                 x \in ToSet(Plan(needs, backlog.ledger, backlog.slots, l))
    <3>1. x \in (Size + 1)..(Size + backlog.ledger) /\ backlog.ledger \in Nat \ {0}
      BY <2>1
    <3> QED BY <2>1, <3>1, LedgerServed
  <2>3. ASSUME Features # {}
        PROVE  \E l \in backlog.loop..(backlog.loop + 1) :
                 ToSet(Plan(needs, backlog.ledger, backlog.slots, l)) \cap Features # {}
    <3>1. Size >= 1
      BY <2>1, <2>3
    <3>2. \E l \in backlog.loop..(backlog.loop + 1) :
            ToSet(Plan(needs, backlog.ledger, backlog.slots, l)) \cap (1..Size) # {}
      BY <2>1, <3>1, FeaturesServed
    <3> QED BY <2>1, <3>2
  <2> QED BY <2>2, <2>3
<1> QED BY <1>1, TypeCorrect, PTL
=============================================================================
