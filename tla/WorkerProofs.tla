---------------------------- MODULE WorkerProofs ----------------------------
(***************************************************************************)
(* What bounds an attempt, for any budgets, prices, policies and answers,  *)
(* and that the worker implements what the scheduler expects of it.  All   *)
(* of it rests on one fact the code keeps in three places: a worker that   *)
(* is still at work has room under the ceiling, since the cost guard looks *)
(* before the attempt, and after every answer.                             *)
(***************************************************************************)
EXTENDS Worker, SequenceTheorems, TLAPS

LEMMA Assumptions ==
  /\ MaxTokens \in Nat /\ MaxToolCalls \in Nat /\ MaxModelRetries \in Nat /\ MaxRepairs \in Nat
  /\ MaxAnswer \in Nat /\ MaxAttempts \in Nat
  /\ Ceiling \in Nat \ {0} /\ Prices \subseteq Nat
BY WorkerAssumption, PricesAssumption

(* There are answers, and what is left of one is one.                       *)
LEMMA NoAnswer == <<>> \in Answers
BY Assumptions DEF Answers, BoundedSeq, SeqOf

LEMMA RestOfAnswer ==
  ASSUME NEW a \in Answers, a # <<>> PROVE Tail(a) \in Answers
<1>1. PICK n \in 0..MaxAnswer : a \in [1..n -> Tools]
  BY DEF Answers, BoundedSeq, SeqOf
<1>2. a \in Seq(Tools) /\ Len(a) = n /\ n # 0
  BY <1>1, Assumptions
<1>3. Tail(a) \in Seq(Tools) /\ Len(Tail(a)) = n - 1
  BY <1>2, HeadTailProperties
<1>4. Tail(a) \in [1..(n - 1) -> Tools]
  BY <1>3, LenProperties
<1>5. n - 1 \in 0..MaxAnswer
  BY <1>2, Assumptions
<1>. QED
  BY <1>4, <1>5 DEF Answers, BoundedSeq, SeqOf

-----------------------------------------------------------------------------
(* A worker at work is below the ceiling, and what was billed was counted    *)
(* or lost.                                                                 *)
RoomLeft == wpc # "off" => spent < Ceiling
Counted ==
  /\ billed = spent + lost
  /\ spent < Ceiling \/ \E price \in Prices : spent - price < Ceiling

(* A command is started on a call that is left, and is at most one of the    *)
(* attempt's.                                                               *)
OneCommand ==
  /\ wpc = "shell" => calls < MaxToolCalls /\ answer # <<>>
  /\ loose + (IF wpc = "off" THEN 0 ELSE 1) <= attempts

(* An answer is worked on only within the budget it was charged to.         *)
WithinBudget == wpc \in {"act", "shell"} => used <= MaxTokens

Inv == TypeOK /\ RoomLeft /\ Counted /\ OneCommand /\ WithinBudget /\ ClientRetriesFirst

LEMMA NothingType == Nothing \in Findings
BY Zenon DEF Nothing, Findings

LEMMA InitInv == Init => Inv
<1> SUFFICES ASSUME Init PROVE Inv
  OBVIOUS
<1> USE Assumptions, NoAnswer, NothingType DEF Init, AttemptInit
<1>1. TypeOK
  <2>1. touched \in BOOLEAN /\ seen \in Findings /\ answer \in Answers
    BY Zenon
  <2>2. (Running <=> wpc # "off") /\ result \in Results \cup {"none", "running"}
    BY DEF Running, Results
  <2>3. /\ spent \in Nat /\ loose \in 0..MaxAttempts /\ attempts \in 0..MaxAttempts
        /\ {used, billed, lost} \subseteq Nat /\ calls \in 0..MaxToolCalls
        /\ turn \in 0..MaxRepairs /\ tries \in 0..MaxModelRetries
    OBVIOUS
  <2>. QED
    BY <2>1, <2>2, <2>3 DEF TypeOK
<1>2. RoomLeft /\ Counted
  BY DEF RoomLeft, Counted
<1>3. OneCommand /\ WithinBudget /\ ClientRetriesFirst
  BY DEF OneCommand, WithinBudget, ClientRetriesFirst
<1>. QED
  BY <1>1, <1>2, <1>3 DEF Inv

-----------------------------------------------------------------------------
(* The start of an attempt and its end. *)

LEMMA RunStep == ASSUME Inv, Run \/ RunNobody PROVE Inv'
<1> USE Assumptions, NoAnswer, NothingType
    DEF Inv, TypeOK, RoomLeft, Counted, OneCommand, WithinBudget, ClientRetriesFirst, Running, Results
<1>1. CASE Run
  BY <1>1 DEF Run, Begin, Reset, bill
<1>2. CASE RunNobody
  BY <1>2 DEF RunNobody, Unmanned, bill
<1>. QED
  BY <1>1, <1>2

(* A worker that gives up, on anything but a retryable model failure.       *)
LEMMA LeaveStep ==
  ASSUME Inv, wpc # "off", NEW r \in Results \ {"model_call_error_retryable"}, Leaves(r),
         loose' = loose + (IF wpc = "shell" THEN 1 ELSE 0) \/ loose' = loose,
         UNCHANGED <<spent, touched, used, calls, turn, tries, answer, seen, fixed>>,
         NEW price \in Nat, Unrecorded(price)
  PROVE  Inv'
<1>1. wpc' = "off" /\ result' = r
  BY DEF Leaves
<1>2. /\ billed' \in Nat /\ lost' \in Nat /\ Counted' /\ RoomLeft'
  BY <1>1 DEF Inv, TypeOK, Counted, RoomLeft, Unrecorded
<1>3. OneCommand' /\ WithinBudget' /\ ClientRetriesFirst'
  BY <1>1, Assumptions
  DEF Inv, TypeOK, OneCommand, WithinBudget, ClientRetriesFirst, fixed
<1>4. loose' \in 0..MaxAttempts
  BY Assumptions DEF Inv, TypeOK, OneCommand
<1>5. TypeOK'
  BY <1>1, <1>2, <1>4, Assumptions DEF Inv, TypeOK, Running, Results, fixed
<1>. QED
  BY <1>2, <1>3, <1>5 DEF Inv

-----------------------------------------------------------------------------
(* The model call. *)

LEMMA RequestStep == ASSUME Inv, Request PROVE Inv'
BY Assumptions
DEF Request, attemptVars, fixed, bill,
    Inv, TypeOK, RoomLeft, Counted, OneCommand, WithinBudget, ClientRetriesFirst, Running, Results

(* Two numbers add up to one: the solver does not see it of primed ones.    *)
LEMMA AddsUp == ASSUME NEW a \in Nat, NEW b \in Nat PROVE a + b \in Nat
OBVIOUS

LEMMA RetryStep ==
  ASSUME Inv, wpc = "wire", NEW retryable \in BOOLEAN, RetryOrFail(retryable),
         UNCHANGED <<touched, loose, used, calls, turn, answer, seen, fixed>>,
         spent' \in Nat, lost' \in Nat, spent' < Ceiling, billed' = spent' + lost'
  PROVE  Inv'
<1>1. /\ spent' \in Nat /\ billed' \in Nat /\ lost' \in Nat
      /\ RoomLeft' /\ Counted'
  <2>1. spent' + lost' \in Nat
    BY AddsUp
  <2>2. billed' \in Nat
    BY <2>1, Zenon
  <2>. QED
    BY <2>2 DEF RoomLeft, Counted
<1>2. \/ wpc' = "ask" /\ tries' = tries + 1 /\ tries < MaxModelRetries /\ result' = "running"
      \/ /\ wpc' = "off" /\ tries' = tries
         /\ result' \in {"model_call_error_retryable", "model_call_error"}
         /\ result' = "model_call_error_retryable" => tries = MaxModelRetries
  BY Assumptions DEF RetryOrFail, Leaves, Inv, TypeOK, Running
<1>3. /\ tries' \in 0..MaxModelRetries /\ wpc' \in {"off", "ask"}
      /\ result' \in Results \cup {"none", "running"} /\ (Running' <=> wpc' # "off")
      /\ ClientRetriesFirst'
  BY <1>2, Assumptions DEF Inv, TypeOK, Results, Running, ClientRetriesFirst
<1>4. TypeOK'
  BY <1>1, <1>3 DEF Inv, TypeOK, fixed
<1>5. OneCommand' /\ WithinBudget'
  BY <1>3, Assumptions DEF Inv, TypeOK, OneCommand, WithinBudget, fixed
<1>. QED
  BY <1>1, <1>3, <1>4, <1>5 DEF Inv

LEMMA UnusableStep == ASSUME Inv, Unusable PROVE Inv'
<1>1. PICK retryable \in BOOLEAN, price \in Prices \cup {0} :
        RetryOrFail(retryable) /\ Unrecorded(price)
  BY DEF Unusable
<1>2. /\ spent' \in Nat /\ lost' \in Nat /\ spent' < Ceiling /\ billed' = spent' + lost'
      /\ wpc = "wire"
  BY <1>1, Assumptions DEF Unusable, Unrecorded, Inv, TypeOK, RoomLeft, Counted
<1>. QED
  BY <1>1, <1>2, RetryStep DEF Unusable

(* An answer is paid for, whatever it says.                                 *)
LEMMA Payment ==
  ASSUME Inv, wpc = "wire", NEW price \in Prices, NEW told \in {0, price}, Pays(price, told)
  PROVE  /\ spent' \in Nat /\ lost' \in Nat /\ billed' = spent' + lost'
         /\ spent' < Ceiling \/ spent' - price < Ceiling
BY Assumptions DEF Inv, TypeOK, RoomLeft, Counted, Pays

LEMMA GarbledStep == ASSUME Inv, Garbled PROVE Inv'
<1>1. PICK price \in Prices : \E told \in {0, price} :
        /\ Pays(price, told)
        /\ IF spent' >= Ceiling THEN Leaves("stop") /\ UNCHANGED tries ELSE RetryOrFail(TRUE)
  BY DEF Garbled
<1>2. wpc = "wire" /\ UNCHANGED <<touched, loose, used, calls, turn, answer, seen, fixed>>
  BY DEF Garbled
<1>3. /\ spent' \in Nat /\ lost' \in Nat /\ billed' = spent' + lost'
      /\ (spent' < Ceiling \/ spent' - price < Ceiling)
  BY <1>1, <1>2, Payment
<1>4. CASE spent' >= Ceiling
  <2>1. wpc' = "off" /\ result' = "stop" /\ tries' = tries
    BY <1>1, <1>4 DEF Leaves
  <2>. QED
    <3>1. TypeOK'
      <4>1. spent' + lost' \in Nat
        BY <1>3, AddsUp
      <4>2. billed' \in Nat
        BY <1>3, <4>1, Zenon
      <4>. QED
        BY <1>2, <1>3, <2>1, <4>2, Assumptions DEF Inv, TypeOK, Running, Results, fixed
    <3>2. RoomLeft' /\ Counted'
      BY <1>3, <2>1 DEF RoomLeft, Counted
    <3>3. OneCommand' /\ WithinBudget' /\ ClientRetriesFirst'
      BY <1>2, <2>1, Assumptions
      DEF Inv, TypeOK, OneCommand, WithinBudget, ClientRetriesFirst, fixed
    <3>. QED
      BY <3>1, <3>2, <3>3 DEF Inv
<1>5. CASE ~(spent' >= Ceiling)
  <2>1. RetryOrFail(TRUE)
    BY <1>1, <1>5, Zenon
  <2>2. spent' < Ceiling
    BY <1>3, <1>5, Assumptions
  <2>. QED
    BY <1>2, <1>3, <2>1, <2>2, RetryStep
<1>. QED
  BY <1>4, <1>5

LEMMA AnsweredStep == ASSUME Inv, Answered PROVE Inv'
<1>1. PICK price \in Prices, batch \in Answers, told \in Nat :
        /\ told \in {0, price} /\ Pays(price, told)
        /\ IF spent' >= Ceiling
           THEN Leaves("stop") /\ UNCHANGED <<used, answer>>
           ELSE /\ used' = used + told
                /\ IF OverBudget(used')
                   THEN Leaves("worker_budget_exceeded") /\ UNCHANGED answer
                   ELSE wpc' = "act" /\ answer' = batch /\ UNCHANGED result
  BY Assumptions DEF Answered
<1>2. /\ wpc = "wire" /\ tries' = 0 /\ seen' = [Nothing EXCEPT !.wrote = seen.wrote]
      /\ UNCHANGED <<touched, loose, calls, turn, fixed>>
  BY DEF Answered
<1>3. /\ spent' \in Nat /\ lost' \in Nat /\ billed' = spent' + lost'
      /\ (spent' < Ceiling \/ spent' - price < Ceiling)
  BY <1>1, <1>2, Payment
<1>4. seen' \in Findings
  <2>1. seen.wrote \in BOOLEAN
    BY Zenon DEF Inv, TypeOK, Findings
  <2>. QED
    BY <1>2, <2>1, Zenon DEF Nothing, Findings
<1> USE Assumptions
    DEF Inv, TypeOK, RoomLeft, Counted, OneCommand, WithinBudget, ClientRetriesFirst, Running, Results,
        Leaves, fixed
<1>5. CASE spent' >= Ceiling
  BY <1>1, <1>2, <1>3, <1>4, <1>5
<1>6. CASE ~(spent' >= Ceiling) /\ OverBudget(used')
  BY <1>1, <1>2, <1>3, <1>4, <1>6
<1>7. CASE ~(spent' >= Ceiling) /\ ~OverBudget(used')
  <2>1. used' \in Nat /\ used' <= MaxTokens
    BY <1>1, <1>7 DEF OverBudget
  <2>. QED
    BY <1>1, <1>2, <1>3, <1>4, <1>7, <2>1
<1>. QED
  BY <1>5, <1>6, <1>7

-----------------------------------------------------------------------------
(* The tools. *)

LEMMA CalledType ==
  ASSUME Inv, NEW tool, NEW succeeds \in BOOLEAN, Called(tool, succeeds)
  PROVE  seen' \in Findings
<1> DEFINE wrote == seen.wrote \/ (succeeds /\ tool \in {"write_file", "patch_file"})
           shell == seen.shell \/ (succeeds /\ tool = "run_shell")
           failed == seen.failed \/ ~succeeds
<1>1. seen' = [wrote |-> wrote, shell |-> shell, failed |-> failed, some |-> TRUE]
  BY Zenon DEF Called
<1>2. wrote \in BOOLEAN /\ shell \in BOOLEAN /\ failed \in BOOLEAN
  OBVIOUS
<1>. QED
  BY <1>1, <1>2, Zenon DEF Findings

(* A tool ran: its call is counted, its answer's rest is left.              *)
LEMMA RunsStep ==
  ASSUME Inv, NEW tool, Runs(tool), NEW succeeds \in BOOLEAN, Called(tool, succeeds),
         touched' \in BOOLEAN
  PROVE  Inv'
<1>1. seen' \in Findings
  BY CalledType
<1>2. answer' \in Answers
  BY RestOfAnswer DEF Runs, Known, Inv, TypeOK
<1>. QED
  BY <1>1, <1>2, Assumptions
  DEF Runs, Known, CallLeft, fixed, bill,
      Inv, TypeOK, RoomLeft, Counted, OneCommand, WithinBudget, ClientRetriesFirst, Running, Results

LEMMA ToolStep == ASSUME Inv, ReadFile \/ WriteFile \/ PatchFile PROVE Inv'
<1>1. touched \in BOOLEAN
  BY DEF Inv, TypeOK
<1>2. CASE ReadFile
  BY <1>1, <1>2, RunsStep DEF ReadFile
<1>3. CASE WriteFile
  <2>1. PICK succeeds \in BOOLEAN : Called("write_file", succeeds) /\ touched' = (touched \/ succeeds)
    BY <1>3 DEF WriteFile
  <2>2. touched' \in BOOLEAN
    BY <1>1, <2>1
  <2>. QED
    BY <1>3, <2>1, <2>2, RunsStep DEF WriteFile
<1>4. CASE PatchFile
  <2>1. PICK unique \in BOOLEAN : Called("patch_file", unique) /\ touched' = (touched \/ unique)
    BY <1>4 DEF PatchFile
  <2>2. touched' \in BOOLEAN
    BY <1>1, <2>1
  <2>. QED
    BY <1>4, <2>1, <2>2, RunsStep DEF PatchFile
<1>. QED
  BY <1>2, <1>3, <1>4

LEMMA UnknownToolStep == ASSUME Inv, UnknownTool PROVE Inv'
<1>1. seen' \in Findings
  BY CalledType DEF UnknownTool
<1>2. answer' \in Answers
  BY RestOfAnswer DEF UnknownTool, Inv, TypeOK
<1>. QED
  BY <1>1, <1>2, Assumptions
  DEF UnknownTool, attemptVars, fixed, bill,
      Inv, TypeOK, RoomLeft, Counted, OneCommand, WithinBudget, ClientRetriesFirst, Running, Results

LEMMA ShellStep == ASSUME Inv, StartShell \/ ShellWrites \/ ShellEnds PROVE Inv'
<1> USE Assumptions
    DEF attemptVars, workerVars, fixed, bill,
        Inv, TypeOK, RoomLeft, Counted, OneCommand, WithinBudget, ClientRetriesFirst, Running, Results
<1>1. CASE StartShell
  BY <1>1 DEF StartShell, Known, CallLeft
<1>2. CASE ShellWrites
  BY <1>2 DEF ShellWrites
<1>3. CASE ShellEnds
  <2>1. seen' \in Findings
    BY <1>3, CalledType DEF ShellEnds
  <2>2. answer' \in Answers
    BY <1>3, RestOfAnswer DEF ShellEnds
  <2>. QED
    BY <1>3, <2>1, <2>2 DEF ShellEnds
<1>. QED
  BY <1>1, <1>2, <1>3

LEMMA LooseStep == ASSUME Inv, LooseWrites \/ LooseExits PROVE Inv'
<1> USE Assumptions
    DEF workerVars, fixed, bill, Inv, TypeOK, RoomLeft, Counted, OneCommand, WithinBudget, ClientRetriesFirst, Running
<1>1. CASE LooseWrites
  BY <1>1 DEF LooseWrites, LooseTouch
<1>2. CASE LooseExits
  BY <1>2 DEF LooseExits, LooseEnds
<1>. QED
  BY <1>1, <1>2

LEMMA GiveUpStep == ASSUME Inv, TimeOut \/ Unauthorized \/ Denied \/ NoCallLeft PROVE Inv'
<1> USE DEF Results
<1>1. CASE TimeOut
  <2>1. PICK price \in Prices \cup {0} : Unrecorded(price)
    BY <1>1 DEF TimeOut
  <2>. QED
    BY <1>1, <2>1, LeaveStep, Assumptions DEF TimeOut, LeftBehind
<1>2. CASE Unauthorized \/ Denied \/ NoCallLeft
  <2>1. billed' = billed + 0 /\ lost' = lost + 0
    BY <1>2 DEF Unauthorized, Denied, NoCallLeft, bill, Inv, TypeOK
  <2>2. Unrecorded(0)
    BY <2>1 DEF Unrecorded
  <2>3. CASE Unauthorized
    BY <2>2, <2>3, LeaveStep DEF Unauthorized
  <2>4. CASE Denied
    BY <2>2, <2>4, LeaveStep DEF Denied, Known
  <2>5. CASE NoCallLeft
    BY <2>2, <2>5, LeaveStep DEF NoCallLeft, Known
  <2>. QED
    BY <1>2, <2>3, <2>4, <2>5
<1>. QED
  BY <1>1, <1>2

LEMMA DecideStep == ASSUME Inv, Decide PROVE Inv'
BY Assumptions
DEF Decide, Complete, LastTurn, Leaves, fixed, bill,
    Inv, TypeOK, RoomLeft, Counted, OneCommand, WithinBudget, ClientRetriesFirst, Running, Results

LEMMA InvStep == Inv /\ [Next]_vars => Inv'
<1>1. Inv /\ UNCHANGED vars => Inv'
  BY DEF vars, attemptVars, workerVars, fixed, bill,
         Inv, TypeOK, RoomLeft, Counted, OneCommand, WithinBudget, ClientRetriesFirst, Running
<1>. QED
  BY <1>1, RunStep, RequestStep, UnusableStep, GarbledStep, AnsweredStep, ToolStep, UnknownToolStep,
     ShellStep, LooseStep, GiveUpStep, DecideStep
  DEF Next

LEMMA InvHolds == Spec => []Inv
BY InitInv, InvStep, PTL DEF Spec

-----------------------------------------------------------------------------
(* The variables keep their types. *)
THEOREM TypeCorrect == Spec => []TypeOK
<1>1. Inv => TypeOK
  BY DEF Inv
<1>. QED
  BY <1>1, InvHolds, PTL

(* What the provider charged, but for the charges that are never recorded,   *)
(* is less than one answer over the ceiling.                                *)
THEOREM BillingIsBounded == Spec => []CeilingBoundsBilling
<1>1. Inv => CeilingBoundsBilling
  <2> SUFFICES ASSUME Inv PROVE CeilingBoundsBilling
    OBVIOUS
  <2>1. billed - lost = spent
    BY DEF Inv, TypeOK, Counted
  <2>. QED
    BY <2>1 DEF Inv, Counted, CeilingBoundsBilling
<1>. QED
  BY <1>1, InvHolds, PTL

(* What n attempts have had room for, less what the running one, in round t  *)
(* and try k of it, has left.                                               *)
Round == MaxModelRetries + 1
Calls(w, n, t, k) ==
  IF w = "off" THEN n * CallsOfAttempt
  ELSE (n - 1) * CallsOfAttempt
       + (IF w \in {"ask", "wire"} THEN t * Round + k ELSE (t + 1) * Round)
CallsUsed == Calls(wpc, attempts, turn, tries)
Lossy == \E price \in Prices \cup {0} : lost <= price * CallsUsed

LEMMA Times ==
  ASSUME NEW a \in Nat, NEW b \in Nat
  PROVE  a * b \in Nat /\ (a + 1) * b = a * b + b /\ b * (a + 1) = b * a + b
OBVIOUS

LEMMA TimesGrows ==
  ASSUME NEW a \in Nat, NEW b \in Nat, NEW c \in Nat, a <= c
  PROVE  a * b <= c * b /\ b * a <= b * c
<1>1. PICK d \in Nat : c = a + d
  <2>. WITNESS c - a \in Nat
  <2>. QED
    OBVIOUS
<1>2. (a + d) * b = a * b + d * b /\ a * b \in Nat /\ d * b \in Nat /\ b * a = a * b /\ b * c = c * b
  BY <1>1
<1>. QED
  BY <1>1, <1>2

(* An attempt's rounds fit in its calls.                                    *)
LEMMA Rounds ==
  ASSUME NEW t \in 0..MaxRepairs, NEW k \in 0..MaxModelRetries
  PROVE  /\ Round \in Nat \ {0} /\ CallsOfAttempt \in Nat
         /\ t * Round \in Nat /\ (t + 1) * Round = t * Round + Round
         /\ t * Round + Round <= CallsOfAttempt
         /\ k \in Nat /\ k + 1 <= Round
<1>1. /\ Round \in Nat \ {0} /\ t \in Nat /\ t + 1 \in Nat /\ MaxRepairs + 1 \in Nat
      /\ t + 1 <= MaxRepairs + 1 /\ k \in Nat /\ k + 1 <= Round
  BY Assumptions DEF Round
<1>2. CallsOfAttempt = (MaxRepairs + 1) * Round
  BY DEF CallsOfAttempt, Round
<1>3. CallsOfAttempt \in Nat /\ t * Round \in Nat /\ (t + 1) * Round = t * Round + Round
  BY <1>1, <1>2, Times
<1>4. (t + 1) * Round <= (MaxRepairs + 1) * Round
  BY <1>1, TimesGrows
<1>. QED
  BY <1>1, <1>2, <1>3, <1>4

LEMMA CallsSum ==
  ASSUME NEW w, NEW n \in Nat, w # "off" => n # 0,
         NEW t \in 0..MaxRepairs, NEW k \in 0..MaxModelRetries
  PROVE  /\ Calls(w, n, t, k) \in Nat /\ n * CallsOfAttempt \in Nat
         /\ w = "off" => Calls(w, n, t, k) = n * CallsOfAttempt
         /\ w # "off" => /\ (n - 1) * CallsOfAttempt \in Nat
                         /\ n * CallsOfAttempt = (n - 1) * CallsOfAttempt + CallsOfAttempt
                         /\ Calls(w, n, t, k) = (n - 1) * CallsOfAttempt
                              + (IF w \in {"ask", "wire"} THEN t * Round + k ELSE t * Round + Round)
<1>1. n * CallsOfAttempt \in Nat
  BY Rounds, Times
<1>2. CASE w = "off"
  BY <1>1, <1>2 DEF Calls
<1>3. CASE w # "off"
  <2>1. n - 1 \in Nat /\ (n - 1) + 1 = n
    BY <1>3
  <2>2. /\ (n - 1) * CallsOfAttempt \in Nat
        /\ ((n - 1) + 1) * CallsOfAttempt = (n - 1) * CallsOfAttempt + CallsOfAttempt
    BY <2>1, Rounds, Times
  <2>3. Calls(w, n, t, k) = (n - 1) * CallsOfAttempt
          + (IF w \in {"ask", "wire"} THEN t * Round + k ELSE t * Round + Round)
    BY <1>3, Rounds DEF Calls
  <2>4. (IF w \in {"ask", "wire"} THEN t * Round + k ELSE t * Round + Round) \in Nat
    BY Rounds
  <2>. QED
    BY <1>1, <1>3, <2>1, <2>2, <2>3, <2>4, AddsUp
<1>. QED
  BY <1>2, <1>3

(* No step gives a call back, and one that ends a call uses one up.         *)
Shape(w, n, t, k, w2, n2, t2, k2) ==
  \/ /\ w = "off" /\ n2 = n + 1
     /\ w2 = "off" \/ (w2 = "ask" /\ t2 = 0 /\ k2 = 0)
  \/ /\ n2 = n /\ t2 = t /\ k2 = k
     /\ \/ w2 = w
        \/ w \notin {"off", "wire"} /\ w2 = "off"
        \/ w = "ask" /\ w2 = "wire"
        \/ w \in {"act", "shell"} /\ w2 \in {"act", "shell"}
  \/ /\ n2 = n /\ t2 = t /\ w = "wire"
     /\ w2 \in {"off", "act"} \/ (w2 = "ask" /\ k2 = k + 1)
  \/ n2 = n /\ w = "act" /\ w2 = "ask" /\ t2 = t + 1

LEMMA CallsGrow ==
  ASSUME NEW w, NEW n \in Nat, w # "off" => n # 0,
         NEW t \in 0..MaxRepairs, NEW k \in 0..MaxModelRetries,
         NEW w2, NEW n2 \in Nat, w2 # "off" => n2 # 0,
         NEW t2 \in 0..MaxRepairs, NEW k2 \in 0..MaxModelRetries,
         Shape(w, n, t, k, w2, n2, t2, k2)
  PROVE  /\ Calls(w, n, t, k) \in Nat /\ Calls(w2, n2, t2, k2) \in Nat
         /\ Calls(w, n, t, k) <= Calls(w2, n2, t2, k2)
         /\ w = "wire" /\ w2 # "wire" => Calls(w, n, t, k) + 1 <= Calls(w2, n2, t2, k2)
<1> DEFINE c == Calls(w, n, t, k)
           c2 == Calls(w2, n2, t2, k2)
           A == CallsOfAttempt
           nA == n * A
           mA == (n - 1) * A
           tR == t * Round
<1>. SUFFICES c \in Nat /\ c2 \in Nat /\ c <= c2 /\ (w = "wire" /\ w2 # "wire" => c + 1 <= c2)
  OBVIOUS
<1>1. c \in Nat /\ c2 \in Nat
  BY CallsSum
<1>2. A \in Nat /\ tR \in Nat /\ tR + Round <= A /\ Round \in Nat /\ k \in Nat /\ k + 1 <= Round /\ k2 \in Nat
  BY Rounds
<1>3. /\ w = "off" => c = nA
      /\ w # "off" => /\ mA \in Nat /\ nA = mA + A
                      /\ c = mA + (IF w \in {"ask", "wire"} THEN tR + k ELSE tR + Round)
  BY CallsSum
<1>4. CASE w = "off" /\ n2 = n + 1 /\ (w2 = "off" \/ (w2 = "ask" /\ t2 = 0 /\ k2 = 0))
  <2>1. n2 * A = nA + A /\ n2 - 1 = n /\ nA \in Nat
    BY <1>2, <1>4, Times
  <2>2. CASE w2 = "off"
    <3>1. c2 = n2 * A
      BY <2>2, CallsSum
    <3>. QED
      BY <1>1, <1>2, <1>3, <1>4, <2>1, <3>1
  <2>3. CASE w2 = "ask" /\ t2 = 0 /\ k2 = 0
    <3>1. c2 = (n2 - 1) * A + (t2 * Round + k2)
      BY <2>3, CallsSum
    <3>2. t2 * Round + k2 = 0
      BY <1>2, <2>3
    <3>3. c2 = nA
      BY <2>1, <3>1, <3>2
    <3>. QED
      BY <1>1, <1>3, <1>4, <3>3
  <2>. QED
    BY <1>4, <2>2, <2>3
<1>5. ASSUME n2 = n, w # "off", w2 = "off" PROVE c2 = mA + A
  <2>1. c2 = n2 * A
    BY <1>5, CallsSum
  <2>. QED
    BY <1>3, <1>5, <2>1
<1>6. ASSUME n2 = n, w # "off", w2 # "off", t2 = t
      PROVE  c2 = mA + (IF w2 \in {"ask", "wire"} THEN tR + k2 ELSE tR + Round)
  <2>1. c2 = (n2 - 1) * A + (IF w2 \in {"ask", "wire"} THEN t2 * Round + k2 ELSE t2 * Round + Round)
    BY <1>6, CallsSum
  <2>. QED
    BY <1>6, <2>1
<1>7. CASE /\ n2 = n /\ t2 = t /\ k2 = k
           /\ \/ w2 = w
              \/ w \notin {"off", "wire"} /\ w2 = "off"
              \/ w = "ask" /\ w2 = "wire"
              \/ w \in {"act", "shell"} /\ w2 \in {"act", "shell"}
  <2>1. CASE w2 = w
    <3>1. c2 = c
      BY <1>7, <2>1
    <3>. QED
      BY <1>1, <2>1, <3>1
  <2> HIDE DEF c, c2, A, nA, mA, tR
  <2>2. CASE w2 # w
    BY <1>1, <1>2, <1>3, <1>5, <1>6, <1>7, <2>2
  <2>. QED
    BY <2>1, <2>2
<1>8. CASE n2 = n /\ t2 = t /\ w = "wire" /\ (w2 \in {"off", "act"} \/ (w2 = "ask" /\ k2 = k + 1))
  <2> HIDE DEF c, c2, A, nA, mA, tR
  <2>. QED
    BY <1>1, <1>2, <1>3, <1>5, <1>6, <1>8
<1>9. CASE n2 = n /\ w = "act" /\ w2 = "ask" /\ t2 = t + 1
  <2>1. c2 = (n2 - 1) * A + (t2 * Round + k2)
    BY <1>9, CallsSum
  <2>2. t2 * Round = tR + Round
    BY <1>9, Rounds
  <2>3. c2 = mA + ((tR + Round) + k2)
    BY <1>9, <2>1, <2>2
  <2> HIDE DEF c, c2, A, nA, mA, tR
  <2>. QED
    BY <1>1, <1>2, <1>3, <1>9, <2>3
<1>. QED
  BY <1>4, <1>7, <1>8, <1>9 DEF Shape

(* Only what leaves the wire loses a charge, and one only.                  *)
LEMMA StepShape ==
  ASSUME Inv, [Next]_vars
  PROVE  /\ Shape(wpc, attempts, turn, tries, wpc', attempts', turn', tries')
         /\ \/ lost' = lost
            \/ wpc = "wire" /\ wpc' # "wire" /\ \E price \in Prices \cup {0} : lost' <= lost + price
<1> USE Assumptions DEF Inv, TypeOK, Shape, fixed, bill
<1>1. CASE UNCHANGED vars
  BY <1>1 DEF vars, workerVars
<1>2. CASE Run \/ RunNobody
  BY <1>2 DEF Run, Begin, Reset, RunNobody
<1>3. CASE Request \/ UnknownTool \/ StartShell \/ ShellWrites \/ LooseWrites \/ LooseExits
  BY <1>3 DEF Request, UnknownTool, StartShell, Known, ShellWrites, LooseWrites, LooseExits, workerVars
<1>4. CASE ReadFile \/ WriteFile \/ PatchFile \/ ShellEnds
  BY <1>4 DEF ReadFile, WriteFile, PatchFile, ShellEnds, Runs, Known
<1>5. CASE Unauthorized \/ Denied \/ NoCallLeft
  BY <1>5 DEF Unauthorized, Denied, NoCallLeft, Known, Leaves
<1>6. CASE Decide
  BY <1>6 DEF Decide, Leaves
<1>7. CASE TimeOut
  BY <1>7 DEF TimeOut, Leaves, Unrecorded
<1>8. CASE Unusable
  BY <1>8 DEF Unusable, RetryOrFail, Leaves, Unrecorded
<1>9. CASE Garbled
  BY <1>9 DEF Garbled, RetryOrFail, Leaves, Pays
<1>10. CASE Answered
  BY <1>10 DEF Answered, Leaves, Pays
<1>. QED
  BY <1>1, <1>2, <1>3, <1>4, <1>5, <1>6, <1>7, <1>8, <1>9, <1>10 DEF Next

LEMMA NotNone == ASSUME NEW a \in Nat, NEW b \in Nat, a + 1 <= b PROVE b # 0
OBVIOUS

LEMMA LossStep == ASSUME Inv, Inv', Lossy, [Next]_vars PROVE Lossy'
<1>1. /\ attempts \in Nat /\ (wpc # "off" => attempts # 0) /\ lost \in Nat
      /\ turn \in 0..MaxRepairs /\ tries \in 0..MaxModelRetries
  BY Assumptions DEF Inv, TypeOK, OneCommand
<1>2. /\ attempts' \in Nat /\ (wpc' # "off" => attempts' # 0) /\ lost' \in Nat
      /\ turn' \in 0..MaxRepairs /\ tries' \in 0..MaxModelRetries
  <2>1. /\ attempts' \in Nat /\ lost' \in Nat /\ loose' \in Nat
        /\ turn' \in 0..MaxRepairs /\ tries' \in 0..MaxModelRetries
    BY Assumptions DEF Inv, TypeOK
  <2>2. wpc' # "off" => loose' + 1 <= attempts'
    BY DEF Inv, OneCommand
  <2>3. wpc' # "off" => attempts' # 0
    BY <2>1, <2>2, NotNone
  <2>. QED
    BY <2>1, <2>3
<1>3. /\ CallsUsed \in Nat /\ CallsUsed' \in Nat /\ CallsUsed <= CallsUsed'
      /\ wpc = "wire" /\ wpc' # "wire" => CallsUsed + 1 <= CallsUsed'
  BY <1>1, <1>2, StepShape, CallsGrow DEF CallsUsed
<1>4. PICK most \in Prices \cup {0} : lost <= most * CallsUsed
  BY DEF Lossy
<1>5. most \in Nat
  BY Assumptions
<1>6. CASE lost' = lost
  <2>1. most * CallsUsed <= most * CallsUsed' /\ most * CallsUsed \in Nat /\ most * CallsUsed' \in Nat
    BY <1>3, <1>5, Times, TimesGrows
  <2>2. lost' <= most * CallsUsed'
    BY <1>1, <1>4, <1>6, <2>1
  <2>. QED
    BY <2>2 DEF Lossy
<1>7. CASE wpc = "wire" /\ wpc' # "wire" /\ \E price \in Prices \cup {0} : lost' <= lost + price
  <2>1. PICK price \in Prices \cup {0} : lost' <= lost + price
    BY <1>7
  <2>2. PICK top \in Prices \cup {0} : most <= top /\ price <= top
    <3>1. price \in Nat
      BY Assumptions
    <3>2. CASE most <= price
      BY <3>1, <3>2
    <3>3. CASE ~(most <= price)
      BY <1>5, <3>1, <3>3
    <3>. QED
      BY <3>2, <3>3
  <2>3. price \in Nat /\ top \in Nat
    BY Assumptions
  <2>4. most * CallsUsed <= top * CallsUsed /\ most * CallsUsed \in Nat /\ top * CallsUsed \in Nat
    BY <1>3, <1>5, <2>2, <2>3, Times, TimesGrows
  <2>5. CallsUsed + 1 \in Nat /\ CallsUsed + 1 <= CallsUsed'
    BY <1>3, <1>7
  <2>6. top * (CallsUsed + 1) <= top * CallsUsed'
    BY <1>3, <2>3, <2>5, TimesGrows
  <2>7. top * (CallsUsed + 1) = top * CallsUsed + top /\ top * CallsUsed' \in Nat
    BY <1>3, <2>3, <2>5, Times
  <2>8. lost' <= top * CallsUsed'
    BY <1>1, <1>2, <1>4, <2>1, <2>2, <2>3, <2>4, <2>6, <2>7
  <2>. QED
    BY <2>8 DEF Lossy
<1>. QED
  BY <1>6, <1>7, StepShape

(* What is never recorded is one charge at most for each call the attempts   *)
(* had room for.                                                            *)
THEOREM LossesAreBounded == Spec => []LossIsBounded
<1>1. Init => Lossy
  <2> SUFFICES ASSUME Init PROVE Lossy
    OBVIOUS
  <2>1. lost = 0 /\ CallsUsed \in Nat
    <3>1. wpc = "off" /\ attempts \in Nat /\ turn \in 0..MaxRepairs /\ tries \in 0..MaxModelRetries
      BY Assumptions DEF Init
    <3>. QED
      BY <3>1, CallsSum DEF CallsUsed, Init
  <2>. QED
    BY <2>1 DEF Lossy
<1>2. Inv /\ Inv' /\ Lossy /\ [Next]_vars => Lossy'
  BY LossStep
<1>3. Inv /\ Lossy => LossIsBounded
  <2> SUFFICES ASSUME Inv, Lossy PROVE LossIsBounded
    OBVIOUS
  <2>1. /\ attempts \in Nat /\ (wpc # "off" => attempts # 0) /\ lost \in Nat
        /\ turn \in 0..MaxRepairs /\ tries \in 0..MaxModelRetries
    BY Assumptions DEF Inv, TypeOK, OneCommand
  <2> DEFINE whole == attempts * CallsOfAttempt
             before == (attempts - 1) * CallsOfAttempt
             tR == turn * Round
  <2>2. /\ tR \in Nat /\ tR + Round <= CallsOfAttempt /\ CallsOfAttempt \in Nat /\ Round \in Nat
        /\ tries \in Nat /\ tries + 1 <= Round
    BY <2>1, Rounds
  <2>3. /\ CallsUsed \in Nat /\ whole \in Nat
        /\ wpc = "off" => CallsUsed = whole
        /\ wpc # "off" => /\ before \in Nat /\ whole = before + CallsOfAttempt
                          /\ CallsUsed = before + (IF wpc \in {"ask", "wire"} THEN tR + tries ELSE tR + Round)
    BY <2>1, CallsSum DEF CallsUsed
  <2>4. CallsUsed <= whole
    <3> HIDE DEF whole, before, tR
    <3>. QED
      BY <2>2, <2>3
  <2>5. PICK price \in Prices \cup {0} : lost <= price * CallsUsed
    BY DEF Lossy
  <2>6. price \in Nat
    BY Assumptions
  <2>7. /\ price * CallsUsed <= price * whole
        /\ price * CallsUsed \in Nat /\ price * whole \in Nat
    <3> HIDE DEF whole
    <3>. QED
      BY <2>3, <2>4, <2>6, Times, TimesGrows
  <2>8. lost <= price * whole
    BY <2>1, <2>5, <2>7
  <2>. QED
    BY <2>8 DEF LossIsBounded
<1>. QED
  BY <1>1, <1>2, <1>3, InvHolds, PTL DEF Spec

(* Tools run within the attempt's budgets. *)
THEOREM ToolsAreGoverned == Spec => []BudgetGovernsTools
<1>1. Inv => BudgetGovernsTools
  BY Assumptions DEF Inv, TypeOK, WithinBudget, BudgetGovernsTools
<1>. QED
  BY <1>1, InvHolds, PTL

(* A failure called retryable has used up the client's retries. *)
THEOREM ClientOwnsTheRetry == Spec => []ClientRetriesFirst
<1>1. Inv => ClientRetriesFirst
  BY DEF Inv
<1>. QED
  BY <1>1, InvHolds, PTL

-----------------------------------------------------------------------------
(* The worker as an attempt. *)

(* A model call that is retried cannot be seen; one that is given up ends it. *)
LEMMA RetryIsAttempt ==
  ASSUME Inv, wpc = "wire", NEW retryable \in BOOLEAN, RetryOrFail(retryable)
  PROVE  result' \in {"running", "model_call_error_retryable", "model_call_error"}
BY DEF RetryOrFail, Leaves, Inv, TypeOK, Running

LEMMA CallIsAttempt ==
  ASSUME Inv, Unusable \/ Garbled \/ Answered PROVE [AttemptNext]_attemptVars
<1>1. Running /\ spent < Ceiling
  BY DEF Inv, TypeOK, RoomLeft, Unusable, Garbled, Answered
<1>2. CASE Unusable
  <2>1. PICK retryable \in BOOLEAN : RetryOrFail(retryable)
    BY <1>2 DEF Unusable
  <2>2. result' \in {"running", "model_call_error_retryable", "model_call_error"}
    BY <1>2, <2>1, RetryIsAttempt DEF Unusable
  <2>3. UNCHANGED <<spent, touched, loose>>
    BY <1>2 DEF Unusable
  <2>4. CASE result' = "running"
    BY <1>1, <2>3, <2>4 DEF attemptVars, Running
  <2>5. CASE result' # "running"
    BY <1>1, <2>2, <2>3, <2>5 DEF AttemptNext, Finish, Results
  <2>. QED
    BY <2>4, <2>5
<1>3. CASE Garbled
  <2>1. PICK price \in Prices \cup {0} :
          /\ spent' = spent + price
          /\ IF spent' >= Ceiling THEN Leaves("stop") /\ UNCHANGED tries ELSE RetryOrFail(TRUE)
    BY <1>3 DEF Garbled, Pays
  <2>2. ~(spent' >= Ceiling) => result' \in {"running", "model_call_error_retryable", "model_call_error"}
    BY <1>3, <2>1, RetryIsAttempt DEF Garbled
  <2>3. spent' = spent + price /\ UNCHANGED <<touched, loose>>
    BY <1>3, <2>1 DEF Garbled
  <2>4. spent' >= Ceiling => result' = "stop"
    BY <2>1 DEF Leaves
  <2>5. Spend
    <3>1. CASE spent' >= Ceiling
      BY <1>1, <2>3, <2>4, <3>1 DEF Spend
    <3>2. CASE ~(spent' >= Ceiling)
      <4>1. result' \in (Results \ {"stop", "timeout"}) \cup {"running"}
        BY <2>2, <3>2 DEF Results
      <4>. QED
        BY <1>1, <2>3, <3>2, <4>1 DEF Spend
    <3>. QED
      BY <3>1, <3>2
  <2>. QED
    BY <2>5 DEF AttemptNext
<1>4. CASE Answered
  <2>1. PICK price \in Prices \cup {0} :
          /\ spent' = spent + price
          /\ IF spent' >= Ceiling THEN Leaves("stop")
             ELSE Leaves("worker_budget_exceeded") \/ UNCHANGED result
    BY <1>4 DEF Answered, Pays
  <2>2. spent' = spent + price /\ UNCHANGED <<touched, loose>>
    BY <1>4, <2>1 DEF Answered
  <2>3. Spend
    <3>1. CASE spent' >= Ceiling
      BY <1>1, <2>1, <2>2, <3>1 DEF Spend, Leaves
    <3>2. CASE ~(spent' >= Ceiling)
      <4>1. result' \in (Results \ {"stop", "timeout"}) \cup {"running"}
        BY <1>1, <2>1, <3>2 DEF Results, Leaves, Running
      <4>. QED
        BY <1>1, <2>2, <3>2, <4>1 DEF Spend
    <3>. QED
      BY <3>1, <3>2
  <2>. QED
    BY <2>3 DEF AttemptNext
<1>. QED
  BY <1>2, <1>3, <1>4

LEMMA EndIsAttempt ==
  ASSUME Inv, TimeOut \/ Unauthorized \/ Denied \/ NoCallLeft \/ Decide
  PROVE  [AttemptNext]_attemptVars
<1>1. Running /\ spent < Ceiling
  BY DEF Inv, TypeOK, RoomLeft, TimeOut, Unauthorized, Denied, NoCallLeft, Decide, Known
<1>2. CASE TimeOut
  <2>1. loose' \in {loose, loose + 1}
    BY <1>2 DEF TimeOut, LeftBehind, Inv, TypeOK
  <2>. QED
    BY <1>1, <1>2, <2>1 DEF TimeOut, Leaves, AttemptNext, Expire
<1>3. CASE Unauthorized \/ Denied \/ NoCallLeft
  BY <1>1, <1>3 DEF Unauthorized, Denied, NoCallLeft, Leaves, AttemptNext, Finish, Results
<1>4. CASE Decide
  BY <1>1, <1>4 DEF Decide, Leaves, AttemptNext, Finish, Results, attemptVars
<1>. QED
  BY <1>2, <1>3, <1>4

LEMMA ToolIsAttempt ==
  ASSUME Inv,
         \/ Request \/ UnknownTool \/ ReadFile \/ WriteFile \/ PatchFile
         \/ StartShell \/ ShellWrites \/ ShellEnds \/ LooseWrites \/ LooseExits
  PROVE  [AttemptNext]_attemptVars
<1>1. wpc # "off" => Running
  BY DEF Inv, TypeOK
<1>2. CASE Request \/ UnknownTool \/ StartShell \/ ShellEnds
  BY <1>2 DEF Request, UnknownTool, StartShell, ShellEnds
<1>3. CASE ReadFile
  BY <1>3 DEF ReadFile, Runs, attemptVars
<1>4. CASE WriteFile \/ PatchFile
  <2>1. Running /\ UNCHANGED <<spent, loose, result>>
    BY <1>1, <1>4 DEF WriteFile, PatchFile, Runs, Known
  <2>2. touched' = touched \/ touched' = TRUE
    <3>1. touched \in BOOLEAN
      BY DEF Inv, TypeOK
    <3>2. \E written \in BOOLEAN : touched' = (touched \/ written)
      BY <1>4 DEF WriteFile, PatchFile
    <3>. QED
      BY <3>1, <3>2
  <2>. QED
    BY <2>1, <2>2 DEF AttemptNext, Touch, attemptVars
<1>5. CASE ShellWrites
  BY <1>1, <1>5 DEF ShellWrites, AttemptNext, Touch
<1>6. CASE LooseWrites \/ LooseExits
  BY <1>6 DEF LooseWrites, LooseExits, AttemptNext
<1>. QED
  BY <1>2, <1>3, <1>4, <1>5, <1>6

(* Every step of a worker is one the scheduler expects, or none it can see.  *)
THEOREM WorkerIsAttempt == Spec => ImplementsAttempt
<1>1. Init => AttemptInit
  BY DEF Init
<1>2. Inv /\ [Next]_vars => [AttemptNext]_attemptVars
  <2>1. Run \/ RunNobody => AttemptNext
    BY DEF Run, RunNobody, AttemptNext
  <2>2. UNCHANGED vars => UNCHANGED attemptVars
    BY DEF vars
  <2>. QED
    BY <2>1, <2>2, CallIsAttempt, EndIsAttempt, ToolIsAttempt DEF Next
<1>. QED
  BY <1>1, <1>2, InvHolds, PTL DEF Spec, ImplementsAttempt, AttemptSpec
=============================================================================
