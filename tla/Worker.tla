------------------------------- MODULE Worker -------------------------------
(***************************************************************************)
(* One agent's attempts, one after the other: WorkerRuntime.run around     *)
(* ExecutionWorker.run, which asks the model (OpenAIModelClient retries a  *)
(* call by itself), runs the tool calls of each answer through ToolHarness *)
(* and asks again until the work is verified.  Two guards account for it:  *)
(* CostGuard for the task, BudgetGuard for the attempt.  A wall clock may  *)
(* end the attempt wherever it waits.                                      *)
(***************************************************************************)
EXTENDS Attempt, Sequences, FiniteSets, SequencesExt

CONSTANTS
  MaxTokens,       \* budget.max_tokens
  MaxToolCalls,    \* budget.max_tool_calls
  MaxModelRetries, \* budget.max_model_retries
  MaxRepairs,      \* MAX_SELF_REPAIR_ITERATIONS
  Verified,        \* the context has acceptance criteria
  MaxAnswer,       \* bound: tool calls in one answer
  MaxAttempts      \* bound: attempts

ASSUME WorkerAssumption ==
  /\ {MaxTokens, MaxToolCalls, MaxModelRetries, MaxRepairs, MaxAnswer, MaxAttempts} \subseteq Nat
  /\ Verified \in BOOLEAN

VARIABLES
  wpc,       \* where the worker is: "off", "ask", "wire", "act", "shell"
  used,      \* BudgetUsage.tokens of this attempt
  calls,     \* BudgetUsage.tool_calls of this attempt
  turn,      \* iteration of the self-repair loop
  tries,     \* attempt of the model call
  answer,    \* tool calls of the current answer still to run
  permitted, \* side-effect levels the budget allows, the same for every attempt
  seen,      \* what the iterations so far have established
  (* history *)
  billed,    \* tokens the provider charged, recorded here or not
  lost,      \* those of them nobody recorded
  attempts

bill == <<billed, lost>>
fixed == <<attempts, permitted>>
workerVars == <<wpc, used, calls, turn, tries, answer, seen, bill, fixed>>
vars == <<attemptVars, workerVars>>

Tools == {"read_file", "write_file", "patch_file", "run_shell", "no_such_tool"}
Level(tool) ==
  CASE tool = "run_shell" -> {"shell"}
    [] tool \in {"write_file", "patch_file"} -> {"file_write"}
    [] OTHER -> {}
Answers == BoundedSeq(Tools, MaxAnswer)

(* wrote: over all iterations; shell, failed, some: of this one.            *)
Findings == [wrote : BOOLEAN, shell : BOOLEAN, failed : BOOLEAN, some : BOOLEAN]
Nothing == [wrote |-> FALSE, shell |-> FALSE, failed |-> FALSE, some |-> FALSE]

TypeOK ==
  /\ spent \in Nat /\ touched \in BOOLEAN
  /\ loose \in 0..MaxAttempts /\ attempts \in 0..MaxAttempts
  /\ result \in Results \cup {"none", "running"}
  /\ wpc \in {"off", "ask", "wire", "act", "shell"}
  /\ Running <=> wpc # "off"
  /\ {used, billed, lost} \subseteq Nat /\ calls \in 0..MaxToolCalls
  /\ turn \in 0..MaxRepairs /\ tries \in 0..MaxModelRetries
  /\ answer \in Answers /\ permitted \subseteq {"file_write", "shell"}
  /\ seen \in Findings

Init ==
  /\ AttemptInit
  /\ permitted \in SUBSET {"file_write", "shell"}
  /\ wpc = "off" /\ used = 0 /\ calls = 0 /\ turn = 0 /\ tries = 0
  /\ answer = <<>> /\ seen = Nothing /\ billed = 0 /\ lost = 0 /\ attempts = 0

-----------------------------------------------------------------------------
(* WorkerRuntime.run                                                        *)

(* The budget counters start again; so does the conversation.               *)
Reset ==
  /\ used' = 0 /\ calls' = 0 /\ turn' = 0 /\ tries' = 0
  /\ answer' = <<>> /\ seen' = Nothing

(* Mutant: nobody asks the cost guard before an attempt.                    *)
RunUnchecked ==
  /\ wpc = "off" /\ attempts < MaxAttempts
  /\ result' = "running" /\ wpc' = "ask" /\ attempts' = attempts + 1
  /\ Reset
  /\ UNCHANGED <<spent, touched, loose, bill, permitted>>

Run ==
  /\ wpc = "off" /\ attempts < MaxAttempts
  /\ Begin
  /\ wpc' = IF result' = "running" THEN "ask" ELSE "off"
  /\ attempts' = attempts + 1
  /\ Reset
  /\ UNCHANGED <<bill, permitted>>

(* No worker is registered for the agent.                                   *)
RunNobody ==
  /\ wpc = "off" /\ attempts < MaxAttempts
  /\ Unmanned /\ attempts' = attempts + 1
  /\ UNCHANGED <<wpc, used, calls, turn, tries, answer, seen, bill, permitted>>

Leaves(r) == wpc' = "off" /\ result' = r

(* The provider charges for an answer the client never gets to record.      *)
Unrecorded(price) == billed' = billed + price /\ lost' = lost + price

(* The wall clock: whatever the worker awaits is cancelled.  A command that *)
(* was running goes on without anyone waiting for it; the provider may have *)
(* charged for a call that was on the wire.                                 *)
LeftBehind == IF wpc = "shell" THEN 1 ELSE 0

TimeOut ==
  /\ wpc \in {"ask", "wire", "shell"}
  /\ Leaves("timeout")
  /\ loose' = loose + LeftBehind
  /\ \E price \in IF wpc = "wire" THEN Prices \cup {0} ELSE {0} : Unrecorded(price)
  /\ UNCHANGED <<spent, touched, used, calls, turn, tries, answer, seen, fixed>>

-----------------------------------------------------------------------------
(* OpenAIModelClient.complete_json                                          *)

(* The ceiling is asserted before every try, the first and the retries.     *)
Request ==
  /\ wpc = "ask" /\ spent < Ceiling
  /\ wpc' = "wire"
  /\ UNCHANGED <<attemptVars, used, calls, turn, tries, answer, seen, bill, fixed>>

(* Mutant: the last retry is never the last.                                *)
RetryOrFailForever(retryable) ==
  IF retryable
  THEN wpc' = "ask" /\ tries' = (tries + 1) % (MaxModelRetries + 1) /\ UNCHANGED result
  ELSE Leaves("model_call_error") /\ UNCHANGED tries

(* A retryable failure is retried while tries are left, and is still called *)
(* retryable when they are used up.                                         *)
RetryOrFail(retryable) ==
  IF retryable /\ tries < MaxModelRetries
  THEN wpc' = "ask" /\ tries' = tries + 1 /\ UNCHANGED result
  ELSE /\ Leaves(IF retryable THEN "model_call_error_retryable" ELSE "model_call_error")
       /\ UNCHANGED tries

(* Nothing usable came back.  A broken connection, 429 or 5xx may be        *)
(* retried, another status or a malformed envelope (no JSON, no choices,    *)
(* content that is no text) may not.  An envelope, and the part of a stream *)
(* that came before it broke, was charged for, and is given up before its   *)
(* usage is recorded.                                                       *)
Unusable ==
  /\ wpc = "wire"
  /\ \E retryable \in BOOLEAN, price \in Prices \cup {0} :
       RetryOrFail(retryable) /\ Unrecorded(price)
  /\ UNCHANGED <<spent, touched, loose, used, calls, turn, answer, seen, fixed>>

(* 401 and 403 are never retried and ask for a human.                       *)
Unauthorized ==
  /\ wpc = "wire"
  /\ Leaves("auth_error")
  /\ UNCHANGED <<spent, touched, loose, used, calls, turn, tries, answer, seen, bill,
                 fixed>>

(* The usage the answer tells is recorded before the content is looked at;  *)
(* an answer that tells none counts as free.  A ceiling hit stops there.    *)
Pays(price, told) ==
  /\ spent' = spent + told
  /\ billed' = billed + price /\ lost' = lost + (price - told)

(* Mutant: usage is recorded for answers that parse only.                   *)
GarbledUnpaid ==
  /\ wpc = "wire"
  /\ RetryOrFail(TRUE)
  /\ \E price \in Prices : billed' = billed + price
  /\ UNCHANGED <<spent, lost, touched, loose, used, calls, turn, answer, seen, fixed>>

(* Content that is no JSON object may be retried; the attempt's own budget  *)
(* is told of answers only.                                                 *)
Garbled ==
  /\ wpc = "wire"
  /\ \E price \in Prices : \E told \in {0, price} :
       /\ Pays(price, told)
       /\ IF spent' >= Ceiling THEN Leaves("stop") /\ UNCHANGED tries ELSE RetryOrFail(TRUE)
  /\ UNCHANGED <<touched, loose, used, calls, turn, answer, seen, fixed>>

(* Mutant: the worker looks at its budget before it adds the answer to it.  *)
OverBudgetBefore(tokens) == used > MaxTokens

OverBudget(tokens) == tokens > MaxTokens

Answered ==
  /\ wpc = "wire"
  /\ \E price \in Prices, batch \in Answers : \E told \in {0, price} :
       /\ Pays(price, told)
       /\ IF spent' >= Ceiling
          THEN Leaves("stop") /\ UNCHANGED <<used, answer>>
          ELSE /\ used' = used + told
               /\ IF OverBudget(used')
                  THEN Leaves("worker_budget_exceeded") /\ UNCHANGED answer
                  ELSE wpc' = "act" /\ answer' = batch /\ UNCHANGED result
  /\ tries' = 0
  /\ seen' = [Nothing EXCEPT !.wrote = seen.wrote]
  /\ UNCHANGED <<touched, loose, calls, turn, fixed>>

-----------------------------------------------------------------------------
(* ToolHarness.execute                                                      *)

Called(tool, succeeds) ==
  seen' = [wrote |-> seen.wrote \/ (succeeds /\ tool \in {"write_file", "patch_file"}),
           shell |-> seen.shell \/ (succeeds /\ tool = "run_shell"),
           failed |-> seen.failed \/ ~succeeds,
           some |-> TRUE]

UnknownTool ==
  /\ wpc = "act" /\ answer # <<>> /\ Head(answer) = "no_such_tool"
  /\ Called("no_such_tool", FALSE)
  /\ answer' = Tail(answer)
  /\ UNCHANGED <<attemptVars, wpc, used, calls, turn, tries, bill, fixed>>

Known == wpc = "act" /\ answer # <<>> /\ Head(answer) # "no_such_tool"

Denied ==
  /\ Known /\ ~(Level(Head(answer)) \subseteq permitted)
  /\ Leaves("tool_not_permitted")
  /\ UNCHANGED <<spent, touched, loose, used, calls, turn, tries, answer, seen, bill,
                 fixed>>

CallLeft == calls < MaxToolCalls

(* Mutant: the call past the last one is the first that is refused.         *)
NoCallLeftLate ==
  /\ Known /\ calls > MaxToolCalls
  /\ Leaves("worker_budget_exceeded")
  /\ UNCHANGED <<spent, touched, loose, used, calls, turn, tries, answer, seen, bill,
                 fixed>>

NoCallLeft ==
  /\ Known /\ Level(Head(answer)) \subseteq permitted /\ ~CallLeft
  /\ Leaves("worker_budget_exceeded")
  /\ UNCHANGED <<spent, touched, loose, used, calls, turn, tries, answer, seen, bill,
                 fixed>>

Runs(tool) ==
  /\ Known /\ Head(answer) = tool /\ Level(tool) \subseteq permitted /\ CallLeft
  /\ calls' = calls + 1
  /\ answer' = Tail(answer)
  /\ UNCHANGED <<spent, loose, result, wpc, used, turn, tries, bill, fixed>>

ReadFile ==
  /\ Runs("read_file") /\ touched' = touched
  /\ \E succeeds \in BOOLEAN : Called("read_file", succeeds)

(* A path that leaves the tree or cannot be written is refused before it is *)
(* opened.                                                                  *)
WriteFile ==
  /\ Runs("write_file")
  /\ \E succeeds \in BOOLEAN :
       Called("write_file", succeeds) /\ touched' = (touched \/ succeeds)

(* The old text must be there once: anything else writes nothing.           *)
PatchFile ==
  /\ Runs("patch_file")
  /\ \E unique \in BOOLEAN :
       Called("patch_file", unique) /\ touched' = (touched \/ unique)

(* run_shell starts a process and awaits it.                                *)
StartShell ==
  /\ Known /\ Head(answer) = "run_shell" /\ "shell" \in permitted /\ CallLeft
  /\ wpc' = "shell"
  /\ UNCHANGED <<attemptVars, used, calls, turn, tries, answer, seen, bill, fixed>>

(* The command may write whenever it runs, waited for or not.               *)
ShellWrites ==
  /\ wpc = "shell" /\ ~touched
  /\ touched' = TRUE
  /\ UNCHANGED <<spent, loose, result, workerVars>>

(* It exits, or its own timeout kills its process group; then its evidence  *)
(* and its terminal event are written.                                      *)
ShellEnds ==
  /\ wpc = "shell"
  /\ \E succeeds \in BOOLEAN : Called("run_shell", succeeds)
  /\ calls' = calls + 1
  /\ answer' = Tail(answer) /\ wpc' = "act"
  /\ UNCHANGED <<attemptVars, used, turn, tries, bill, fixed>>

LooseWrites == ~touched /\ LooseTouch /\ UNCHANGED workerVars
LooseExits == LooseEnds /\ UNCHANGED workerVars

-----------------------------------------------------------------------------
(* ExecutionWorker.run: after the last tool call of an answer.              *)

WorkComplete == seen.wrote /\ (seen.shell \/ ~Verified)

LastTurn == turn >= MaxRepairs

Complete == LastTurn \/ ~seen.some \/ (~seen.failed /\ WorkComplete)

Decide ==
  /\ wpc = "act" /\ answer = <<>>
  /\ IF Complete
     THEN Leaves("done") /\ UNCHANGED turn
     ELSE wpc' = "ask" /\ turn' = turn + 1 /\ UNCHANGED result
  /\ UNCHANGED <<spent, touched, loose, used, calls, tries, answer, seen, bill, fixed>>

Next ==
  \/ Run \/ RunNobody
  \/ Request \/ Unusable \/ Unauthorized \/ Garbled \/ Answered \/ TimeOut
  \/ UnknownTool \/ Denied \/ NoCallLeft
  \/ ReadFile \/ WriteFile \/ PatchFile \/ StartShell \/ ShellWrites \/ ShellEnds
  \/ LooseWrites \/ LooseExits
  \/ Decide

(* The event loop runs what is ready; what it waits for answers, or the     *)
(* wall clock fires.                                                        *)
Proceeds ==
  \/ Request \/ Unusable \/ Unauthorized \/ Garbled \/ Answered \/ TimeOut
  \/ UnknownTool \/ Denied \/ NoCallLeft
  \/ ReadFile \/ WriteFile \/ PatchFile \/ StartShell \/ ShellEnds
  \/ Decide

Spec == Init /\ [][Next]_vars /\ WF_vars(Proceeds)

-----------------------------------------------------------------------------
(* Whatever the provider charged, repairs and garbled answers included, is  *)
(* less than one answer over the task's ceiling (CostGuard, I-8), but for   *)
(* the charges the client never records: answers without usage, malformed   *)
(* envelopes, broken streams and calls cut off on the wire.  So the ceiling *)
(* does not stop the provider's charges "within one tool/LLM call"          *)
(* (docs/architecture/v0.5a/overview.md:32).                                *)
CeilingBoundsBilling ==
  billed - lost < Ceiling \/ \E price \in Prices : billed - lost - price < Ceiling

(* What goes unrecorded is at most one charge for each call the retries and *)
(* the repairs of the attempts leave room for (complete_json under          *)
(* ExecutionWorker.run).                                                    *)
CallsOfAttempt == (MaxRepairs + 1) * (MaxModelRetries + 1)
LossIsBounded ==
  \E price \in Prices \cup {0} : lost <= price * (attempts * CallsOfAttempt)

(* No tool runs for an answer that took the attempt past its token budget,  *)
(* and no attempt makes more tool calls than its budget, whatever earlier   *)
(* attempts used up (BudgetGuard).                                          *)
BudgetGovernsTools ==
  wpc \in {"act", "shell"} => used <= MaxTokens /\ calls <= MaxToolCalls

(* A model failure the scheduler may retry has used up the model call's own *)
(* retries first (ADR-004: the client owns the retry).                      *)
ClientRetriesFirst == result = "model_call_error_retryable" => tries = MaxModelRetries

(* A worker that started ends with an answer, whatever the model, the tools *)
(* and the provider do (WorkerRuntime.run).                                 *)
EveryAttemptAnswers == Running ~> ~Running

(* Every step of the worker is one the scheduler expects of an attempt, or   *)
(* none it can see.                                                         *)
ImplementsAttempt == AttemptSpec
=============================================================================
