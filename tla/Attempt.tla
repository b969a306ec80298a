------------------------------ MODULE Attempt -------------------------------
(***************************************************************************)
(* What the scheduler may rely on when a worker attempts an assignment: it *)
(* spends below the task's ceiling, changes the candidate tree while it    *)
(* runs, and answers once.  Only an attempt the wall clock ended may leave *)
(* a command behind, and only such a command changes the tree later.       *)
(* Worker implements this; Dispatch schedules it.                          *)
(***************************************************************************)
EXTENDS Naturals

CONSTANTS
  Ceiling,  \* policy.max_total_tokens (max_total_cost_usd has the same shape)
  Prices    \* tokens one provider answer may report

ASSUME PricesAssumption == Ceiling \in Nat \ {0} /\ Prices \subseteq Nat

VARIABLES
  spent,    \* clock.consumed_tokens
  touched,  \* the candidate tree is no longer the seed
  loose,    \* commands that outlive the attempt that started them
  result    \* what the last attempt answered, "running" while there is one

attemptVars == <<spent, touched, loose, result>>

(* WorkerResult.error_type, "done" without one and "stop" for SafetyStopError. *)
Results == {"done", "configuration", "tool_not_permitted", "worker_budget_exceeded",
            "auth_error", "model_call_error", "model_call_error_retryable", "timeout", "stop"}
Retryable == {"model_call_error_retryable", "timeout"}

Running == result = "running"

AttemptInit == spent = 0 /\ touched = FALSE /\ loose = 0 /\ result = "none"

(* The cost guard speaks before anything runs.                              *)
Begin ==
  /\ ~Running
  /\ result' = IF spent >= Ceiling THEN "stop" ELSE "running"
  /\ UNCHANGED <<spent, touched, loose>>

(* No worker is registered for the agent.                                   *)
Unmanned == ~Running /\ result' = "configuration" /\ UNCHANGED <<spent, touched, loose>>

(* The usage one provider answer reports is recorded, nothing when it       *)
(* reports none; the ceiling is looked at right after.                      *)
Spend ==
  /\ Running /\ spent < Ceiling
  /\ \E price \in Prices \cup {0}, next \in (Results \ {"stop", "timeout"}) \cup {"running"} :
       /\ spent' = spent + price
       /\ result' = IF spent' >= Ceiling THEN "stop" ELSE next
  /\ UNCHANGED <<touched, loose>>

Touch == Running /\ touched' = TRUE /\ UNCHANGED <<spent, loose, result>>

Finish ==
  /\ Running /\ spent < Ceiling
  /\ result' \in Results \ {"stop", "timeout"}
  /\ UNCHANGED <<spent, touched, loose>>

(* asyncio.wait_for cancels the worker, not the command it waits for.       *)
Expire ==
  /\ Running /\ spent < Ceiling
  /\ result' = "timeout"
  /\ loose' \in {loose, loose + 1}
  /\ UNCHANGED <<spent, touched>>

LooseTouch == loose > 0 /\ touched' = TRUE /\ UNCHANGED <<spent, loose, result>>
LooseEnds == loose > 0 /\ loose' = loose - 1 /\ UNCHANGED <<spent, touched, result>>

AttemptNext ==
  Begin \/ Unmanned \/ Spend \/ Touch \/ Finish \/ Expire \/ LooseTouch \/ LooseEnds

AttemptSpec == AttemptInit /\ [][AttemptNext]_attemptVars
=============================================================================
