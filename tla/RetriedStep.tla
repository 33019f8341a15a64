----------------------------- MODULE RetriedStep ------------------------------
(* A workflow step, run once or with a retry policy (Manager.Run, runWithRetry *)
(* in api/internal/capabilities/workflow/workflow.go), its context ending at   *)
(* any moment. Time is in hundredths of a second.                              *)
EXTENDS Naturals, Sequences

CONSTANTS
    Policy,     \* retry policies: [max, initial, limit], 0 where none is given
    Bare        \* a Run without a policy

RetriedStepAssumption ==
    /\ Policy \subseteq [max : Nat, initial : Nat, limit : Nat]
    /\ Bare \notin [max : Nat, initial : Nat, limit : Nat]

VARIABLES
    step        \* one Run: its policy, calls, delays, context and result

RetriedStepInit ==
    step = [at |-> "idle", policy |-> Bare, calls |-> 0, delay |-> 0, waits |-> <<>>,
            live |-> TRUE, callsAtEnd |-> 0, last |-> "none", result |-> "none"]

(* normalize: three tries and at most ten seconds where nothing is asked for.  *)
Normalize(policy) ==
    [policy EXCEPT !.max = IF @ < 1 THEN 3 ELSE @, !.limit = IF @ = 0 THEN 1000 ELSE @]

(* calculateRetryDelay with the default multiplier, which doubles the delay    *)
(* with each attempt; the jitter of a tenth is added to a delay that is        *)
(* already cut to the limit.                                                   *)
RetryDelays ==
    LET delay == IF step.delay > step.policy.limit THEN step.policy.limit ELSE step.delay
    IN  {delay - delay \div 10, delay, delay + delay \div 10}

(* Without a policy the task is called whatever its context says.              *)
Run(policy) ==
    /\ step.at = "idle"
    /\ step' = IF policy = Bare THEN [step EXCEPT !.at = "task", !.calls = 1]
               ELSE [step EXCEPT !.at = "top", !.policy = Normalize(policy), !.delay = policy.initial]

(* The top of runWithRetry's loop.                                             *)
RunTop ==
    /\ step.at = "top"
    /\ step' = IF step.calls = step.policy.max
               THEN [step EXCEPT !.at = "end", !.result = "exhausted"]
               ELSE IF ~step.live THEN [step EXCEPT !.at = "end", !.result = "canceled"]
               ELSE [step EXCEPT !.at = "task", !.calls = @ + 1]

(* The task returned: ShouldRetry refuses some errors, and the last try is not *)
(* followed by a delay.                                                        *)
TaskReturns(outcome) ==
    /\ step.at = "task"
    /\ \/ /\ outcome # "failed" \/ step.policy = Bare
          /\ step' = [step EXCEPT !.at = "end", !.last = outcome, !.result = outcome]
       \/ /\ outcome = "failed" /\ step.policy # Bare
          /\ IF step.calls < step.policy.max
             THEN \E wait \in RetryDelays :
                      step' = [step EXCEPT !.at = "delay", !.last = outcome, !.delay = 2 * @,
                                           !.waits = Append(@, wait)]
             ELSE step' = [step EXCEPT !.at = "top", !.last = outcome]

(* The select between an ended context and a timer that fired takes either.    *)
DelayEnds ==
    /\ step.at = "delay"
    /\ \/ step' = [step EXCEPT !.at = "top"]
       \/ ~step.live /\ step' = [step EXCEPT !.at = "end", !.result = "canceled"]

StepContextEnds ==
    /\ step.live
    /\ step' = [step EXCEPT !.live = FALSE, !.callsAtEnd = step.calls]

RetriedStepNext ==
    \/ \E policy \in Policy \cup {Bare} : Run(policy)
    \/ RunTop \/ DelayEnds \/ StepContextEnds
    \/ \E outcome \in {"ok", "failed", "fatal"} : TaskReturns(outcome)

RetriedStepSpec == RetriedStepInit /\ [][RetriedStepNext]_step

-------------------------------------------------------------------------------
(* A retried step calls its task at most as often as its policy says, and not  *)
(* again once its context has ended, whichever way the select of its delay     *)
(* went; it counts as exhausted only when every call failed and answers what   *)
(* the last call answered otherwise; no delay is longer than the limit by more *)
(* than the jitter (runWithRetry, calculateRetryDelay).                        *)
RetriedStepSound ==
    step.policy # Bare =>
        /\ step.calls <= step.policy.max
        /\ ~step.live => step.calls = step.callsAtEnd
        /\ step.result = "exhausted" =>
              step.calls = step.policy.max /\ step.last = "failed"
              /\ Len(step.waits) = step.policy.max - 1
        /\ step.result \in {"ok", "fatal"} => step.last = step.result
        /\ \A i \in DOMAIN step.waits :
              step.waits[i] <= step.policy.limit + step.policy.limit \div 10
===============================================================================
