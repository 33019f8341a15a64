---------------------------- MODULE TaskLifecycle ----------------------------
(***************************************************************************)
(* What the durable queue promises about one task at a time, without       *)
(* leases, locks, clocks or workers: the states a task goes through, what  *)
(* an attempt costs, what a cancellation forbids and when a fencing token  *)
(* grows.  A step may move several tasks, as a Claim does when it recovers *)
(* expired leases and claims a task at once.                               *)
(***************************************************************************)
EXTENDS Naturals

CONSTANTS
  Task,      \* task ids
  Budget(_)  \* the attempts each task may use

VARIABLE ledger

State == {"absent", "pending", "processing", "completed", "failed", "canceled"}

Entry == [state : State, attempts : Nat, fence : Nat, cancel : BOOLEAN]

At(state, attempts, fence, cancel) ==
  [state |-> state, attempts |-> attempts, fence |-> fence, cancel |-> cancel]

NoEntry == At("absent", 0, 0, FALSE)

-----------------------------------------------------------------------------
(* The moves of a task t from entry a to entry b.                          *)

Submit(a, b) == a.state = "absent" /\ b = At("pending", 0, 0, FALSE)

(* A worker gets the task: an attempt is spent, a new fencing token issued. *)
Start(t, a, b) ==
  /\ a.state \in {"pending", "processing"} /\ ~a.cancel
  /\ a.attempts < Budget(t)
  /\ b = At("processing", a.attempts + 1, a.fence + 1, FALSE)

(* The task goes back to the queue, with an attempt left. *)
Requeue(t, a, b) ==
  /\ a.state = "processing" /\ ~a.cancel
  /\ a.attempts < Budget(t)
  /\ b = At("pending", a.attempts, a.fence, a.cancel)

(* A running task ends; a requested cancellation rules success out. *)
Settle(a, b) ==
  /\ a.state = "processing"
  /\ \/ ~a.cancel /\ b = At("completed", a.attempts, a.fence, a.cancel)
     \/ b = At("failed", a.attempts, a.fence, a.cancel)
     \/ a.cancel /\ b = At("canceled", a.attempts, a.fence, a.cancel)

RequestCancel(a, b) ==
  \/ a.state = "pending" /\ b = At("canceled", a.attempts, a.fence, TRUE)
  \/ a.state = "processing" /\ b = At("processing", a.attempts, a.fence, TRUE)

(* Only a failed task comes back, with its fencing tokens still counting.  *)
Reopen(a, b) ==
  a.state = "failed" /\ b = At("pending", 0, a.fence, a.cancel)

Remove(a, b) == b = NoEntry

Move(t, a, b) ==
  \/ Submit(a, b) \/ Start(t, a, b) \/ Requeue(t, a, b) \/ Settle(a, b)
  \/ RequestCancel(a, b) \/ Reopen(a, b) \/ Remove(a, b)

-----------------------------------------------------------------------------
Init == ledger = [t \in Task |-> NoEntry]

Next ==
  /\ ledger' \in [Task -> Entry]
  /\ \A t \in Task : ledger'[t] = ledger[t] \/ Move(t, ledger[t], ledger'[t])

Spec == Init /\ [][Next]_ledger
=============================================================================
