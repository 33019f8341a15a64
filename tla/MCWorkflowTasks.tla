--------------------------- MODULE MCWorkflowTasks ---------------------------
(* Instances of WorkflowTasks for TLC. *)
EXTENDS WorkflowTasks, TLC

(* Every task may be tried twice. *)
TwoAttempts == [t \in Task |-> 2]

(* A task without retries: max_attempts is 1 although MaxRetries is 0. *)
OneAttempt == [t \in Task |-> 0]

(* One task may be tried twice, the others once. *)
MixedAttempts ==
  LET again == CHOOSE t \in Task : TRUE
  IN  [t \in Task |-> IF t = again THEN 2 ELSE 0]

WorkerSymmetry == Permutations(Worker)
=============================================================================
