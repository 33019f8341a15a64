------------------------- MODULE WorkflowTasksProofs -------------------------
(* Proofs about WorkflowTasks, for any tasks, workers, budgets and bounds. *)
EXTENDS WorkflowTasks, TLAPS

-----------------------------------------------------------------------------
(* What the statements write, field by field.                              *)

(* The row insert creates is pending, unleased and not canceled. *)
LEMMA InsertedFields ==
  ASSUME NEW at \in Nat
  PROVE  /\ Inserted(at) \in TaskPO
         /\ Inserted(at).status = "pending"
         /\ Inserted(at).attempts = 0
         /\ Inserted(at).leaseToken = 0
         /\ Inserted(at).leaseExpiresAt = 0
         /\ Inserted(at).fencingToken = 0
         /\ Inserted(at).cancelRequested = FALSE
BY DEF Inserted, NoRow, TaskPO, Status

(* A deleted row is absent and unleased. *)
LEMMA NoRowFields ==
  /\ NoRow \in TaskPO
  /\ NoRow.status = "absent"
  /\ NoRow.attempts = 0
  /\ NoRow.leaseToken = 0
  /\ NoRow.leaseExpiresAt = 0
  /\ NoRow.fencingToken = 0
  /\ NoRow.cancelRequested = FALSE
BY DEF NoRow, TaskPO, Status

(* Ending a lease changes the status and the lease only. *)
LEMMA ReleasedFields ==
  ASSUME NEW r \in TaskPO, NEW s \in Status
  PROVE  /\ Released(r, s) \in TaskPO
         /\ Released(r, s).status = s
         /\ Released(r, s).attempts = r.attempts
         /\ Released(r, s).availableAt = r.availableAt
         /\ Released(r, s).leaseToken = 0
         /\ Released(r, s).leaseExpiresAt = 0
         /\ Released(r, s).fencingToken = r.fencingToken
         /\ Released(r, s).cancelRequested = r.cancelRequested
BY DEF Released, TaskPO

(* A claim counts one attempt and one fencing token. *)
LEMMA LeasedFields ==
  ASSUME NEW r \in TaskPO, NEW k \in Nat, NEW e \in Nat
  PROVE  /\ Leased(r, k, e) \in TaskPO
         /\ Leased(r, k, e).status = "processing"
         /\ Leased(r, k, e).attempts = r.attempts + 1
         /\ Leased(r, k, e).leaseToken = k
         /\ Leased(r, k, e).leaseExpiresAt = e
         /\ Leased(r, k, e).fencingToken = r.fencingToken + 1
         /\ Leased(r, k, e).cancelRequested = r.cancelRequested
<1> DEFINE a == r.attempts + 1
           f == r.fencingToken + 1
           q == [r EXCEPT !.status = "processing", !.attempts = a,
                          !.leaseToken = k, !.leaseExpiresAt = e,
                          !.fencingToken = f]
<1>1. a \in Nat /\ f \in Nat
  BY DEF TaskPO
<1> HIDE DEF a, f
<1>2. /\ q \in TaskPO
      /\ q.status = "processing" /\ q.attempts = a /\ q.leaseToken = k
      /\ q.leaseExpiresAt = e /\ q.fencingToken = f
      /\ q.cancelRequested = r.cancelRequested
  BY <1>1 DEF TaskPO, Status
<1> QED
  BY <1>2 DEF Leased, a, f

(* A retried task is pending with no attempt counted. *)
LEMMA ReopenedFields ==
  ASSUME NEW r \in TaskPO, NEW now \in Nat
  PROVE  /\ Reopened(r, now) \in TaskPO
         /\ Reopened(r, now).status = "pending"
         /\ Reopened(r, now).attempts = 0
         /\ Reopened(r, now).leaseToken = 0
         /\ Reopened(r, now).leaseExpiresAt = 0
         /\ Reopened(r, now).fencingToken = r.fencingToken
         /\ Reopened(r, now).cancelRequested = r.cancelRequested
<1> DEFINE q == Released(r, "pending")
           p == [q EXCEPT !.attempts = 0, !.availableAt = now]
<1>1. /\ q \in TaskPO /\ q.status = "pending"
      /\ q.leaseToken = 0 /\ q.leaseExpiresAt = 0
      /\ q.fencingToken = r.fencingToken
      /\ q.cancelRequested = r.cancelRequested
  BY ReleasedFields DEF Status
<1> HIDE DEF q
<1>2. /\ p \in TaskPO /\ p.status = "pending" /\ p.attempts = 0
      /\ p.leaseToken = 0 /\ p.leaseExpiresAt = 0
      /\ p.fencingToken = r.fencingToken
      /\ p.cancelRequested = r.cancelRequested
  BY <1>1 DEF TaskPO
<1> QED
  BY <1>2 DEF Reopened, q

(* An acknowledgement ends the lease and counts nothing. *)
LEMMA AcknowledgedFields ==
  ASSUME NEW r \in TaskPO, NEW s \in Status, NEW at \in Nat
  PROVE  /\ Acknowledged(r, s, at) \in TaskPO
         /\ Acknowledged(r, s, at).status = s
         /\ Acknowledged(r, s, at).attempts = r.attempts
         /\ Acknowledged(r, s, at).leaseToken = 0
         /\ Acknowledged(r, s, at).leaseExpiresAt = 0
         /\ Acknowledged(r, s, at).fencingToken = r.fencingToken
         /\ Acknowledged(r, s, at).cancelRequested = r.cancelRequested
<1> DEFINE q == Released(r, s)
           p == [q EXCEPT !.availableAt = at]
<1>1. /\ q \in TaskPO /\ q.status = s /\ q.attempts = r.attempts
      /\ q.leaseToken = 0 /\ q.leaseExpiresAt = 0
      /\ q.fencingToken = r.fencingToken
      /\ q.cancelRequested = r.cancelRequested
  BY ReleasedFields
<1> HIDE DEF q
<1>2. /\ p \in TaskPO /\ p.status = s /\ p.attempts = r.attempts
      /\ p.leaseToken = 0 /\ p.leaseExpiresAt = 0
      /\ p.fencingToken = r.fencingToken
      /\ p.cancelRequested = r.cancelRequested
  BY <1>1 DEF TaskPO
<1>3. Acknowledged(r, s, at) = IF s = "pending" THEN p ELSE q
  BY DEF Acknowledged, q
<1> QED
  BY <1>1, <1>2, <1>3

(* A request to cancel leaves everything but a pending status alone. *)
LEMMA AskedToCancelFields ==
  ASSUME NEW r \in TaskPO
  PROVE  /\ AskedToCancel(r) \in TaskPO
         /\ AskedToCancel(r).status =
              IF r.status = "pending" THEN "canceled" ELSE r.status
         /\ AskedToCancel(r).attempts = r.attempts
         /\ AskedToCancel(r).leaseToken = r.leaseToken
         /\ AskedToCancel(r).leaseExpiresAt = r.leaseExpiresAt
         /\ AskedToCancel(r).fencingToken = r.fencingToken
         /\ AskedToCancel(r).cancelRequested
BY DEF AskedToCancel, TaskPO, Status, Finished

(* A heartbeat moves the end of the lease only. *)
LEMMA ExtendedFields ==
  ASSUME NEW r \in TaskPO, NEW e \in Nat
  PROVE  /\ Extended(r, e) \in TaskPO
         /\ Extended(r, e).status = r.status
         /\ Extended(r, e).attempts = r.attempts
         /\ Extended(r, e).leaseToken = r.leaseToken
         /\ Extended(r, e).leaseExpiresAt = e
         /\ Extended(r, e).fencingToken = r.fencingToken
         /\ Extended(r, e).cancelRequested = r.cancelRequested
BY DEF Extended, TaskPO

-----------------------------------------------------------------------------
(* Facts that several actions use.                                         *)

(* A budget allows at least one attempt, and as many as MaxRetries. *)
LEMMA BudgetPositive ==
  ASSUME NEW t \in Task
  PROVE  /\ MaxAttempts(t) \in Nat /\ MaxAttempts(t) > 0
         /\ MaxRetries[t] \in Nat
         /\ \A n \in Nat : n < MaxRetries[t] => n < MaxAttempts(t)
BY ParametersAssumption DEF MaxAttempts, ParametersAssumption

(* No transaction holds a row that does not exist or that is finished. *)
LEMMA LockedRowIsActive ==
  ASSUME Inv, NEW t \in Task, row[t].status \notin {"pending", "processing"}
  PROVE  Free(t)
BY DEF Inv, LocksProtectClaims, Claimable, Expired, Free, Held

(* Locks are kept by a step that leaves the transactions and the rows they *)
(* hold alone.                                                             *)
LEMMA LocksKept ==
  ASSUME Inv, tx' = tx,
         \A t \in Task : row'[t] = row[t] \/ Free(t)
  PROVE  LocksProtectClaims'
<1>1. \A w \in Worker : \A t \in Held(w) : row'[t] = row[t]
  BY DEF Inv, TypeOK, ClaimTx, Held, Free
<1> QED
  BY <1>1 DEF Inv, LocksProtectClaims, Held, Claimable, Expired, MaxAttempts

(* Tokens stay distinct when rows and workers only give them up. *)
LEMMA TokensKept ==
  ASSUME Inv, tokens' = tokens,
         \A t \in Task : row'[t].leaseToken \in {0, row[t].leaseToken},
         \A w \in Worker : claim'[w] \in {claim[w], NoClaim}
  PROVE  TokensDistinct'
<1>1. NoClaim.leaseToken = 0 /\ NoClaim.id = {}
  BY DEF NoClaim
<1>2. tokens \in Nat
  BY DEF Inv, TypeOK
<1> QED
  BY <1>1, <1>2 DEF Inv, TokensDistinct

(* A worker counts the row's attempts when it did and neither changed. *)
LEMMA ClaimsKept ==
  ASSUME Inv,
         \A w \in Worker : claim'[w] \in {claim[w], NoClaim},
         \A t \in Task : \/ row'[t].status # "processing"
                         \/ /\ row'[t].status = row[t].status
                            /\ row'[t].leaseToken = row[t].leaseToken
                            /\ row'[t].fencingToken = row[t].fencingToken
                            /\ row'[t].attempts = row[t].attempts
  PROVE  ClaimMatchesRow'
<1>1. NoClaim.id = {}
  BY DEF NoClaim
<1> QED
  BY <1>1 DEF Inv, ClaimMatchesRow, Owned

(* What a worker that forgets its claim leaves behind. *)
LEMMA ForgetKeeps ==
  ASSUME Inv, NEW w \in Worker, Forget(w), succeeded' = succeeded
  PROVE  /\ \A v \in Worker : claim'[v] \in {claim[v], NoClaim}
         /\ VerdictJustified'
         /\ pc' \in [Worker -> {"idle", "exhausted", "select", "commit",
                                "running", "acknowledge", "finishCancellation"}]
         /\ claim' \in [Worker -> DurableClaim]
         /\ beat' \in [Worker -> {"off", "waiting", "extending"}]
         /\ jobDone' \in [Worker -> BOOLEAN]
         /\ verdict' \in [Worker -> {"none", "completed", "pending", "failed"}]
<1>1. NoClaim \in DurableClaim
  BY DEF NoClaim, DurableClaim
<1>2. VerdictJustified'
  BY DEF Inv, TypeOK, Forget, VerdictJustified, RetryLeft
<1> QED
  BY <1>1, <1>2 DEF Inv, TypeOK, Forget

-----------------------------------------------------------------------------
(* Producers and operators.                                                *)

(* Inserting a task keeps the invariant. *)
LEMMA PushTaskInv ==
  ASSUME Inv, NEW t \in Task, NEW delay \in Delays, PushTask(t, delay)
  PROVE  Inv'
<1> DEFINE r == Inserted(clock + delay)
<1>1. clock + delay \in Nat
  BY ParametersAssumption DEF Inv, TypeOK, ParametersAssumption
<1>2. /\ r \in TaskPO /\ r.status = "pending" /\ r.attempts = 0
      /\ r.leaseToken = 0 /\ r.leaseExpiresAt = 0
  BY <1>1, InsertedFields
<1>3. row' = [row EXCEPT ![t] = r]
  BY DEF PushTask
<1> HIDE DEF r
<1>4. Free(t)
  BY LockedRowIsActive DEF PushTask
<1>5. TypeOK'
  BY <1>2, <1>3 DEF PushTask, Inv, TypeOK, workerVars
<1>6. LeaseMatchesStatus'
  BY <1>2, <1>3 DEF Inv, TypeOK, LeaseMatchesStatus
<1>7. BudgetRespected'
  BY <1>2, <1>3, BudgetPositive DEF Inv, TypeOK, BudgetRespected
<1>8. CompletedByLatestClaim' /\ LeaseIsLatest' /\ TxClock'
  BY <1>2, <1>3 DEF Inv, TypeOK, CompletedByLatestClaim, LeaseIsLatest,
                    TxClock, PushTask
<1>9. LocksProtectClaims'
  BY <1>3, <1>4, LocksKept DEF Inv, TypeOK, PushTask
<1>10. TokensDistinct'
  BY <1>2, <1>3, TokensKept DEF Inv, TypeOK, PushTask, workerVars
<1>11. ClaimMatchesRow'
  BY <1>2, <1>3, ClaimsKept DEF Inv, TypeOK, PushTask, workerVars
<1>12. VerdictJustified'
  BY DEF Inv, VerdictJustified, RetryLeft, PushTask, workerVars
<1> QED
  BY <1>5, <1>6, <1>7, <1>8, <1>9, <1>10, <1>11, <1>12 DEF Inv

(* Asking to cancel keeps the invariant. *)
LEMMA CancelInv ==
  ASSUME Inv, NEW t \in Task, Cancel(t)
  PROVE  Inv'
<1> DEFINE r == AskedToCancel(row[t])
<1>1. row[t] \in TaskPO
  BY DEF Inv, TypeOK
<1>2. /\ r \in TaskPO
      /\ r.status = IF row[t].status = "pending" THEN "canceled"
                                                 ELSE row[t].status
      /\ r.attempts = row[t].attempts
      /\ r.leaseToken = row[t].leaseToken
      /\ r.leaseExpiresAt = row[t].leaseExpiresAt
      /\ r.fencingToken = row[t].fencingToken
  BY <1>1, AskedToCancelFields
<1>3. row' = [row EXCEPT ![t] = r]
  BY DEF Cancel
<1> HIDE DEF r
<1>4. /\ row[t].status \in {"pending", "processing"} /\ Free(t)
      /\ UNCHANGED <<clock, tx, tokens, pushes, faults, latest, succeeded, pc,
                     claim, beat, jobDone, verdict>>
  BY DEF Cancel, history, workerVars
<1>5. TypeOK'
  BY <1>2, <1>3, <1>4 DEF Inv, TypeOK
<1>6. LeaseMatchesStatus'
  BY <1>2, <1>3, <1>4 DEF Inv, TypeOK, LeaseMatchesStatus
<1>7. BudgetRespected'
  BY <1>2, <1>3, <1>4 DEF Inv, TypeOK, BudgetRespected, MaxAttempts
<1>8. CompletedByLatestClaim' /\ LeaseIsLatest' /\ TxClock'
  BY <1>2, <1>3, <1>4 DEF Inv, TypeOK, CompletedByLatestClaim, LeaseIsLatest,
                          TxClock
<1>9. LocksProtectClaims'
  BY <1>3, <1>4, LocksKept DEF Inv, TypeOK
<1>10. TokensDistinct'
  BY <1>2, <1>3, <1>4, TokensKept DEF Inv, TypeOK
<1>11. ClaimMatchesRow'
  BY <1>2, <1>3, <1>4, ClaimsKept DEF Inv, TypeOK
<1>12. VerdictJustified'
  BY <1>4 DEF Inv, VerdictJustified, RetryLeft
<1> QED
  BY <1>5, <1>6, <1>7, <1>8, <1>9, <1>10, <1>11, <1>12 DEF Inv

(* Giving a failed task a new budget keeps the invariant. *)
LEMMA RetryFailedInv ==
  ASSUME Inv, NEW t \in Task, RetryFailed(t)
  PROVE  Inv'
<1> DEFINE r == Reopened(row[t], clock)
<1>1. row[t] \in TaskPO /\ clock \in Nat
  BY DEF Inv, TypeOK
<1>2. /\ r \in TaskPO /\ r.status = "pending" /\ r.attempts = 0
      /\ r.leaseToken = 0 /\ r.leaseExpiresAt = 0
  BY <1>1, ReopenedFields
<1>3. row' = [row EXCEPT ![t] = r]
  BY DEF RetryFailed
<1> HIDE DEF r
<1>4. /\ Free(t)
      /\ UNCHANGED <<clock, tx, tokens, faults, latest, succeeded, pc,
                     claim, beat, jobDone, verdict>>
      /\ pushes' = pushes + 1
  BY DEF RetryFailed, history, workerVars
<1>5. TypeOK'
  BY <1>2, <1>3, <1>4 DEF Inv, TypeOK
<1>6. LeaseMatchesStatus'
  BY <1>2, <1>3, <1>4 DEF Inv, TypeOK, LeaseMatchesStatus
<1>7. BudgetRespected'
  BY <1>2, <1>3, BudgetPositive DEF Inv, TypeOK, BudgetRespected
<1>8. CompletedByLatestClaim' /\ LeaseIsLatest' /\ TxClock'
  BY <1>2, <1>3, <1>4 DEF Inv, TypeOK, CompletedByLatestClaim, LeaseIsLatest,
                          TxClock
<1>9. LocksProtectClaims'
  BY <1>3, <1>4, LocksKept DEF Inv, TypeOK
<1>10. TokensDistinct'
  BY <1>2, <1>3, <1>4, TokensKept DEF Inv, TypeOK
<1>11. ClaimMatchesRow'
  BY <1>2, <1>3, <1>4, ClaimsKept DEF Inv, TypeOK
<1>12. VerdictJustified'
  BY <1>4 DEF Inv, VerdictJustified, RetryLeft
<1> QED
  BY <1>5, <1>6, <1>7, <1>8, <1>9, <1>10, <1>11, <1>12 DEF Inv

(* Deleting rows nobody has locked keeps the invariant. *)
LEMMA DeleteInv ==
  ASSUME Inv, NEW S \in SUBSET Task,
         \A t \in S : Free(t) \/ row[t] = NoRow,
         row' = [t \in Task |-> IF t \in S THEN NoRow ELSE row[t]],
         UNCHANGED <<clock, tx, tokens, pushes, faults, history, workerVars>>
  PROVE  Inv'
<1>1. UNCHANGED <<clock, tx, tokens, pushes, faults, latest, succeeded, pc,
                  claim, beat, jobDone, verdict>>
  BY DEF history, workerVars
<1>2. /\ NoRow \in TaskPO /\ NoRow.status = "absent" /\ NoRow.attempts = 0
      /\ NoRow.leaseToken = 0 /\ NoRow.leaseExpiresAt = 0
  BY NoRowFields
<1>3. TypeOK'
  BY <1>1, <1>2 DEF Inv, TypeOK
<1>4. LeaseMatchesStatus'
  BY <1>2 DEF Inv, LeaseMatchesStatus
<1>5. BudgetRespected'
  BY <1>2, BudgetPositive DEF Inv, BudgetRespected
<1>6. CompletedByLatestClaim' /\ LeaseIsLatest' /\ TxClock'
  BY <1>1, <1>2 DEF Inv, CompletedByLatestClaim, LeaseIsLatest, TxClock
<1>7. LocksProtectClaims'
  BY <1>1, LocksKept
<1>8. TokensDistinct'
  BY <1>1, <1>2, TokensKept
<1>9. ClaimMatchesRow'
  BY <1>1, <1>2, ClaimsKept
<1>10. VerdictJustified'
  BY <1>1 DEF Inv, VerdictJustified, RetryLeft
<1> QED
  BY <1>3, <1>4, <1>5, <1>6, <1>7, <1>8, <1>9, <1>10 DEF Inv

(* Pruning and clearing keep the invariant. *)
LEMMA PruneClearInv == Inv /\ (PruneFinished \/ Clear) => Inv'
<1> SUFFICES ASSUME Inv, PruneFinished \/ Clear PROVE Inv'
  OBVIOUS
<1>1. CASE PruneFinished
  <2>1. PICK batch \in SUBSET Task \ {{}} :
          /\ \A t \in batch : row[t].status \in Finished /\ Free(t)
          /\ row' = [t \in Task |-> IF t \in batch THEN NoRow ELSE row[t]]
          /\ UNCHANGED <<clock, tx, tokens, pushes, faults, history,
                         workerVars>>
    BY <1>1 DEF PruneFinished
  <2> QED
    BY <2>1, DeleteInv
<1>2. CASE Clear
  <2>1. \A t \in Task : Free(t)
    BY <1>2, LockedRowIsActive DEF Clear
  <2>2. row' = [t \in Task |-> IF t \in Task THEN NoRow ELSE row[t]]
    BY <1>2 DEF Clear
  <2>3. UNCHANGED <<clock, tx, tokens, pushes, faults, history, workerVars>>
    BY <1>2 DEF Clear
  <2> QED
    BY <2>1, <2>2, <2>3, DeleteInv
<1> QED
  BY <1>1, <1>2

-----------------------------------------------------------------------------
(* Claim.                                                                  *)

(* The three statements that only lock rows keep the invariant. *)
LEMMA ClaimLocksInv ==
  ASSUME Inv, NEW w \in Worker,
         \/ ClaimRecoverCanceled(w)
         \/ ClaimRecoverExhausted(w)
         \/ ClaimSelect(w)
  PROVE  Inv'
<1>1. UNCHANGED <<row, clock, claim, beat, jobDone, verdict, tokens, pushes,
                  faults, latest, succeeded>>
  BY DEF ClaimRecoverCanceled, ClaimRecoverExhausted, ClaimSelect, history
<1>2. /\ tx' \in [Worker -> ClaimTx]
      /\ \A v \in Worker \ {w} : tx'[v] = tx[v]
      /\ tx'[w].now \in {tx[w].now, clock}
  <2>1. CASE ClaimRecoverCanceled(w)
    BY <2>1 DEF Inv, TypeOK, ClaimRecoverCanceled, ClaimTx, NoTx
  <2>2. CASE ClaimRecoverExhausted(w)
    <3>1. PICK hit \in SUBSET Task : tx' = [tx EXCEPT ![w].exhausted = hit]
      BY <2>2 DEF ClaimRecoverExhausted
    <3>2. tx \in [Worker -> ClaimTx]
      BY DEF Inv, TypeOK
    <3> QED
      BY <3>1, <3>2 DEF ClaimTx
  <2>3. CASE ClaimSelect(w)
    <3>1. CASE tx' = tx
      BY <3>1 DEF Inv, TypeOK
    <3>2. CASE \E t \in Task : tx' = [tx EXCEPT ![w].picked = {t}]
      <4>1. PICK t \in Task : tx' = [tx EXCEPT ![w].picked = {t}]
        BY <3>2
      <4>2. tx \in [Worker -> ClaimTx] /\ {t} \in SUBSET Task
        BY DEF Inv, TypeOK
      <4> QED
        BY <4>1, <4>2 DEF ClaimTx
    <3> QED
      BY <2>3, <3>1, <3>2 DEF ClaimSelect
  <2> QED
    BY <2>1, <2>2, <2>3
<1>3. /\ pc' \in [Worker -> {"idle", "exhausted", "select", "commit",
                             "running", "acknowledge", "finishCancellation"}]
      /\ \A v \in Worker \ {w} : pc'[v] = pc[v]
      /\ pc[w] \notin {"acknowledge", "finishCancellation"}
      /\ pc'[w] \notin {"acknowledge", "finishCancellation"}
  BY DEF Inv, TypeOK, ClaimRecoverCanceled, ClaimRecoverExhausted, ClaimSelect
<1>4. TypeOK'
  BY <1>1, <1>2, <1>3 DEF Inv, TypeOK
<1>5. TxClock'
  BY <1>1, <1>2 DEF Inv, TypeOK, TxClock
<1>6. VerdictJustified'
  BY <1>1, <1>3 DEF Inv, VerdictJustified, RetryLeft
<1>7. /\ LeaseMatchesStatus' /\ BudgetRespected' /\ CompletedByLatestClaim'
      /\ TokensDistinct' /\ ClaimMatchesRow' /\ LeaseIsLatest'
  BY <1>1 DEF Inv, LeaseMatchesStatus, BudgetRespected, MaxAttempts,
              CompletedByLatestClaim, TokensDistinct, ClaimMatchesRow, Owned,
              LeaseIsLatest
<1>8. LocksProtectClaims'
  <2>1. CASE ClaimRecoverCanceled(w)
    <3>1. /\ tx'[w].picked = {} /\ tx'[w].exhausted = {}
          /\ tx'[w].now = clock
          /\ \A t \in tx'[w].canceled : /\ Expired(t, clock)
                                        /\ row[t].cancelRequested
                                        /\ FreeFor(w, t)
      BY <2>1 DEF Inv, TypeOK, ClaimRecoverCanceled, NoTx
    <3> QED
      BY <1>1, <1>2, <3>1 DEF Inv, LocksProtectClaims, Held, FreeFor, Expired,
                              Claimable, MaxAttempts
  <2>2. CASE ClaimRecoverExhausted(w)
    <3>1. /\ tx'[w].picked = tx[w].picked /\ tx'[w].canceled = tx[w].canceled
          /\ tx'[w].now = tx[w].now
          /\ \A t \in tx'[w].exhausted : /\ Expired(t, tx[w].now)
                                         /\ row[t].attempts >= MaxAttempts(t)
                                         /\ FreeFor(w, t)
      BY <2>2 DEF Inv, TypeOK, ClaimRecoverExhausted, ClaimTx
    <3> QED
      BY <1>1, <1>2, <3>1 DEF Inv, LocksProtectClaims, Held, FreeFor, Expired,
                              Claimable, MaxAttempts
  <2>3. CASE ClaimSelect(w)
    <3>1. /\ tx'[w].canceled = tx[w].canceled
          /\ tx'[w].exhausted = tx[w].exhausted
          /\ tx'[w].now = tx[w].now
          /\ \/ tx'[w].picked = tx[w].picked
             \/ \A t \in tx'[w].picked : /\ Claimable(t, tx[w].now)
                                         /\ FreeFor(w, t)
      BY <2>3 DEF Inv, TypeOK, ClaimSelect, ClaimTx
    <3> QED
      BY <1>1, <1>2, <3>1 DEF Inv, LocksProtectClaims, Held, FreeFor, Expired,
                              Claimable, MaxAttempts
  <2> QED
    BY <2>1, <2>2, <2>3
<1> QED
  BY <1>4, <1>5, <1>6, <1>7, <1>8 DEF Inv

(* What a commit does to each row. *)
LEMMA CommittedFields ==
  ASSUME Inv, NEW w \in Worker, NEW t \in Task, NEW k \in Nat
  PROVE  LET r == Committed(t, tx[w], k) IN
         /\ r \in TaskPO
         /\ \/ t \notin Held(w) /\ r = row[t]
            \/ /\ t \in Held(w) \ tx[w].picked
               /\ row[t].status = "processing"
               /\ r.status \in {"canceled", "failed"}
               /\ r.attempts = row[t].attempts
               /\ r.leaseToken = 0 /\ r.leaseExpiresAt = 0
               /\ r.fencingToken = row[t].fencingToken
               /\ r.cancelRequested = row[t].cancelRequested
            \/ /\ t \in tx[w].picked
               /\ Claimable(t, tx[w].now)
               /\ r.status = "processing"
               /\ r.attempts = row[t].attempts + 1
               /\ r.leaseToken = k
               /\ r.leaseExpiresAt = tx[w].now + LeaseDuration
               /\ r.fencingToken = row[t].fencingToken + 1
               /\ r.cancelRequested = row[t].cancelRequested
<1> DEFINE e == tx[w].now + LeaseDuration
<1>1. row[t] \in TaskPO /\ e \in Nat
  BY ParametersAssumption DEF Inv, TypeOK, ClaimTx, ParametersAssumption
<1>2. CASE t \in tx[w].canceled
  <2>1. Committed(t, tx[w], k) = Released(row[t], "canceled")
    BY <1>2 DEF Committed
  <2>2. row[t].status = "processing" /\ t \in Held(w) \ tx[w].picked
    BY <1>2 DEF Inv, LocksProtectClaims, Expired, Held, Claimable
  <2> QED
    BY <1>1, <2>1, <2>2, ReleasedFields DEF Status, Finished
<1>3. CASE t \in tx[w].exhausted \ tx[w].canceled
  <2>1. Committed(t, tx[w], k) = Released(row[t], "failed")
    BY <1>3 DEF Committed
  <2>2. row[t].status = "processing" /\ t \in Held(w)
    BY <1>3 DEF Inv, LocksProtectClaims, Expired, Held
  <2>3. t \notin tx[w].picked
    BY <1>1, <1>3, BudgetPositive
       DEF Inv, LocksProtectClaims, Claimable, TaskPO
  <2> QED
    BY <1>1, <2>1, <2>2, <2>3, ReleasedFields DEF Status, Finished
<1>4. CASE t \in tx[w].picked \ (tx[w].canceled \cup tx[w].exhausted)
  <2>1. Committed(t, tx[w], k) = Leased(row[t], k, e)
    BY <1>4 DEF Committed
  <2>2. Claimable(t, tx[w].now)
    BY <1>4 DEF Inv, LocksProtectClaims
  <2> DEFINE r == row[t]
  <2> HIDE DEF e, r
  <2>3. r \in TaskPO
    BY <1>1 DEF r
  <2>4. /\ Leased(r, k, e) \in TaskPO
        /\ Leased(r, k, e).status = "processing"
        /\ Leased(r, k, e).attempts = r.attempts + 1
        /\ Leased(r, k, e).leaseToken = k
        /\ Leased(r, k, e).leaseExpiresAt = e
        /\ Leased(r, k, e).fencingToken = r.fencingToken + 1
        /\ Leased(r, k, e).cancelRequested = r.cancelRequested
    BY <1>1, <2>3, LeasedFields
  <2> QED
    BY <1>4, <2>1, <2>2, <2>4 DEF e, r
<1>5. CASE t \notin Held(w)
  BY <1>1, <1>5 DEF Committed, Held
<1> QED
  BY <1>2, <1>3, <1>4, <1>5 DEF Held

(* Committing a Claim keeps the invariant. *)
LEMMA ClaimCommitInv ==
  ASSUME Inv, NEW w \in Worker, ClaimCommit(w)
  PROVE  Inv'
<1> DEFINE k == tokens + 1
           e == tx[w].now + LeaseDuration
<1>0. /\ k \in Nat /\ k > tokens /\ k # 0 /\ tokens \in Nat
      /\ e \in Nat /\ e # 0
  BY ParametersAssumption DEF Inv, TypeOK, ClaimTx, ParametersAssumption
<1>1. row' = [t \in Task |-> Committed(t, tx[w], k)]
  BY DEF ClaimCommit
<1>2. /\ tx' = [tx EXCEPT ![w] = NoTx]
      /\ UNCHANGED <<clock, verdict, pushes, faults, succeeded>>
      /\ pc[w] = "commit"
  BY DEF ClaimCommit
<1>3. \A t \in Task :
        /\ row'[t] \in TaskPO
        /\ \/ t \notin Held(w) /\ row'[t] = row[t]
           \/ /\ t \in Held(w) \ tx[w].picked
              /\ row[t].status = "processing"
              /\ row'[t].status \in {"canceled", "failed"}
              /\ row'[t].attempts = row[t].attempts
              /\ row'[t].leaseToken = 0 /\ row'[t].leaseExpiresAt = 0
           \/ /\ t \in tx[w].picked
              /\ Claimable(t, tx[w].now)
              /\ row'[t].status = "processing"
              /\ row'[t].attempts = row[t].attempts + 1
              /\ row'[t].leaseToken = k
              /\ row'[t].leaseExpiresAt = e
  <2> SUFFICES ASSUME NEW t \in Task
               PROVE  /\ row'[t] \in TaskPO
                      /\ \/ t \notin Held(w) /\ row'[t] = row[t]
                         \/ /\ t \in Held(w) \ tx[w].picked
                            /\ row[t].status = "processing"
                            /\ row'[t].status \in {"canceled", "failed"}
                            /\ row'[t].attempts = row[t].attempts
                            /\ row'[t].leaseToken = 0
                            /\ row'[t].leaseExpiresAt = 0
                         \/ /\ t \in tx[w].picked
                            /\ Claimable(t, tx[w].now)
                            /\ row'[t].status = "processing"
                            /\ row'[t].attempts = row[t].attempts + 1
                            /\ row'[t].leaseToken = k
                            /\ row'[t].leaseExpiresAt = e
    OBVIOUS
  <2> HIDE DEF k
  <2>1. row'[t] = Committed(t, tx[w], k)
    BY <1>1
  <2> QED
    BY <1>0, <2>1, CommittedFields
<1> HIDE DEF k, e
<1>4. row' \in [Task -> TaskPO]
  BY <1>1, <1>3
<1>5. LeaseMatchesStatus'
  BY <1>0, <1>3 DEF Inv, LeaseMatchesStatus
<1>6. BudgetRespected'
  <2> SUFFICES ASSUME NEW t \in Task
               PROVE  /\ row'[t].attempts <= MaxAttempts(t)
                      /\ row'[t].status = "pending"
                           => row'[t].attempts < MaxAttempts(t)
    BY DEF BudgetRespected, MaxAttempts
  <2>1. row[t].attempts \in Nat /\ MaxAttempts(t) \in Nat
    BY BudgetPositive DEF Inv, TypeOK, TaskPO
  <2> QED
    BY <1>3, <2>1 DEF Inv, BudgetRespected, Claimable
<1>7. LocksProtectClaims'
  <2>1. \A v \in Worker \ {w} : /\ tx'[v] = tx[v]
                                /\ \A t \in Held(v) : row'[t] = row[t]
    BY <1>2, <1>3 DEF Inv, TypeOK, ClaimTx, LocksProtectClaims, Held
  <2>2. tx'[w] = NoTx
    BY <1>2 DEF Inv, TypeOK
  <2> QED
    BY <2>1, <2>2 DEF Inv, LocksProtectClaims, Held, NoTx, Claimable, Expired,
                      MaxAttempts
<1>8. TxClock'
  BY <1>2 DEF Inv, TypeOK, TxClock, NoTx
<1>9. tx' \in [Worker -> ClaimTx]
  BY <1>2 DEF Inv, TypeOK, ClaimTx, NoTx
<1>10. CASE tx[w].picked = {}
  <2>1. /\ UNCHANGED <<claim, beat, jobDone, tokens, latest>>
        /\ pc' = [pc EXCEPT ![w] = "idle"]
    BY <1>10 DEF ClaimCommit
  <2>2. TypeOK'
    BY <1>2, <1>4, <1>9, <2>1 DEF Inv, TypeOK
  <2>3. CompletedByLatestClaim' /\ LeaseIsLatest'
    BY <1>2, <1>3, <1>10, <2>1 DEF Inv, CompletedByLatestClaim, LeaseIsLatest
  <2>4. TokensDistinct'
    BY <1>3, <1>10, <2>1, TokensKept
  <2>5. ClaimMatchesRow'
    BY <1>3, <1>10, <2>1, ClaimsKept
  <2>6. VerdictJustified'
    BY <1>2, <2>1 DEF Inv, TypeOK, VerdictJustified, RetryLeft
  <2> QED
    BY <1>5, <1>6, <1>7, <1>8, <2>2, <2>3, <2>4, <2>5, <2>6 DEF Inv
<1>11. CASE tx[w].picked # {}
  <2>1. PICK t \in tx[w].picked :
          claim' = [claim EXCEPT ![w] =
                      [id |-> {t}, leaseToken |-> k,
                       fencingToken |-> row[t].fencingToken + 1,
                       attempts |-> row[t].attempts + 1]]
    BY <1>11 DEF ClaimCommit, k
  <2>2. /\ tokens' = k
        /\ latest' = [u \in Task |-> IF u \in tx[w].picked THEN k
                                                           ELSE latest[u]]
        /\ pc' = [pc EXCEPT ![w] = "running"]
        /\ beat' = [beat EXCEPT ![w] = "waiting"]
        /\ jobDone' = [jobDone EXCEPT ![w] = FALSE]
    BY <1>11 DEF ClaimCommit, k
  <2>3. t \in Task /\ row[t] \in TaskPO
    BY <2>1 DEF Inv, TypeOK, ClaimTx
  <2>4. /\ claim' \in [Worker -> DurableClaim]
        /\ claim'[w].id = {t} /\ claim'[w].leaseToken = k
        /\ claim'[w].attempts = row[t].attempts + 1
        /\ \A v \in Worker \ {w} : claim'[v] = claim[v]
    BY <1>0, <2>1, <2>3 DEF Inv, TypeOK, DurableClaim, TaskPO
  <2>5. TypeOK'
    BY <1>0, <1>2, <1>4, <1>9, <2>2, <2>4 DEF Inv, TypeOK
  <2>6. CompletedByLatestClaim' /\ LeaseIsLatest'
    BY <1>2, <1>3, <2>2 DEF Inv, CompletedByLatestClaim, LeaseIsLatest, Held
  <2>7. TokensDistinct'
    <3>1. \A v \in Worker : claim[v].leaseToken \in Nat
      BY DEF Inv, TypeOK, DurableClaim
    <3>2. \A u \in Task : row[u].leaseToken \in Nat
      BY DEF Inv, TypeOK, TaskPO
    <3>3. \A u \in Task : row'[u].leaseToken <= tokens'
      BY <1>0, <1>3, <2>2, <3>2 DEF Inv, TokensDistinct
    <3> QED
      BY <1>0, <2>2, <2>4, <3>1, <3>3 DEF Inv, TokensDistinct
  <2>8. ClaimMatchesRow'
    <3> SUFFICES ASSUME NEW v \in Worker, NEW u \in Task, Owned(v, u)'
                 PROVE  row'[u].attempts = claim'[v].attempts
      BY DEF ClaimMatchesRow
    <3>1. CASE v = w
      BY <1>3, <2>1, <2>4, <3>1 DEF Owned, Held
    <3>2. CASE v # w
      <4>1. claim'[v] = claim[v] /\ claim[v].leaseToken # k
        BY <1>0, <2>4, <3>2 DEF Inv, TypeOK, DurableClaim, TokensDistinct
      <4>2. row'[u] = row[u]
        BY <1>3, <4>1 DEF Owned
      <4> QED
        BY <4>1, <4>2 DEF Inv, ClaimMatchesRow, Owned
    <3> QED
      BY <3>1, <3>2
  <2>9. VerdictJustified'
    <3>1. verdict[w] = "none" /\ pc'[w] = "running"
      BY <1>2, <2>2 DEF Inv, TypeOK, VerdictJustified
    <3>2. \A v \in Worker \ {w} : pc'[v] = pc[v]
      BY <2>2 DEF Inv, TypeOK
    <3> QED
      BY <1>2, <2>4, <3>1, <3>2 DEF Inv, VerdictJustified, RetryLeft
  <2> QED
    BY <1>5, <1>6, <1>7, <1>8, <2>5, <2>6, <2>7, <2>8, <2>9 DEF Inv
<1> QED
  BY <1>10, <1>11

-----------------------------------------------------------------------------
(* Heartbeats, handlers and the clock.                                     *)

(* Steps that touch neither the table nor claims nor verdicts keep the     *)
(* invariant: reading in a heartbeat, its failure, its exit, the clock.    *)
LEMMA QuietInv ==
  ASSUME Inv,
         \/ \E w \in Worker : \/ HeartbeatCheck(w)
                              \/ HeartbeatFails(w)
                              \/ HeartbeatExit(w)
         \/ Tick
  PROVE  Inv'
<1>1. /\ UNCHANGED <<row, pc, tx, claim, verdict, tokens, pushes, latest,
                     succeeded>>
      /\ clock' \in Nat /\ clock' >= clock
      /\ faults' \in Nat
      /\ beat' \in [Worker -> {"off", "waiting", "extending"}]
      /\ jobDone' \in [Worker -> BOOLEAN]
  <2>1. CASE \E w \in Worker : HeartbeatCheck(w)
    <3>1. PICK w \in Worker :
            /\ \/ beat' = [beat EXCEPT ![w] = "extending"] /\ jobDone' = jobDone
               \/ /\ beat' = [beat EXCEPT ![w] = "off"]
                  /\ jobDone' = [jobDone EXCEPT ![w] = TRUE]
            /\ UNCHANGED <<row, clock, pc, tx, claim, verdict, tokens, pushes,
                           faults, history>>
      BY <2>1, Zenon DEF HeartbeatCheck
    <3>2. beat' \in [Worker -> {"off", "waiting", "extending"}]
      BY <3>1 DEF Inv, TypeOK
    <3>3. jobDone' \in [Worker -> BOOLEAN]
      <4>1. CASE jobDone' = jobDone
        BY <4>1, Zenon DEF Inv, TypeOK
      <4>2. CASE jobDone' = [jobDone EXCEPT ![w] = TRUE]
        BY <4>2 DEF Inv, TypeOK
      <4> QED
        BY <3>1, <4>1, <4>2
    <3> QED
      BY <3>1, <3>2, <3>3 DEF Inv, TypeOK, history
  <2>2. CASE \E w \in Worker : HeartbeatFails(w)
    BY <2>2 DEF Inv, TypeOK, HeartbeatFails, history
  <2>3. CASE \E w \in Worker : HeartbeatExit(w)
    BY <2>3 DEF Inv, TypeOK, HeartbeatExit, history
  <2>4. CASE Tick
    BY <2>4 DEF Inv, TypeOK, Tick, history, workerVars
  <2> QED
    BY <2>1, <2>2, <2>3, <2>4
<1>2. TypeOK'
  BY <1>1 DEF Inv, TypeOK
<1>3. LocksProtectClaims'
  BY <1>1, LocksKept
<1>4. TxClock'
  BY <1>1 DEF Inv, TypeOK, ClaimTx, TxClock
<1>5. /\ LeaseMatchesStatus' /\ BudgetRespected' /\ CompletedByLatestClaim'
      /\ LeaseIsLatest'
  BY <1>1 DEF Inv, LeaseMatchesStatus, BudgetRespected, MaxAttempts,
              CompletedByLatestClaim, LeaseIsLatest
<1>6. TokensDistinct' /\ ClaimMatchesRow' /\ VerdictJustified'
  BY <1>1 DEF Inv, TokensDistinct, ClaimMatchesRow, Owned, VerdictJustified,
              RetryLeft
<1> QED
  BY <1>2, <1>3, <1>4, <1>5, <1>6 DEF Inv

(* Extending a lease keeps the invariant. *)
LEMMA HeartbeatExtendInv ==
  ASSUME Inv, NEW w \in Worker, HeartbeatExtend(w)
  PROVE  Inv'
<1> DEFINE e == clock + LeaseDuration
           OnlyExpiry ==
             /\ row' \in [Task -> TaskPO]
             /\ \A u \in Task :
                  \/ row'[u] = row[u]
                  \/ /\ Free(u)
                     /\ row[u].status = "processing"
                     /\ row'[u].status = "processing"
                     /\ row'[u].attempts = row[u].attempts
                     /\ row'[u].leaseToken = row[u].leaseToken
                     /\ row'[u].leaseExpiresAt # 0
                     /\ row'[u].fencingToken = row[u].fencingToken
<1>1. e \in Nat /\ e # 0
  BY ParametersAssumption DEF Inv, TypeOK, ParametersAssumption
<1>2. /\ UNCHANGED <<clock, pc, tx, claim, verdict, tokens, pushes, faults,
                     latest, succeeded>>
      /\ beat' \in [Worker -> {"off", "waiting", "extending"}]
      /\ jobDone' \in [Worker -> BOOLEAN]
  BY DEF Inv, TypeOK, HeartbeatExtend, history
<1>3. OnlyExpiry
  <2>1. CASE row' = row
    BY <2>1 DEF Inv, TypeOK
  <2>2. ASSUME NEW t \in claim[w].id, Owned(w, t), Free(t),
               row' = [row EXCEPT ![t] = Extended(row[t], e)]
        PROVE  OnlyExpiry
    <3> DEFINE r == Extended(row[t], e)
    <3>1. t \in Task /\ row[t] \in TaskPO
      BY DEF Inv, TypeOK, DurableClaim
    <3>2. /\ r \in TaskPO /\ r.status = row[t].status
          /\ r.attempts = row[t].attempts /\ r.leaseToken = row[t].leaseToken
          /\ r.leaseExpiresAt = e /\ r.fencingToken = row[t].fencingToken
      BY <1>1, <3>1, ExtendedFields
    <3> HIDE DEF r, e
    <3> QED
      BY <1>1, <2>2, <3>1, <3>2 DEF Inv, TypeOK, Owned, r
  <2> QED
    BY <2>1, <2>2 DEF HeartbeatExtend
<1> HIDE DEF e
<1>4. TypeOK'
  BY <1>2, <1>3 DEF Inv, TypeOK
<1>5. LeaseMatchesStatus'
  BY <1>3 DEF Inv, LeaseMatchesStatus
<1>6. BudgetRespected'
  BY <1>3 DEF Inv, BudgetRespected, MaxAttempts
<1>7. CompletedByLatestClaim' /\ LeaseIsLatest' /\ TxClock'
  BY <1>2, <1>3 DEF Inv, CompletedByLatestClaim, LeaseIsLatest, TxClock
<1>8. LocksProtectClaims'
  BY <1>2, <1>3, LocksKept
<1>9. TokensDistinct'
  BY <1>2, <1>3, TokensKept
<1>10. ClaimMatchesRow'
  BY <1>2, <1>3, ClaimsKept
<1>11. VerdictJustified'
  BY <1>2 DEF Inv, VerdictJustified, RetryLeft
<1> QED
  BY <1>4, <1>5, <1>6, <1>7, <1>8, <1>9, <1>10, <1>11 DEF Inv

(* The end of a handler keeps the invariant. *)
LEMMA HandlerReturnsInv ==
  ASSUME Inv, NEW w \in Worker, NEW ok \in BOOLEAN, NEW decoded \in BOOLEAN,
         HandlerReturns(w, ok, decoded)
  PROVE  Inv'
<1>1. /\ UNCHANGED <<row, clock, tx, claim, beat, tokens, pushes, faults,
                     latest>>
      /\ pc' = [pc EXCEPT ![w] = "acknowledge"]
      /\ jobDone' = [jobDone EXCEPT ![w] = TRUE]
      /\ succeeded \subseteq succeeded'
  BY DEF HandlerReturns
<1>2. succeeded' \in SUBSET Nat
  BY DEF HandlerReturns, Inv, TypeOK, DurableClaim
<1>3. /\ verdict' \in [Worker -> {"none", "completed", "pending", "failed"}]
      /\ \A v \in Worker \ {w} : verdict'[v] = verdict[v]
      /\ verdict'[w] # "none"
      /\ verdict'[w] = "pending" => RetryLeft(w)
      /\ verdict'[w] = "completed" => claim[w].leaseToken \in succeeded'
  BY DEF HandlerReturns, Inv, TypeOK
<1>4. TypeOK'
  BY <1>1, <1>2, <1>3 DEF Inv, TypeOK
<1>5. LocksProtectClaims'
  BY <1>1, LocksKept
<1>6. /\ LeaseMatchesStatus' /\ BudgetRespected' /\ CompletedByLatestClaim'
      /\ LeaseIsLatest' /\ TxClock'
  BY <1>1 DEF Inv, LeaseMatchesStatus, BudgetRespected, MaxAttempts,
              CompletedByLatestClaim, LeaseIsLatest, TxClock
<1>7. TokensDistinct' /\ ClaimMatchesRow'
  BY <1>1 DEF Inv, TokensDistinct, ClaimMatchesRow, Owned
<1>8. VerdictJustified'
  <2>1. \A v \in Worker : RetryLeft(v)' <=> RetryLeft(v)
    BY <1>1 DEF RetryLeft
  <2>2. pc'[w] = "acknowledge" /\ \A v \in Worker \ {w} : pc'[v] = pc[v]
    BY <1>1 DEF Inv, TypeOK
  <2> QED
    BY <1>1, <1>3, <2>1, <2>2 DEF Inv, VerdictJustified
<1> QED
  BY <1>4, <1>5, <1>6, <1>7, <1>8 DEF Inv

-----------------------------------------------------------------------------
(* Acknowledgements and crashes.                                           *)

(* A step in which a worker forgets its claim keeps the invariant when it  *)
(* leaves the table alone or releases the task it owns with a status it    *)
(* may give: with an attempt left if it puts the task back, after its own  *)
(* handler succeeded if it completes it.                                   *)
LEMMA ForgetInv ==
  ASSUME Inv, NEW w \in Worker, Forget(w),
         faults' \in Nat,
         UNCHANGED <<clock, tokens, pushes, latest, succeeded>>,
         \/ tx' = tx
         \/ tx' = [tx EXCEPT ![w] = NoTx] /\ row' = row,
         row' \in [Task -> TaskPO],
         \A u \in Task :
           \/ row'[u] = row[u]
           \/ /\ Free(u) /\ Owned(w, u)
              /\ \/ row'[u].status \in {"failed", "canceled"}
                 \/ row'[u].status = "pending" /\ RetryLeft(w)
                 \/ /\ row'[u].status = "completed"
                    /\ claim[w].leaseToken \in succeeded
              /\ row'[u].attempts = row[u].attempts
              /\ row'[u].leaseToken = 0 /\ row'[u].leaseExpiresAt = 0
  PROVE  Inv'
<1>1. tx' \in [Worker -> ClaimTx]
  <2>1. NoTx \in ClaimTx
    BY DEF ClaimTx, NoTx
  <2>2. tx \in [Worker -> ClaimTx]
    BY DEF Inv, TypeOK
  <2> QED
    BY <2>1, <2>2
<1>2. TypeOK'
  BY <1>1, ForgetKeeps DEF Inv, TypeOK
<1>3. LeaseMatchesStatus'
  BY DEF Inv, LeaseMatchesStatus
<1>4. BudgetRespected'
  <2> SUFFICES ASSUME NEW u \in Task, row'[u] # row[u]
               PROVE  /\ row'[u].attempts <= MaxAttempts(u)
                      /\ row'[u].status = "pending"
                           => row'[u].attempts < MaxAttempts(u)
    BY DEF Inv, BudgetRespected, MaxAttempts
  <2>1. row'[u].attempts = row[u].attempts /\ row[u].attempts <= MaxAttempts(u)
    BY DEF Inv, BudgetRespected
  <2>2. CASE row'[u].status = "pending"
    <3>1. /\ row[u].attempts = claim[w].attempts
          /\ claim[w].attempts < MaxRetries[u]
      BY <2>2 DEF Inv, ClaimMatchesRow, Owned, RetryLeft
    <3> QED
      BY <2>1, <3>1, BudgetPositive DEF Inv, TypeOK, TaskPO
  <2> QED
    BY <2>1, <2>2
<1>5. CompletedByLatestClaim'
  BY DEF Inv, CompletedByLatestClaim, LeaseIsLatest, Owned
<1>6. LeaseIsLatest'
  BY DEF Inv, LeaseIsLatest
<1>7. TxClock'
  BY DEF Inv, TypeOK, TxClock, NoTx
<1>8. LocksProtectClaims'
  <2>1. CASE tx' = tx
    BY <2>1, LocksKept
  <2>2. CASE tx' = [tx EXCEPT ![w] = NoTx] /\ row' = row
    <3>1. tx'[w] = NoTx /\ \A v \in Worker \ {w} : tx'[v] = tx[v]
      BY <2>2 DEF Inv, TypeOK
    <3> QED
      BY <2>2, <3>1 DEF Inv, LocksProtectClaims, Held, NoTx, Claimable,
                        Expired, MaxAttempts
  <2> QED
    BY <2>1, <2>2
<1>9. \A v \in Worker : claim'[v] \in {claim[v], NoClaim}
  BY ForgetKeeps
<1>10. TokensDistinct'
  BY <1>9, TokensKept
<1>11. ClaimMatchesRow'
  <2>1. \A u \in Task : row'[u] = row[u] \/ row'[u].status # "processing"
    OBVIOUS
  <2> QED
    BY <1>9, <2>1, ClaimsKept
<1>12. VerdictJustified'
  BY ForgetKeeps
<1> QED
  BY <1>2, <1>3, <1>4, <1>5, <1>6, <1>7, <1>8, <1>10, <1>11, <1>12 DEF Inv

(* Complete, Fail and Retry keep the invariant. *)
LEMMA AcknowledgeInv ==
  ASSUME Inv, NEW w \in Worker, NEW delay \in Delays, Acknowledge(w, delay)
  PROVE  Inv'
<1>1. PICK t \in claim[w].id :
        \/ /\ Owned(w, t) /\ ~row[t].cancelRequested /\ Free(t)
           /\ row' = [row EXCEPT ![t] =
                        Acknowledged(row[t], verdict[w], clock + delay)]
           /\ Forget(w)
        \/ /\ ~Owned(w, t) \/ row[t].cancelRequested
           /\ pc' = [pc EXCEPT ![w] = "finishCancellation"]
           /\ UNCHANGED <<row, claim, beat, jobDone, verdict>>
  BY DEF Acknowledge
<1>2. /\ UNCHANGED <<clock, tx, tokens, pushes, faults, latest, succeeded>>
      /\ pc[w] = "acknowledge"
  BY DEF Acknowledge, history
<1>3. t \in Task /\ row[t] \in TaskPO
  BY DEF Inv, TypeOK, DurableClaim
<1>4. CASE Forget(w) /\ Owned(w, t) /\ Free(t)
           /\ row' = [row EXCEPT ![t] =
                        Acknowledged(row[t], verdict[w], clock + delay)]
  <2> DEFINE at == clock + delay
             r == Acknowledged(row[t], verdict[w], at)
  <2>1. at \in Nat
    BY ParametersAssumption DEF Inv, TypeOK, ParametersAssumption
  <2>2. /\ verdict[w] \in {"completed", "pending", "failed"}
        /\ verdict[w] \in Status
    BY <1>2 DEF Inv, TypeOK, VerdictJustified, Status, Finished
  <2>3. /\ r \in TaskPO /\ r.status = verdict[w]
        /\ r.attempts = row[t].attempts
        /\ r.leaseToken = 0 /\ r.leaseExpiresAt = 0
    BY <1>3, <2>1, <2>2, AcknowledgedFields
  <2>4. row' = [row EXCEPT ![t] = r]
    BY <1>4
  <2> HIDE DEF r, at
  <2>5. row' \in [Task -> TaskPO]
    BY <2>3, <2>4 DEF Inv, TypeOK
  <2>6. row'[t] = r /\ \A u \in Task \ {t} : row'[u] = row[u]
    BY <1>3, <2>4 DEF Inv, TypeOK
  <2>7. /\ verdict[w] = "pending" => RetryLeft(w)
        /\ verdict[w] = "completed" => claim[w].leaseToken \in succeeded
    BY DEF Inv, VerdictJustified
  <2>8. faults' \in Nat
    BY <1>2 DEF Inv, TypeOK
  <2> QED
    BY <1>2, <1>3, <1>4, <2>2, <2>3, <2>5, <2>6, <2>7, <2>8, ForgetInv
<1>5. CASE /\ pc' = [pc EXCEPT ![w] = "finishCancellation"]
           /\ UNCHANGED <<row, claim, beat, jobDone, verdict>>
  <2>1. TypeOK'
    BY <1>2, <1>5 DEF Inv, TypeOK
  <2>2. LocksProtectClaims'
    BY <1>2, <1>5, LocksKept
  <2>3. /\ LeaseMatchesStatus' /\ BudgetRespected' /\ CompletedByLatestClaim'
        /\ LeaseIsLatest' /\ TxClock'
    BY <1>2, <1>5 DEF Inv, LeaseMatchesStatus, BudgetRespected, MaxAttempts,
                      CompletedByLatestClaim, LeaseIsLatest, TxClock
  <2>4. TokensDistinct' /\ ClaimMatchesRow'
    BY <1>2, <1>5 DEF Inv, TokensDistinct, ClaimMatchesRow, Owned
  <2>5. VerdictJustified'
    BY <1>2, <1>5 DEF Inv, TypeOK, VerdictJustified, RetryLeft
  <2> QED
    BY <2>1, <2>2, <2>3, <2>4, <2>5 DEF Inv
<1> QED
  BY <1>1, <1>4, <1>5

(* finishCancellation keeps the invariant. *)
LEMMA FinishCancellationInv ==
  ASSUME Inv, NEW w \in Worker, FinishCancellation(w)
  PROVE  Inv'
<1>1. PICK t \in claim[w].id :
        \/ /\ Owned(w, t) /\ Free(t)
           /\ row' = [row EXCEPT ![t] = Released(row[t], "canceled")]
        \/ row' = row
  BY DEF FinishCancellation
<1>2. /\ UNCHANGED <<clock, tx, tokens, pushes, faults, latest, succeeded>>
      /\ Forget(w)
  BY DEF FinishCancellation, history
<1>3. t \in Task /\ row[t] \in TaskPO /\ faults \in Nat
      /\ row \in [Task -> TaskPO]
  BY DEF Inv, TypeOK, DurableClaim
<1> DEFINE r == Released(row[t], "canceled")
<1>4. /\ r \in TaskPO /\ r.status = "canceled"
      /\ r.attempts = row[t].attempts
      /\ r.leaseToken = 0 /\ r.leaseExpiresAt = 0
  BY <1>3, ReleasedFields DEF Status, Finished
<1>5. CASE Owned(w, t) /\ Free(t) /\ row' = [row EXCEPT ![t] = r]
  <2> HIDE DEF r
  <2>1. row' \in [Task -> TaskPO]
    BY <1>3, <1>4, <1>5
  <2>2. row'[t] = r /\ \A u \in Task \ {t} : row'[u] = row[u]
    BY <1>3, <1>5
  <2> QED
    BY <1>2, <1>3, <1>4, <1>5, <2>1, <2>2, ForgetInv
<1>6. CASE row' = row
  BY <1>2, <1>3, <1>6, ForgetInv
<1> QED
  BY <1>1, <1>5, <1>6

(* A crash or an error keeps the invariant. *)
LEMMA FaultInv ==
  ASSUME Inv, NEW w \in Worker, Fault(w)
  PROVE  Inv'
<1>1. /\ UNCHANGED <<clock, tokens, pushes, latest, succeeded>>
      /\ row' = row
      /\ tx' = [tx EXCEPT ![w] = NoTx]
      /\ Forget(w)
  BY DEF Fault, history
<1>2. faults' \in Nat /\ row' \in [Task -> TaskPO]
  BY <1>1 DEF Fault, Inv, TypeOK
<1> QED
  BY <1>1, <1>2, ForgetInv

-----------------------------------------------------------------------------
(* The theorems.                                                           *)

(* The invariant holds of the empty table and idle workers. *)
LEMMA InvInit == Init => Inv
<1> SUFFICES ASSUME Init PROVE Inv
  OBVIOUS
<1> USE NoRowFields DEF Init
<1>1. TypeOK
  BY DEF TypeOK, ClaimTx, NoTx, DurableClaim, NoClaim
<1>2. LeaseMatchesStatus /\ CompletedByLatestClaim /\ LeaseIsLatest
  BY DEF LeaseMatchesStatus, CompletedByLatestClaim, LeaseIsLatest
<1>3. BudgetRespected
  <2> SUFFICES ASSUME NEW t \in Task
               PROVE  /\ row[t].attempts <= MaxAttempts(t)
                      /\ row[t].status = "pending"
                           => row[t].attempts < MaxAttempts(t)
    BY DEF BudgetRespected
  <2>1. row[t].attempts = 0
    OBVIOUS
  <2>2. MaxAttempts(t) \in Nat /\ 0 < MaxAttempts(t)
    BY BudgetPositive
  <2> HIDE DEF Init
  <2> QED
    BY <2>1, <2>2
<1>4. LocksProtectClaims /\ TxClock
  BY DEF LocksProtectClaims, Held, TxClock, NoTx
<1>5. TokensDistinct /\ ClaimMatchesRow /\ VerdictJustified
  BY DEF TokensDistinct, ClaimMatchesRow, Owned, VerdictJustified, NoClaim
<1> QED
  BY <1>1, <1>2, <1>3, <1>4, <1>5 DEF Inv

(* Every step keeps the invariant. *)
LEMMA InvNext == Inv /\ [Next]_vars => Inv'
<1> SUFFICES ASSUME Inv, [Next]_vars PROVE Inv'
  OBVIOUS
<1>1. CASE ClientStep
  BY <1>1, PushTaskInv, CancelInv, RetryFailedInv, PruneClearInv
     DEF ClientStep
<1>2. ASSUME NEW w \in Worker, ClaimStep(w) PROVE Inv'
  BY <1>2, ClaimLocksInv, ClaimCommitInv DEF ClaimStep
<1>3. ASSUME NEW w \in Worker, HeartbeatStep(w) PROVE Inv'
  BY <1>3, QuietInv, HeartbeatExtendInv DEF HeartbeatStep
<1>4. ASSUME NEW w \in Worker, JobStep(w) PROVE Inv'
  BY <1>4, HandlerReturnsInv, QuietInv, AcknowledgeInv, FinishCancellationInv
     DEF JobStep
<1>5. ASSUME NEW w \in Worker, Fault(w) PROVE Inv'
  BY <1>5, FaultInv
<1>6. CASE Tick
  BY <1>6, QuietInv
<1>7. CASE UNCHANGED vars
  BY <1>7 DEF vars, Inv, TypeOK, LeaseMatchesStatus, BudgetRespected,
              MaxAttempts, CompletedByLatestClaim, LocksProtectClaims, Held,
              Claimable, Expired, TokensDistinct, ClaimMatchesRow, Owned,
              VerdictJustified, RetryLeft, LeaseIsLatest, TxClock
<1> QED
  BY <1>1, <1>2, <1>3, <1>4, <1>5, <1>6, <1>7 DEF Next

(* The inductive invariant holds in every reachable state. *)
THEOREM Invariance == Spec => []Inv
<1>1. Init => Inv
  BY InvInit
<1>2. Inv /\ [Next]_vars => Inv'
  BY InvNext
<1> QED
  BY <1>1, <1>2, PTL DEF Spec

(* The state always has the types of the code's. *)
THEOREM TypeCorrect == Spec => []TypeOK
<1>1. Inv => TypeOK
  BY DEF Inv
<1> QED
  BY <1>1, Invariance, PTL

(* Nobody but a worker's task carries a lease. *)
THEOREM LeasesCorrect == Spec => []LeaseMatchesStatus
<1>1. Inv => LeaseMatchesStatus
  BY DEF Inv
<1> QED
  BY <1>1, Invariance, PTL

(* No attempt is made beyond the budget and no waiting task lacks one. *)
THEOREM BudgetsRespected == Spec => []BudgetRespected
<1>1. Inv => BudgetRespected
  BY DEF Inv
<1> QED
  BY <1>1, Invariance, PTL

(* A task has at most one owner, for any number of workers. *)
THEOREM Ownership == Spec => []OneOwner
<1>1. Inv => OneOwner
  BY DEF Inv, TokensDistinct, OneOwner, Owned
<1> QED
  BY <1>1, Invariance, PTL

(* Only its latest claim completes a task. *)
THEOREM NoStaleCompletion == Spec => []CompletedByLatestClaim
<1>1. Inv => CompletedByLatestClaim
  BY DEF Inv
<1> QED
  BY <1>1, Invariance, PTL

(* Concurrent Claim transactions do not interfere. *)
THEOREM ClaimsIsolated == Spec => []LocksProtectClaims
<1>1. Inv => LocksProtectClaims
  BY DEF Inv
<1> QED
  BY <1>1, Invariance, PTL

-----------------------------------------------------------------------------
(* WorkflowTasks implements TaskLifecycle, and what follows from it.       *)
(* A row of the table reads as an entry of the ledger. *)
LEMMA AbstractType ==
  ASSUME NEW r \in TaskPO
  PROVE  Abstract(r) \in Lifecycle!Entry
BY DEF Abstract, TaskPO, Status, Finished, Lifecycle!Entry, Lifecycle!State

-----------------------------------------------------------------------------
(* Every statement that writes a row moves its task.                       *)

(* An inserted row is a submitted task, a deleted one is gone. *)
LEMMA InsertDeleteMove ==
  ASSUME NEW t \in Task, NEW r \in TaskPO
  PROVE  /\ Lifecycle!Move(t, Abstract(r), Abstract(NoRow))
         /\ \A at \in Nat : r.status = "absent"
              => Lifecycle!Move(t, Abstract(r), Abstract(Inserted(at)))
<1>1. Abstract(NoRow) = Lifecycle!NoEntry
  BY NoRowFields DEF Abstract, Lifecycle!At, Lifecycle!NoEntry
<1>2. ASSUME NEW at \in Nat, r.status = "absent"
      PROVE  Lifecycle!Submit(Abstract(r), Abstract(Inserted(at)))
  <2> DEFINE q == Inserted(at)
  <2>1. /\ q.status = "pending" /\ q.attempts = 0 /\ q.fencingToken = 0
        /\ q.cancelRequested = FALSE
    BY InsertedFields
  <2> HIDE DEF q
  <2>2. Lifecycle!Submit(Abstract(r), Abstract(q))
    BY <1>2, <2>1 DEF Abstract, Lifecycle!At, Lifecycle!Submit, Lifecycle!NoEntry
  <2> QED
    BY <2>2 DEF q
<1> QED
  BY <1>1, <1>2 DEF Lifecycle!Move, Lifecycle!Remove

(* Cancel and RetryFailed. *)
LEMMA OperatorMove ==
  ASSUME NEW t \in Task, NEW r \in TaskPO, NEW now \in Nat
  PROVE  /\ r.status \in {"pending", "processing"}
              => Lifecycle!Move(t, Abstract(r), Abstract(AskedToCancel(r)))
         /\ r.status = "failed"
              => Lifecycle!Move(t, Abstract(r), Abstract(Reopened(r, now)))
<1>1. ASSUME r.status \in {"pending", "processing"}
      PROVE  Lifecycle!RequestCancel(Abstract(r), Abstract(AskedToCancel(r)))
  <2> DEFINE q == AskedToCancel(r)
  <2>1. /\ q.status = IF r.status = "pending" THEN "canceled" ELSE r.status
        /\ q.attempts = r.attempts /\ q.fencingToken = r.fencingToken
        /\ q.cancelRequested = TRUE
    BY AskedToCancelFields DEF TaskPO
  <2> HIDE DEF q
  <2>2. Lifecycle!RequestCancel(Abstract(r), Abstract(q))
    BY <1>1, <2>1 DEF Abstract, Lifecycle!At, Lifecycle!RequestCancel
  <2> QED
    BY <2>2 DEF q
<1>2. ASSUME r.status = "failed"
      PROVE  Lifecycle!Reopen(Abstract(r), Abstract(Reopened(r, now)))
  <2> DEFINE q == Reopened(r, now)
  <2>1. /\ q.status = "pending" /\ q.attempts = 0
        /\ q.fencingToken = r.fencingToken
        /\ q.cancelRequested = r.cancelRequested
    BY ReopenedFields
  <2> HIDE DEF q
  <2>2. Lifecycle!Reopen(Abstract(r), Abstract(q))
    BY <1>2, <2>1 DEF Abstract, Lifecycle!At, Lifecycle!Reopen
  <2> QED
    BY <2>2 DEF q
<1> QED
  BY <1>1, <1>2 DEF Lifecycle!Move

(* Complete, Fail, Retry and finishCancellation. *)
LEMMA AcknowledgeMove ==
  ASSUME NEW t \in Task, NEW r \in TaskPO, NEW at \in Nat,
         r.status = "processing",
         NEW s \in {"completed", "failed", "pending", "canceled"},
         s \in {"completed", "pending"} => ~r.cancelRequested,
         s = "canceled" => r.cancelRequested,
         s = "pending" => r.attempts < MaxAttempts(t)
  PROVE  Lifecycle!Move(t, Abstract(r), Abstract(Acknowledged(r, s, at)))
<1> DEFINE q == Acknowledged(r, s, at)
<1>1. s \in Status
  BY DEF Status, Finished
<1>2. /\ q.status = s /\ q.attempts = r.attempts
      /\ q.fencingToken = r.fencingToken
      /\ q.cancelRequested = r.cancelRequested
  BY <1>1, AcknowledgedFields
<1> HIDE DEF q
<1>3. CASE s = "pending"
  <2>1. Lifecycle!Requeue(t, Abstract(r), Abstract(q))
    BY <1>2, <1>3 DEF Abstract, Lifecycle!At, Lifecycle!Requeue
  <2> QED
    BY <2>1 DEF Lifecycle!Move, q
<1>4. CASE s # "pending"
  <2>1. Lifecycle!Settle(Abstract(r), Abstract(q))
    BY <1>2, <1>4 DEF Abstract, Lifecycle!At, Lifecycle!Settle
  <2> QED
    BY <2>1 DEF Lifecycle!Move, q
<1> QED
  BY <1>3, <1>4

(* Committing a Claim: recovered tasks settle, the picked one starts. *)
LEMMA CommitMove ==
  ASSUME Inv, NEW w \in Worker, NEW t \in Task, NEW k \in Nat
  PROVE  LET r == Committed(t, tx[w], k) IN
         \/ Abstract(r) = Abstract(row[t])
         \/ Lifecycle!Move(t, Abstract(row[t]), Abstract(r))
<1> DEFINE q == row[t]
           r == Committed(t, tx[w], k)
<1>1. q \in TaskPO
  BY DEF Inv, TypeOK
<1>2. CASE t \notin Held(w)
  BY <1>2, CommittedFields DEF Held
<1>3. CASE t \in tx[w].canceled
  <2>1. r = Released(q, "canceled")
    BY <1>3 DEF Committed
  <2>2. q.status = "processing" /\ q.cancelRequested
    BY <1>3 DEF Inv, LocksProtectClaims, Expired
  <2> HIDE DEF q, r
  <2>3. /\ r.status = "canceled" /\ r.attempts = q.attempts
        /\ r.fencingToken = q.fencingToken
        /\ r.cancelRequested = q.cancelRequested
    BY <1>1, <2>1, ReleasedFields DEF Status, Finished
  <2>4. Lifecycle!Settle(Abstract(q), Abstract(r))
    BY <2>2, <2>3 DEF Abstract, Lifecycle!At, Lifecycle!Settle
  <2> QED
    BY <2>4 DEF Lifecycle!Move, q, r
<1>4. CASE t \in tx[w].exhausted \ tx[w].canceled
  <2>1. r = Released(q, "failed")
    BY <1>4 DEF Committed
  <2>2. q.status = "processing"
    BY <1>4 DEF Inv, LocksProtectClaims, Expired
  <2> HIDE DEF q, r
  <2>3. /\ r.status = "failed" /\ r.attempts = q.attempts
        /\ r.fencingToken = q.fencingToken
        /\ r.cancelRequested = q.cancelRequested
    BY <1>1, <2>1, ReleasedFields DEF Status, Finished
  <2>4. Lifecycle!Settle(Abstract(q), Abstract(r))
    BY <2>2, <2>3 DEF Abstract, Lifecycle!At, Lifecycle!Settle
  <2> QED
    BY <2>4 DEF Lifecycle!Move, q, r
<1>5. CASE t \in tx[w].picked \ (tx[w].canceled \cup tx[w].exhausted)
  <2> DEFINE e == tx[w].now + LeaseDuration
  <2>1. r = Leased(q, k, e)
    BY <1>5 DEF Committed
  <2>2. /\ q.status \in {"pending", "processing"}
        /\ ~q.cancelRequested
        /\ q.attempts < MaxAttempts(t)
    BY <1>5 DEF Inv, LocksProtectClaims, Claimable, Expired
  <2>3. e \in Nat
    BY ParametersAssumption DEF Inv, TypeOK, ClaimTx, ParametersAssumption
  <2> HIDE DEF q, r, e
  <2>4. /\ r.status = "processing" /\ r.attempts = q.attempts + 1
        /\ r.fencingToken = q.fencingToken + 1
        /\ r.cancelRequested = q.cancelRequested
    <3>1. /\ Leased(q, k, e).status = "processing"
          /\ Leased(q, k, e).attempts = q.attempts + 1
          /\ Leased(q, k, e).fencingToken = q.fencingToken + 1
          /\ Leased(q, k, e).cancelRequested = q.cancelRequested
      BY <1>1, <2>3, LeasedFields
    <3> QED
      BY <2>1, <3>1
  <2>5. q.cancelRequested = FALSE
    BY <1>1, <2>2 DEF TaskPO
  <2>6. Lifecycle!Start(t, Abstract(q), Abstract(r))
    <3> DEFINE a == Abstract(q)
    <3>1. /\ a.state = q.status /\ a.attempts = q.attempts
          /\ a.fence = q.fencingToken /\ a.cancel = q.cancelRequested
      BY DEF Abstract
    <3>2. Abstract(r) =
            Lifecycle!At("processing", q.attempts + 1, q.fencingToken + 1, FALSE)
      BY <2>4, <2>5 DEF Abstract, Lifecycle!At
    <3> HIDE DEF a
    <3>3. Lifecycle!Start(t, a, Abstract(r))
      BY <2>2, <3>1, <3>2 DEF Lifecycle!Start
    <3> QED
      BY <3>3 DEF a
  <2> QED
    BY <2>6 DEF Lifecycle!Move, q, r
<1> QED
  BY <1>2, <1>3, <1>4, <1>5 DEF Held

-----------------------------------------------------------------------------
(* Every step moves every task, or leaves it where it is.                  *)
LEMMA StepMove ==
  ASSUME Inv, [Next]_vars, NEW t \in Task
  PROVE  \/ Abstract(row'[t]) = Abstract(row[t])
         \/ Lifecycle!Move(t, Abstract(row[t]), Abstract(row'[t]))
<1>0. row[t] \in TaskPO /\ row \in [Task -> TaskPO] /\ clock \in Nat
  BY DEF Inv, TypeOK
<1>1. CASE UNCHANGED row
  BY <1>1
<1>2. ASSUME NEW u \in Task, NEW delay \in Delays, PushTask(u, delay)
      PROVE  \/ Abstract(row'[t]) = Abstract(row[t])
             \/ Lifecycle!Move(t, Abstract(row[t]), Abstract(row'[t]))
  <2>1. clock + delay \in Nat
    BY ParametersAssumption DEF Inv, TypeOK, ParametersAssumption
  <2>2. /\ row[u].status = "absent"
        /\ row' = [row EXCEPT ![u] = Inserted(clock + delay)]
    BY <1>2 DEF PushTask
  <2>3. CASE t = u
    BY <1>0, <2>1, <2>2, <2>3, InsertDeleteMove
  <2>4. CASE t # u
    BY <1>0, <2>2, <2>4
  <2> QED
    BY <2>3, <2>4
<1>3. ASSUME NEW u \in Task, Cancel(u) \/ RetryFailed(u)
      PROVE  \/ Abstract(row'[t]) = Abstract(row[t])
             \/ Lifecycle!Move(t, Abstract(row[t]), Abstract(row'[t]))
  <2>1. \/ /\ row[u].status \in {"pending", "processing"}
           /\ row' = [row EXCEPT ![u] = AskedToCancel(row[u])]
        \/ /\ row[u].status = "failed"
           /\ row' = [row EXCEPT ![u] = Reopened(row[u], clock)]
    BY <1>3 DEF Cancel, RetryFailed
  <2>2. CASE t = u
    BY <1>0, <2>1, <2>2, OperatorMove
  <2>3. CASE t # u
    BY <1>0, <2>1, <2>3
  <2> QED
    BY <2>2, <2>3
<1>4. CASE PruneFinished \/ Clear
  <2>1. row'[t] = NoRow \/ row'[t] = row[t]
    BY <1>4 DEF PruneFinished, Clear
  <2> QED
    BY <1>0, <2>1, InsertDeleteMove
<1>5. ASSUME NEW w \in Worker, ClaimCommit(w)
      PROVE  \/ Abstract(row'[t]) = Abstract(row[t])
             \/ Lifecycle!Move(t, Abstract(row[t]), Abstract(row'[t]))
  <2>1. row'[t] = Committed(t, tx[w], tokens + 1)
    BY <1>5 DEF ClaimCommit
  <2>2. tokens + 1 \in Nat
    BY DEF Inv, TypeOK
  <2> QED
    BY <2>1, <2>2, CommitMove
<1>6. ASSUME NEW w \in Worker, HeartbeatExtend(w)
      PROVE  Abstract(row'[t]) = Abstract(row[t])
  <2> DEFINE e == clock + LeaseDuration
  <2>1. e \in Nat
    BY ParametersAssumption DEF Inv, TypeOK, ParametersAssumption
  <2>2. \/ row' = row
        \/ \E u \in Task : row' = [row EXCEPT ![u] = Extended(row[u], e)]
    BY <1>6 DEF HeartbeatExtend, Inv, TypeOK, DurableClaim
  <2> HIDE DEF e
  <2>3. row'[t] = row[t] \/ row'[t] = Extended(row[t], e)
    BY <1>0, <2>2
  <2> QED
    BY <1>0, <2>1, <2>3, ExtendedFields DEF Abstract
<1>7. ASSUME NEW w \in Worker, NEW delay \in Delays, Acknowledge(w, delay)
      PROVE  \/ Abstract(row'[t]) = Abstract(row[t])
             \/ Lifecycle!Move(t, Abstract(row[t]), Abstract(row'[t]))
  <2> DEFINE at == clock + delay
  <2>1. at \in Nat
    BY ParametersAssumption DEF Inv, TypeOK, ParametersAssumption
  <2>2. \/ row' = row
        \/ \E u \in Task :
             /\ Owned(w, u) /\ ~row[u].cancelRequested
             /\ row' = [row EXCEPT ![u] = Acknowledged(row[u], verdict[w], at)]
    BY <1>7 DEF Acknowledge, Inv, TypeOK, DurableClaim
  <2> HIDE DEF at
  <2>3. \/ row'[t] = row[t]
        \/ /\ Owned(w, t) /\ ~row[t].cancelRequested
           /\ row'[t] = Acknowledged(row[t], verdict[w], at)
    BY <1>0, <2>2
  <2>4. verdict[w] \in {"completed", "failed", "pending"}
    BY <1>7 DEF Acknowledge, Inv, TypeOK, VerdictJustified
  <2>5. ASSUME Owned(w, t), verdict[w] = "pending"
        PROVE  row[t].attempts < MaxAttempts(t)
    <3>1. row[t].attempts = claim[w].attempts /\ row[t].attempts < MaxRetries[t]
      BY <2>5 DEF Inv, ClaimMatchesRow, VerdictJustified, RetryLeft, Owned
    <3> QED
      BY <1>0, <3>1, BudgetPositive DEF TaskPO
  <2>6. Owned(w, t) => row[t].status = "processing"
    BY DEF Owned
  <2> QED
    BY <1>0, <2>1, <2>3, <2>4, <2>5, <2>6, AcknowledgeMove
<1>8. ASSUME NEW w \in Worker, FinishCancellation(w)
      PROVE  \/ Abstract(row'[t]) = Abstract(row[t])
             \/ Lifecycle!Move(t, Abstract(row[t]), Abstract(row'[t]))
  <2>1. \/ row' = row
        \/ \E u \in Task :
             /\ row[u].status = "processing" /\ row[u].cancelRequested
             /\ row' = [row EXCEPT ![u] = Released(row[u], "canceled")]
    BY <1>8 DEF FinishCancellation, Owned, Inv, TypeOK, DurableClaim
  <2>2. \/ row'[t] = row[t]
        \/ /\ row[t].status = "processing" /\ row[t].cancelRequested
           /\ row'[t] = Acknowledged(row[t], "canceled", clock)
    BY <1>0, <2>1 DEF Acknowledged
  <2> QED
    BY <1>0, <2>2, AcknowledgeMove
<1> QED
  BY <1>1, <1>2, <1>3, <1>4, <1>5, <1>6, <1>7, <1>8
     DEF Next, ClientStep, ClaimStep, HeartbeatStep, JobStep, vars,
         ClaimRecoverCanceled, ClaimRecoverExhausted, ClaimSelect,
         HeartbeatCheck, HeartbeatFails, HeartbeatExit, HandlerReturns, Fault,
         Tick

(* A step of the driver is a step of the lifecycle or a stuttering one. *)
LEMMA RefinementStep == Inv /\ Inv' /\ [Next]_vars => [Lifecycle!Next]_Ledger
<1> SUFFICES ASSUME Inv, Inv', [Next]_vars PROVE [Lifecycle!Next]_Ledger
  OBVIOUS
<1>1. Ledger' \in [Task -> Lifecycle!Entry]
  BY AbstractType DEF Inv, TypeOK, Ledger
<1>2. \A t \in Task : /\ Ledger[t] = Abstract(row[t])
                      /\ Ledger'[t] = Abstract(row'[t])
  BY DEF Ledger, Abstract
<1>3. \A t \in Task : \/ Ledger'[t] = Ledger[t]
                      \/ Lifecycle!Move(t, Ledger[t], Ledger'[t])
  BY <1>2, StepMove
<1> QED
  BY <1>1, <1>3 DEF Lifecycle!Next

(* The durable driver and its workers implement the task lifecycle. *)
THEOREM Refinement == Spec => ImplementsLifecycle
<1>1. Init => Lifecycle!Init
  <2> SUFFICES ASSUME Init PROVE Lifecycle!Init
    OBVIOUS
  <2>1. Abstract(NoRow) = Lifecycle!NoEntry
    BY NoRowFields DEF Abstract, Lifecycle!At, Lifecycle!NoEntry
  <2> QED
    BY <2>1 DEF Init, Ledger, Lifecycle!Init
<1>2. Inv /\ Inv' /\ [Next]_vars => [Lifecycle!Next]_Ledger
  BY RefinementStep
<1> QED
  BY <1>1, <1>2, Invariance, PTL DEF Spec, ImplementsLifecycle, Lifecycle!Spec

-----------------------------------------------------------------------------
(* Action properties.                                                      *)

(* A requested cancellation is never undone by a claim or a late result.   *)
THEOREM CancellationRespected == Spec => CancellationSticks
<1> DEFINE Sticks ==
      \A t \in Task :
        (row[t].status = "processing" /\ row[t].cancelRequested)
        => /\ row'[t].status \notin {"completed", "pending"}
           /\ row'[t].status = "processing"
                => row'[t].fencingToken = row[t].fencingToken
<1>1. Inv /\ [Next]_vars => Sticks
  <2> SUFFICES ASSUME Inv, [Next]_vars, NEW t \in Task,
                      row[t].status = "processing", row[t].cancelRequested
               PROVE  /\ row'[t].status \notin {"completed", "pending"}
                      /\ row'[t].status = "processing"
                           => row'[t].fencingToken = row[t].fencingToken
    OBVIOUS
  <2> DEFINE a == Abstract(row[t])
             b == Abstract(row'[t])
  <2>1. a.state = "processing" /\ a.cancel /\ a.fence = row[t].fencingToken
    BY DEF Abstract
  <2>2. b.state = row'[t].status /\ b.fence = row'[t].fencingToken
    BY DEF Abstract
  <2>3. b = a \/ Lifecycle!Move(t, a, b)
    BY StepMove
  <2> HIDE DEF a, b
  <2>4. /\ b.state \notin {"completed", "pending"}
        /\ b.state = "processing" => b.fence = a.fence
    BY <2>1, <2>3
       DEF Lifecycle!Move, Lifecycle!Submit, Lifecycle!Start,
           Lifecycle!Requeue, Lifecycle!Settle, Lifecycle!RequestCancel,
           Lifecycle!Reopen, Lifecycle!Remove, Lifecycle!NoEntry, Lifecycle!At
  <2> QED
    BY <2>1, <2>2, <2>4
<1>2. Inv /\ [Next]_vars => [Sticks]_vars
  BY <1>1
<1> QED
  BY <1>2, Invariance, PTL DEF Spec, CancellationSticks

(* A lease ahead of the clock is never taken over. *)
THEOREM LeasesHonoured == Spec => TakeoverOnlyAfterExpiry
<1> DEFINE Honoured ==
      \A t \in Task :
        (/\ row[t].status = "processing" /\ row'[t].status = "processing"
         /\ row[t].leaseToken # row'[t].leaseToken)
        => row[t].leaseExpiresAt <= clock
<1>1. Inv /\ [Next]_vars => Honoured
  <2> SUFFICES ASSUME Inv, [Next]_vars, NEW t \in Task,
                      row[t].status = "processing",
                      row'[t].status = "processing",
                      row[t].leaseToken # row'[t].leaseToken
               PROVE  row[t].leaseExpiresAt <= clock
    OBVIOUS
  <2>0. row \in [Task -> TaskPO] /\ row[t] \in TaskPO /\ clock \in Nat
    BY DEF Inv, TypeOK
  <2>1. ASSUME NEW w \in Worker, ClaimCommit(w)
        PROVE  row[t].leaseExpiresAt <= clock
    <3>1. row'[t] = Committed(t, tx[w], tokens + 1) /\ tokens + 1 \in Nat
      BY <2>1 DEF ClaimCommit, Inv, TypeOK
    <3>2. t \in tx[w].picked /\ Claimable(t, tx[w].now)
      BY <3>1, CommittedFields
    <3>3. row[t].leaseExpiresAt <= tx[w].now
      BY <3>2 DEF Claimable, Expired
    <3>4. tx[w].now <= clock /\ tx[w].now \in Nat
      BY DEF Inv, TypeOK, ClaimTx, TxClock
    <3> QED
      BY <2>0, <3>3, <3>4 DEF TaskPO
  <2>2. ASSUME NEW u \in Task, NEW delay \in Delays, PushTask(u, delay)
        PROVE  FALSE
    <3>1. clock + delay \in Nat
      BY ParametersAssumption DEF Inv, TypeOK, ParametersAssumption
    <3>2. row' = [row EXCEPT ![u] = Inserted(clock + delay)]
      BY <2>2 DEF PushTask
    <3> QED
      BY <2>0, <3>1, <3>2, InsertedFields
  <2>3. ASSUME NEW u \in Task, Cancel(u) \/ RetryFailed(u) PROVE FALSE
    <3>1. \/ row' = [row EXCEPT ![u] = AskedToCancel(row[u])]
          \/ row' = [row EXCEPT ![u] = Reopened(row[u], clock)]
      BY <2>3 DEF Cancel, RetryFailed
    <3> QED
      BY <2>0, <3>1, AskedToCancelFields, ReopenedFields
  <2>4. ASSUME PruneFinished \/ Clear PROVE FALSE
    <3>1. row'[t] = NoRow \/ row'[t] = row[t]
      BY <2>4 DEF PruneFinished, Clear
    <3> QED
      BY <3>1, NoRowFields
  <2>5. ASSUME NEW w \in Worker, HeartbeatExtend(w) PROVE FALSE
    <3> DEFINE e == clock + LeaseDuration
    <3>1. e \in Nat
      BY ParametersAssumption DEF Inv, TypeOK, ParametersAssumption
    <3>2. \/ row' = row
          \/ \E u \in Task : row' = [row EXCEPT ![u] = Extended(row[u], e)]
      BY <2>5 DEF HeartbeatExtend, Inv, TypeOK, DurableClaim
    <3> HIDE DEF e
    <3> QED
      BY <2>0, <3>1, <3>2, ExtendedFields
  <2>6. ASSUME NEW w \in Worker, NEW delay \in Delays, Acknowledge(w, delay)
        PROVE  FALSE
    <3> DEFINE at == clock + delay
    <3>1. at \in Nat
      BY ParametersAssumption DEF Inv, TypeOK, ParametersAssumption
    <3>2. \/ row' = row
          \/ \E u \in Task :
               row' = [row EXCEPT ![u] = Acknowledged(row[u], verdict[w], at)]
      BY <2>6 DEF Acknowledge, Inv, TypeOK, DurableClaim
    <3>3. verdict[w] \in Status /\ verdict[w] # "processing"
      BY <2>6 DEF Acknowledge, Inv, TypeOK, VerdictJustified, Status, Finished
    <3> HIDE DEF at
    <3> QED
      BY <2>0, <3>1, <3>2, <3>3, AcknowledgedFields
  <2>7. ASSUME NEW w \in Worker, FinishCancellation(w) PROVE FALSE
    <3>1. \/ row' = row
          \/ \E u \in Task :
               row' = [row EXCEPT ![u] = Released(row[u], "canceled")]
      BY <2>7 DEF FinishCancellation, Inv, TypeOK, DurableClaim
    <3> QED
      BY <2>0, <3>1, ReleasedFields DEF Status, Finished
  <2>8. CASE UNCHANGED row
    BY <2>8
  <2> QED
    BY <2>1, <2>2, <2>3, <2>4, <2>5, <2>6, <2>7, <2>8
       DEF Next, ClientStep, ClaimStep, HeartbeatStep, JobStep, vars,
           ClaimRecoverCanceled, ClaimRecoverExhausted, ClaimSelect,
           HeartbeatCheck, HeartbeatFails, HeartbeatExit, HandlerReturns,
           Fault, Tick
<1>2. Inv /\ [Next]_vars => [Honoured]_vars
  BY <1>1
<1> QED
  BY <1>2, Invariance, PTL DEF Spec, TakeoverOnlyAfterExpiry
=============================================================================
