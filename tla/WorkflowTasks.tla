---------------------------- MODULE WorkflowTasks ----------------------------
(***************************************************************************)
(* The durable task ledger: the rows of workflow_tasks, the PostgresDriver *)
(* that changes them and the workers that claim, run and acknowledge tasks *)
(* (api/internal/capabilities/workflow/postgres.go, postgres_operations.go *)
(* and the durable half of worker.go).                                     *)
(*                                                                         *)
(* One action is one SQL statement, because the driver runs them under     *)
(* READ COMMITTED and other replicas get in between.  Claim is the only    *)
(* transaction of several statements: its first two UPDATEs and its SELECT *)
(* ... FOR UPDATE lock rows, nobody else writes a locked row, and nothing  *)
(* of it is visible before it commits.  A worker is one goroutine of       *)
(* Worker.work together with the heartbeat goroutine of its current job.   *)
(* All replicas read the same clock.                                       *)
(***************************************************************************)
EXTENDS Naturals

CONSTANTS
  Task,           \* task ids
  Worker,         \* worker goroutines, of any number of replicas
  MaxRetries,     \* JobPayload.MaxRetries of each task
  LeaseDuration,  \* WorkerConfig.LeaseDuration
  Delays,         \* delays of PushDelayed and of a retry
  MaxClock,       \* bound: the clock stops here
  MaxPushes,      \* bound: rows inserted plus failed tasks retried
  MaxFaults       \* bound: crashes of workers and failed statements

ASSUME ParametersAssumption ==
  /\ MaxRetries \in [Task -> Nat]
  /\ LeaseDuration \in Nat \ {0}
  /\ Delays \subseteq Nat
  /\ MaxClock \in Nat
  /\ MaxPushes \in Nat
  /\ MaxFaults \in Nat

VARIABLES
  row,      \* the table: row[t].status = "absent" when it holds no row t
  clock,    \* time.Now()
  pc,       \* the statement each worker is about to run
  tx,       \* the Claim transaction of each worker, and the rows it locked
  claim,    \* the DurableClaim each worker holds
  beat,     \* the heartbeat goroutine of each worker
  jobDone,  \* whether jobCtx of each worker's job is canceled
  verdict,  \* the acknowledgement each worker is about to send
  tokens,   \* lease tokens drawn so far: the next uuid is tokens + 1
  pushes,   \* rows inserted plus failed tasks retried, for MaxPushes
  faults,   \* crashes and errors so far, for MaxFaults
  latest,   \* history: the token of the latest claim of each task
  succeeded \* history: the tokens of the claims whose handler returned nil

vars == <<row, clock, pc, tx, claim, beat, jobDone, verdict, tokens, pushes,
          faults, latest, succeeded>>

workerVars == <<pc, claim, beat, jobDone, verdict>>
history == <<latest, succeeded>>

-----------------------------------------------------------------------------
(* The table.                                                              *)

Finished == {"completed", "failed", "canceled"}
Status == {"absent", "pending", "processing"} \cup Finished

(* 0 stands for the empty lease token and for a NULL lease_expires_at: the *)
(* drawn tokens start at 1 and a lease ends after the clock's first value. *)
TaskPO == [status : Status, attempts : Nat, availableAt : Nat,
           leaseToken : Nat, leaseExpiresAt : Nat, fencingToken : Nat,
           cancelRequested : BOOLEAN]

NoRow == [status |-> "absent", attempts |-> 0, availableAt |-> 0,
          leaseToken |-> 0, leaseExpiresAt |-> 0, fencingToken |-> 0,
          cancelRequested |-> FALSE]

(* max_attempts, fixed when the row is inserted. *)
MaxAttempts(t) == IF MaxRetries[t] > 1 THEN MaxRetries[t] ELSE 1

DurableClaim == [id : SUBSET Task, leaseToken : Nat, fencingToken : Nat,
                 attempts : Nat]
NoClaim == [id |-> {}, leaseToken |-> 0, fencingToken |-> 0, attempts |-> 0]

ClaimTx == [now : Nat, canceled : SUBSET Task, exhausted : SUBSET Task,
            picked : SUBSET Task]
NoTx == [now |-> 0, canceled |-> {}, exhausted |-> {}, picked |-> {}]

-----------------------------------------------------------------------------
(* Row locks and ownership.                                                *)

Held(w) == tx[w].canceled \cup tx[w].exhausted \cup tx[w].picked

(* Mutant of FreeFor: Claim's statements take no notice of row locks. *)
UnlockedFor(w, t) == TRUE

(* No Claim transaction of another worker has locked t. *)
FreeFor(w, t) == \A v \in Worker \ {w} : t \notin Held(v)
Free(t) == \A v \in Worker : t \notin Held(v)

(* Mutant of Expired: off by one. *)
ExpiredEarly(t, now) ==
  row[t].status = "processing" /\ row[t].leaseExpiresAt <= now + 1

(* status = 'processing' AND lease_expires_at <= now *)
Expired(t, now) == row[t].status = "processing" /\ row[t].leaseExpiresAt <= now

(* Mutant of Owned: the WHERE clause forgets both tokens. *)
OwnedById(w, t) == t \in claim[w].id /\ row[t].status = "processing"

(* id = ? AND status = 'processing' AND lease_token = ? AND fencing_token = ? *)
Owned(w, t) ==
  /\ t \in claim[w].id
  /\ row[t].status = "processing"
  /\ row[t].leaseToken = claim[w].leaseToken
  /\ row[t].fencingToken = claim[w].fencingToken

(* What the statements write into a row: a new one, the end of a lease, a  *)
(* new lease, a new budget, a retry, and the request to cancel.            *)
Inserted(availableAt) ==
  [NoRow EXCEPT !.status = "pending", !.availableAt = availableAt]

(* Mutant of Released: lease_expires_at is not reset. *)
ReleasedKeepsExpiry(r, status) == [r EXCEPT !.status = status, !.leaseToken = 0]

Released(r, status) ==
  [r EXCEPT !.status = status, !.leaseToken = 0, !.leaseExpiresAt = 0]

(* Mutant of Leased: the fencing token does not grow. *)
LeasedSameFence(r, token, expiresAt) ==
  [r EXCEPT !.status = "processing", !.attempts = r.attempts + 1,
            !.leaseToken = token, !.leaseExpiresAt = expiresAt]

Leased(r, token, expiresAt) ==
  [r EXCEPT !.status = "processing", !.attempts = r.attempts + 1,
            !.leaseToken = token, !.leaseExpiresAt = expiresAt,
            !.fencingToken = r.fencingToken + 1]

Reopened(r, now) ==
  [Released(r, "pending") EXCEPT !.attempts = 0, !.availableAt = now]

Acknowledged(r, status, availableAt) ==
  IF status = "pending"
  THEN [Released(r, status) EXCEPT !.availableAt = availableAt]
  ELSE Released(r, status)

AskedToCancel(r) ==
  [r EXCEPT !.cancelRequested = TRUE,
            !.status = IF @ = "pending" THEN "canceled" ELSE @]

Extended(r, expiresAt) == [r EXCEPT !.leaseExpiresAt = expiresAt]

-----------------------------------------------------------------------------
Init ==
  /\ row = [t \in Task |-> NoRow]
  /\ clock = 0
  /\ pc = [w \in Worker |-> "idle"]
  /\ tx = [w \in Worker |-> NoTx]
  /\ claim = [w \in Worker |-> NoClaim]
  /\ beat = [w \in Worker |-> "off"]
  /\ jobDone = [w \in Worker |-> FALSE]
  /\ verdict = [w \in Worker |-> "none"]
  /\ tokens = 0
  /\ pushes = 0
  /\ faults = 0
  /\ latest = [t \in Task |-> 0]
  /\ succeeded = {}

-----------------------------------------------------------------------------
(* Producers and operators.                                                *)

(* PushTask and PushTaskDelayed: insert creates a pending row.  The caller *)
(* may choose the id, so that of a deleted row can come back; the race of  *)
(* two inserts with one idempotency key is the subject of TaskIntake.      *)
PushTask(t, delay) ==
  /\ row[t].status = "absent"
  /\ pushes < MaxPushes
  /\ row' = [row EXCEPT ![t] = Inserted(clock + delay)]
  /\ pushes' = pushes + 1
  /\ latest' = [latest EXCEPT ![t] = 0]
  /\ UNCHANGED <<clock, tx, tokens, faults, succeeded, workerVars>>

(* Cancel: a pending task is canceled at once, a running one is asked to.  *)
Cancel(t) ==
  /\ row[t].status \in {"pending", "processing"}
  /\ Free(t)
  /\ row' = [row EXCEPT ![t] = AskedToCancel(row[t])]
  /\ UNCHANGED <<clock, tx, tokens, pushes, faults, history, workerVars>>

(* RetryFailed: a failed task is pending again with a new attempt budget.  *)
RetryFailed(t) ==
  /\ row[t].status = "failed"
  /\ pushes < MaxPushes
  /\ Free(t)
  /\ row' = [row EXCEPT ![t] = Reopened(row[t], clock)]
  /\ pushes' = pushes + 1
  /\ UNCHANGED <<clock, tx, tokens, faults, history, workerVars>>

(* PruneFinished deletes a batch of finished rows, skipping locked ones.   *)
PruneFinished ==
  \E batch \in SUBSET Task \ {{}} :
    /\ \A t \in batch : row[t].status \in Finished /\ Free(t)
    /\ row' = [t \in Task |-> IF t \in batch THEN NoRow ELSE row[t]]
    /\ UNCHANGED <<clock, tx, tokens, pushes, faults, history, workerVars>>

(* Clear deletes every row of the queue, running tasks included.           *)
Clear ==
  /\ \A t \in Task : row[t].status # "absent" => Free(t)
  /\ row' = [t \in Task |-> NoRow]
  /\ UNCHANGED <<clock, tx, tokens, pushes, faults, history, workerVars>>

-----------------------------------------------------------------------------
(* Claim.                                                                  *)

(* Statement 1: expired tasks that somebody asked to cancel are canceled.  *)
(* now is read once and serves all statements of the transaction.          *)
ClaimRecoverCanceled(w) ==
  LET hit == {t \in Task : Expired(t, clock) /\ row[t].cancelRequested}
  IN /\ pc[w] = "idle"
     /\ \A t \in hit : FreeFor(w, t)
     /\ tx' = [tx EXCEPT ![w] = [NoTx EXCEPT !.now = clock, !.canceled = hit]]
     /\ pc' = [pc EXCEPT ![w] = "exhausted"]
     /\ UNCHANGED <<row, clock, claim, beat, jobDone, verdict, tokens, pushes,
                    faults, history>>

(* Mutant of ClaimRecoverExhausted: > instead of >=. *)
ClaimRecoverOverdrawn(w) ==
  LET hit == {t \in Task \ tx[w].canceled :
                Expired(t, tx[w].now) /\ row[t].attempts > MaxAttempts(t)}
  IN /\ pc[w] = "exhausted"
     /\ \A t \in hit : FreeFor(w, t)
     /\ tx' = [tx EXCEPT ![w].exhausted = hit]
     /\ pc' = [pc EXCEPT ![w] = "select"]
     /\ UNCHANGED <<row, clock, claim, beat, jobDone, verdict, tokens, pushes,
                    faults, history>>

(* Statement 2: expired tasks without an attempt left are failed.          *)
ClaimRecoverExhausted(w) ==
  LET hit == {t \in Task \ tx[w].canceled :
                /\ Expired(t, tx[w].now)
                /\ row[t].attempts >= MaxAttempts(t)}
  IN /\ pc[w] = "exhausted"
     /\ \A t \in hit : FreeFor(w, t)
     /\ tx' = [tx EXCEPT ![w].exhausted = hit]
     /\ pc' = [pc EXCEPT ![w] = "select"]
     /\ UNCHANGED <<row, clock, claim, beat, jobDone, verdict, tokens, pushes,
                    faults, history>>

(* Mutant of Claimable: cancel_requested_at IS NULL is missing. *)
ClaimableThoughCanceled(t, now) ==
  /\ row[t].attempts < MaxAttempts(t)
  /\ \/ row[t].status = "pending" /\ row[t].availableAt <= now
     \/ Expired(t, now)

Claimable(t, now) ==
  /\ ~row[t].cancelRequested
  /\ row[t].attempts < MaxAttempts(t)
  /\ \/ row[t].status = "pending" /\ row[t].availableAt <= now
     \/ Expired(t, now)

(* Statement 3: lock the claimable row that has waited longest, skipping   *)
(* the rows other transactions hold.                                       *)
ClaimSelect(w) ==
  LET ready == {t \in Task \ Held(w) :
                  Claimable(t, tx[w].now) /\ FreeFor(w, t)}
      oldest == {t \in ready : \A u \in ready :
                   row[t].availableAt <= row[u].availableAt}
  IN /\ pc[w] = "select"
     /\ \/ ready = {} /\ UNCHANGED tx
        \/ \E t \in oldest : tx' = [tx EXCEPT ![w].picked = {t}]
     /\ pc' = [pc EXCEPT ![w] = "commit"]
     /\ UNCHANGED <<row, clock, claim, beat, jobDone, verdict, tokens, pushes,
                    faults, history>>

(* The row of t after the transaction x commits with lease token k. *)
Committed(t, x, k) ==
  IF t \in x.canceled THEN Released(row[t], "canceled")
  ELSE IF t \in x.exhausted THEN Released(row[t], "failed")
  ELSE IF t \in x.picked THEN Leased(row[t], k, x.now + LeaseDuration)
  ELSE row[t]

(* Statement 4 and COMMIT.  With nothing to claim the worker sleeps and    *)
(* claims again; otherwise processDurableJob starts the job's heartbeat    *)
(* and its handler.                                                        *)
ClaimCommit(w) ==
  /\ pc[w] = "commit"
  /\ row' = [t \in Task |-> Committed(t, tx[w], tokens + 1)]
  /\ tx' = [tx EXCEPT ![w] = NoTx]
  /\ \/ /\ tx[w].picked = {}
        /\ pc' = [pc EXCEPT ![w] = "idle"]
        /\ UNCHANGED <<claim, beat, jobDone, tokens, latest>>
     \/ /\ tx[w].picked # {}
        /\ tokens' = tokens + 1
        /\ \E t \in tx[w].picked :
             claim' = [claim EXCEPT ![w] =
                         [id |-> {t}, leaseToken |-> tokens + 1,
                          fencingToken |-> row[t].fencingToken + 1,
                          attempts |-> row[t].attempts + 1]]
        /\ latest' = [t \in Task |-> IF t \in tx[w].picked THEN tokens + 1
                                                           ELSE latest[t]]
        /\ pc' = [pc EXCEPT ![w] = "running"]
        /\ beat' = [beat EXCEPT ![w] = "waiting"]
        /\ jobDone' = [jobDone EXCEPT ![w] = FALSE]
  /\ UNCHANGED <<clock, verdict, pushes, faults, succeeded>>

-----------------------------------------------------------------------------
(* Heartbeats.                                                             *)

(* The ticker fires and Heartbeat reads cancel_requested_at.  A lost lease *)
(* or a requested cancellation cancels jobCtx and ends the goroutine.      *)
HeartbeatCheck(w) ==
  /\ beat[w] = "waiting"
  /\ ~jobDone[w]
  /\ IF \E t \in claim[w].id : Owned(w, t) /\ ~row[t].cancelRequested
     THEN beat' = [beat EXCEPT ![w] = "extending"] /\ UNCHANGED jobDone
     ELSE /\ beat' = [beat EXCEPT ![w] = "off"]
          /\ jobDone' = [jobDone EXCEPT ![w] = TRUE]
  /\ UNCHANGED <<row, clock, pc, tx, claim, verdict, tokens, pushes, faults,
                 history>>

(* Heartbeat's UPDATE, which does not look at cancel_requested_at again.   *)
HeartbeatExtend(w) ==
  /\ beat[w] = "extending"
  /\ \E t \in claim[w].id :
       \/ /\ Owned(w, t) /\ Free(t)
          /\ row' = [row EXCEPT ![t] = Extended(row[t], clock + LeaseDuration)]
          /\ beat' = [beat EXCEPT ![w] = "waiting"]
          /\ UNCHANGED jobDone
       \/ /\ ~Owned(w, t)
          /\ beat' = [beat EXCEPT ![w] = "off"]
          /\ jobDone' = [jobDone EXCEPT ![w] = TRUE]
          /\ UNCHANGED row
  /\ UNCHANGED <<clock, pc, tx, claim, verdict, tokens, pushes, faults, history>>

(* Either statement of Heartbeat returns an error: jobCtx is canceled.     *)
HeartbeatFails(w) ==
  /\ beat[w] # "off" /\ ~jobDone[w]
  /\ faults < MaxFaults
  /\ faults' = faults + 1
  /\ beat' = [beat EXCEPT ![w] = "off"]
  /\ jobDone' = [jobDone EXCEPT ![w] = TRUE]
  /\ UNCHANGED <<row, clock, pc, tx, claim, verdict, tokens, pushes, history>>

(* jobCtx is done: the goroutine returns, abandoning a statement that it   *)
(* had not sent.                                                           *)
HeartbeatExit(w) ==
  /\ jobDone[w] /\ beat[w] # "off"
  /\ beat' = [beat EXCEPT ![w] = "off"]
  /\ UNCHANGED <<row, clock, pc, tx, claim, jobDone, verdict, tokens, pushes,
                 faults, history>>

-----------------------------------------------------------------------------
(* The handler and its acknowledgement.                                    *)

(* Mutant of RetryLeft: off by one. *)
RetryOneMore(w) == \A t \in claim[w].id : claim[w].attempts <= MaxRetries[t]

(* payload.Attempts < payload.MaxRetries *)
RetryLeft(w) == \A t \in claim[w].id : claim[w].attempts < MaxRetries[t]

(* executeJob returns: the handler's result, or an envelope, type or data  *)
(* that does not decode, which is never retried.  jobCtx is canceled.      *)
HandlerReturns(w, ok, decoded) ==
  /\ pc[w] = "running"
  /\ pc' = [pc EXCEPT ![w] = "acknowledge"]
  /\ jobDone' = [jobDone EXCEPT ![w] = TRUE]
  /\ verdict' = [verdict EXCEPT ![w] =
                   IF decoded /\ ok THEN "completed"
                   ELSE IF decoded /\ RetryLeft(w) THEN "pending" ELSE "failed"]
  /\ succeeded' = IF decoded /\ ok THEN succeeded \cup {claim[w].leaseToken}
                                   ELSE succeeded
  /\ UNCHANGED <<row, clock, tx, claim, beat, tokens, pushes, faults, latest>>

(* The worker forgets the claim and goes back to the top of its loop.      *)
Forget(w) ==
  /\ pc' = [pc EXCEPT ![w] = "idle"]
  /\ claim' = [claim EXCEPT ![w] = NoClaim]
  /\ beat' = [beat EXCEPT ![w] = "off"]
  /\ jobDone' = [jobDone EXCEPT ![w] = FALSE]
  /\ verdict' = [verdict EXCEPT ![w] = "none"]

(* The UPDATE of Complete, Fail or Retry, once the heartbeat is over.      *)
Acknowledge(w, delay) ==
  /\ pc[w] = "acknowledge" /\ beat[w] = "off"
  /\ \E t \in claim[w].id :
       \/ /\ Owned(w, t) /\ ~row[t].cancelRequested /\ Free(t)
          /\ row' = [row EXCEPT ![t] =
                       Acknowledged(row[t], verdict[w], clock + delay)]
          /\ Forget(w)
       \/ /\ ~Owned(w, t) \/ row[t].cancelRequested
          /\ pc' = [pc EXCEPT ![w] = "finishCancellation"]
          /\ UNCHANGED <<row, claim, beat, jobDone, verdict>>
  /\ UNCHANGED <<clock, tx, tokens, pushes, faults, history>>

(* finishCancellation, run when that UPDATE found no row.                  *)
FinishCancellation(w) ==
  /\ pc[w] = "finishCancellation"
  /\ \E t \in claim[w].id :
       \/ /\ Owned(w, t) /\ row[t].cancelRequested /\ Free(t)
          /\ row' = [row EXCEPT ![t] = Released(row[t], "canceled")]
       \/ /\ ~(Owned(w, t) /\ row[t].cancelRequested)
          /\ UNCHANGED row
  /\ Forget(w)
  /\ UNCHANGED <<clock, tx, tokens, pushes, faults, history>>

-----------------------------------------------------------------------------
(* The environment.                                                        *)

(* A worker's process dies and restarts, or the statement it is about to   *)
(* run fails: a Claim rolls back, an acknowledgement is lost.              *)
Fault(w) ==
  /\ pc[w] # "idle"
  /\ faults < MaxFaults
  /\ faults' = faults + 1
  /\ tx' = [tx EXCEPT ![w] = NoTx]
  /\ Forget(w)
  /\ UNCHANGED <<row, clock, tokens, pushes, history>>

Tick ==
  /\ clock < MaxClock
  /\ clock' = clock + 1
  /\ UNCHANGED <<row, tx, tokens, pushes, faults, history, workerVars>>

-----------------------------------------------------------------------------
ClientStep ==
  \/ \E t \in Task, delay \in Delays : PushTask(t, delay)
  \/ \E t \in Task : Cancel(t) \/ RetryFailed(t)
  \/ PruneFinished
  \/ Clear

ClaimStep(w) ==
  \/ ClaimRecoverCanceled(w)
  \/ ClaimRecoverExhausted(w)
  \/ ClaimSelect(w)
  \/ ClaimCommit(w)

HeartbeatStep(w) ==
  HeartbeatCheck(w) \/ HeartbeatExtend(w) \/ HeartbeatFails(w)

JobStep(w) ==
  \/ \E ok, decoded \in BOOLEAN : HandlerReturns(w, ok, decoded)
  \/ HeartbeatExit(w)
  \/ \E delay \in Delays : Acknowledge(w, delay)
  \/ FinishCancellation(w)

Next ==
  \/ ClientStep
  \/ \E w \in Worker : ClaimStep(w) \/ HeartbeatStep(w) \/ JobStep(w) \/ Fault(w)
  \/ Tick

Spec == Init /\ [][Next]_vars

(* A worker that is alive keeps polling and its statements return; handlers *)
(* return because their context has a deadline; the clock advances.         *)
Fairness ==
  /\ \A w \in Worker : WF_vars(ClaimStep(w)) /\ WF_vars(JobStep(w))
  /\ WF_vars(Tick)

FairSpec == Spec /\ Fairness

-----------------------------------------------------------------------------
(* Properties.                                                             *)

TypeOK ==
  /\ row \in [Task -> TaskPO]
  /\ clock \in Nat
  /\ pc \in [Worker -> {"idle", "exhausted", "select", "commit", "running",
                        "acknowledge", "finishCancellation"}]
  /\ tx \in [Worker -> ClaimTx]
  /\ claim \in [Worker -> DurableClaim]
  /\ beat \in [Worker -> {"off", "waiting", "extending"}]
  /\ jobDone \in [Worker -> BOOLEAN]
  /\ verdict \in [Worker -> {"none", "completed", "pending", "failed"}]
  /\ tokens \in Nat
  /\ pushes \in Nat
  /\ faults \in Nat
  /\ latest \in [Task -> Nat]
  /\ succeeded \in SUBSET Nat

(* A row carries a lease exactly while its task is processing, so no       *)
(* statement that matches on a lease can touch a row nobody runs.          *)
LeaseMatchesStatus ==
  \A t \in Task :
    LET r == row[t] IN
      /\ r.status = "processing" <=> r.leaseToken # 0
      /\ r.status = "processing" <=> r.leaseExpiresAt # 0

(* Attempts never exceed the budget, and a task that waits has an attempt  *)
(* left.  Claim refuses a row without one, so a worker that put such a row *)
(* back to pending would strand it: the worker decides on the payload's    *)
(* MaxRetries and its claimed attempt, Claim on max_attempts and attempts. *)
BudgetRespected ==
  \A t \in Task :
    /\ row[t].attempts <= MaxAttempts(t)
    /\ row[t].status = "pending" => row[t].attempts < MaxAttempts(t)

(* No two workers own a task at once, whatever leases expired, rows were   *)
(* deleted and reinserted, and workers kept a claim they have lost.        *)
OneOwner ==
  \A v, w \in Worker : v # w => \A t \in Task : ~(Owned(v, t) /\ Owned(w, t))

(* A completed task was completed by its latest claim, whose handler did   *)
(* return nil: a worker that lost its lease never finishes the task on     *)
(* behalf of the one that runs it now.                                     *)
CompletedByLatestClaim ==
  \A t \in Task : row[t].status = "completed" => latest[t] \in succeeded

(* The rows a Claim transaction locked stay as its statements found them   *)
(* until it commits, and no two transactions hold the same row: the last   *)
(* UPDATE affects one row, and a worker is never handed a canceled, a      *)
(* finished or an exhausted task.                                          *)
LocksProtectClaims ==
  \A w \in Worker :
    /\ \A v \in Worker \ {w} : Held(v) \cap Held(w) = {}
    /\ \A t \in tx[w].picked : Claimable(t, tx[w].now)
    /\ \A t \in tx[w].canceled :
         Expired(t, tx[w].now) /\ row[t].cancelRequested
    /\ \A t \in tx[w].exhausted :
         Expired(t, tx[w].now) /\ row[t].attempts >= MaxAttempts(t)

(* A lease is taken over only after it ran out: while a heartbeat keeps it *)
(* ahead of the clock, no Claim, however old its reading of the clock and  *)
(* however it interleaves with the heartbeat's two statements, hands the   *)
(* task to another worker.                                                 *)
TakeoverOnlyAfterExpiry ==
  [][\A t \in Task :
       (/\ row[t].status = "processing" /\ row'[t].status = "processing"
        /\ row[t].leaseToken # row'[t].leaseToken)
       => row[t].leaseExpiresAt <= clock]_vars

(* Once its cancellation is requested, a task is not claimed again and its *)
(* handler's result is not recorded: until the row leaves processing its   *)
(* lease is the one it had, and it never becomes completed or pending.     *)
CancellationSticks ==
  [][\A t \in Task :
       (row[t].status = "processing" /\ row[t].cancelRequested)
       => /\ row'[t].status \notin {"completed", "pending"}
          /\ row'[t].status = "processing"
               => row'[t].fencingToken = row[t].fencingToken]_vars

(* An expired lease is always recovered: its task is finished, requeued,   *)
(* deleted or claimed again, whichever worker crashed.                     *)
ExpiredLeaseRecovered ==
  \A t \in Task :
    (row[t].status = "processing" /\ row[t].leaseExpiresAt <= clock)
    ~> (row[t].status # "processing" \/ row[t].leaseExpiresAt > clock)

(* A task that is due is claimed, although Claim may skip it because it is *)
(* locked or because an older one comes first, unless it is canceled.      *)
DueTaskClaimed ==
  \A t \in Task :
    (row[t].status = "pending" /\ row[t].availableAt <= clock)
    ~> (row[t].status # "pending" \/ row[t].cancelRequested)

(* A running task whose cancellation is requested stops: its worker or the *)
(* recovery of its expired lease takes it out of processing.  (Within the  *)
(* bound: a lease that outlives the last tick cannot expire.)              *)
CancellationLands ==
  \A t \in Task :
    (row[t].status = "processing" /\ row[t].cancelRequested)
    ~> (row[t].status # "processing" \/ row[t].leaseExpiresAt > MaxClock)

(* Whatever a worker, a lost statement or another client does to the       *)
(* ledger, workers that keep polling bring every task on: expired leases   *)
(* are recovered, due tasks claimed, cancellations carried out (Claim,     *)
(* processDurableJob, finishCancellation).                                 *)
TasksProgress == ExpiredLeaseRecovered /\ DueTaskClaimed /\ CancellationLands

(* What workflow:retry promises: the retried task has a fresh budget it    *)
(* can use, so a pending row is never one that Claim passes over for good. *)
PendingIsClaimable ==
  \A t \in Task : row[t].status = "pending" => ~row[t].cancelRequested

-----------------------------------------------------------------------------
(* The inductive invariant behind the properties above.                    *)

(* Every lease token in use was drawn, and no two claims share one. *)
TokensDistinct ==
  /\ \A t \in Task : row[t].leaseToken <= tokens
  /\ \A w \in Worker :
       /\ claim[w].leaseToken <= tokens
       /\ claim[w].id # {} => claim[w].leaseToken # 0
       /\ \A v \in Worker \ {w} :
            claim[v].id # {} => claim[v].leaseToken # claim[w].leaseToken

(* While a worker owns a task, the attempt it counts is the row's. *)
ClaimMatchesRow ==
  \A w \in Worker, t \in Task :
    Owned(w, t) => row[t].attempts = claim[w].attempts

(* A worker holds a verdict exactly while it acknowledges, and holds a     *)
(* retry only with an attempt left, a success only if its handler had one. *)
VerdictJustified ==
  \A w \in Worker :
    /\ pc[w] \in {"acknowledge", "finishCancellation"} <=> verdict[w] # "none"
    /\ verdict[w] = "pending" => RetryLeft(w)
    /\ verdict[w] = "completed" => claim[w].leaseToken \in succeeded

(* The lease on a processing row is that of its latest claim. *)
LeaseIsLatest ==
  \A t \in Task : row[t].status = "processing" => row[t].leaseToken = latest[t]

(* A transaction's reading of the clock is never ahead of it. *)
TxClock == \A w \in Worker : tx[w].now <= clock

Inv ==
  /\ TypeOK
  /\ LeaseMatchesStatus
  /\ BudgetRespected
  /\ CompletedByLatestClaim
  /\ LocksProtectClaims
  /\ TokensDistinct
  /\ ClaimMatchesRow
  /\ VerdictJustified
  /\ LeaseIsLatest
  /\ TxClock

-----------------------------------------------------------------------------
(* WorkflowTasks implements TaskLifecycle: the columns of a row that the   *)
(* promise is about, read off the table.                                   *)
Abstract(r) ==
  [state |-> r.status, attempts |-> r.attempts, fence |-> r.fencingToken,
   cancel |-> r.cancelRequested]

Ledger == [t \in Task |-> Abstract(row[t])]

Lifecycle == INSTANCE TaskLifecycle WITH Budget <- MaxAttempts, ledger <- Ledger

(* Whatever statements of whatever workers and operators interleave, every *)
(* task moves as TaskLifecycle allows: a claim spends an attempt and grows *)
(* the fencing token, a canceled task is not run or completed, a finished  *)
(* one stays so until it is deleted or, if it failed, retried.             *)
ImplementsLifecycle == Lifecycle!Spec
=============================================================================
