------------------------------ MODULE WorkerPool ------------------------------
(***************************************************************************)
(* The life of a Worker: Start, Stop and Wait called from several          *)
(* goroutines, and the goroutines of Worker.work they start and wait for   *)
(* (api/internal/capabilities/workflow/worker.go).  Which jobs are run and *)
(* what becomes of them is the subject of WorkflowTasks and MemoryQueue;   *)
(* here a job is something a goroutine is busy with.                       *)
(*                                                                         *)
(* sync.WaitGroup is modelled by what Wait does: a call that finds the     *)
(* counter at zero returns; otherwise it sleeps until the counter reaches  *)
(* zero, and when it resumes and finds the counter up again it panics.     *)
(* A panic ends the process; that the model goes on only adds behaviours.  *)
(***************************************************************************)
EXTENDS Naturals

CONSTANTS
  Caller,     \* goroutines that call Start, Stop and Wait
  Goroutine,  \* the Concurrency goroutines of Worker.work
  MaxJobs,    \* WorkerConfig.MaxJobs, 0 for no limit
  MaxStarts,  \* bound: runs of the worker
  MaxEach     \* bound: jobs a goroutine processes in a run

ASSUME PoolAssumption ==
  /\ MaxJobs \in Nat
  /\ MaxStarts \in Nat
  /\ MaxEach \in Nat

VARIABLES
  running,   \* Worker.running
  stopping,  \* Worker.stopping
  canceled,  \* the run's context is canceled, or its stop channel closed
  closed,    \* the driver is closed
  work,      \* what each goroutine does
  processed, \* jobsProcessed of each goroutine
  call,      \* the call each caller is in: of two Stops the second is "again"
  at,        \* where it is in it
  starts     \* runs of the worker, for MaxStarts

vars == <<running, stopping, canceled, closed, work, processed, call, at, starts>>
state == <<running, stopping, canceled, closed, work, processed, starts>>

Init ==
  /\ running = FALSE
  /\ stopping = FALSE
  /\ canceled = FALSE
  /\ closed = FALSE
  /\ work = [g \in Goroutine |-> "exited"]
  /\ processed = [g \in Goroutine |-> 0]
  /\ call = [c \in Caller |-> "none"]
  /\ at = [c \in Caller |-> "idle"]
  /\ starts = 0

(* The WaitGroup's counter is zero. *)
AllDone == \A g \in Goroutine : work[g] = "exited"

-----------------------------------------------------------------------------
(* Callers.                                                                *)

(* Start of a worker that does not run; of one that does it is a no-op.    *)
Start(c) ==
  /\ at[c] = "idle" /\ ~running
  /\ starts < MaxStarts
  /\ starts' = starts + 1
  /\ running' = TRUE
  /\ stopping' = FALSE
  /\ canceled' = FALSE
  /\ work' = [g \in Goroutine |-> "top"]
  /\ processed' = [g \in Goroutine |-> 0]
  /\ UNCHANGED <<closed, call, at>>

(* Mutant of StopBegin: running is cleared before the goroutines are done. *)
StopBeginEager(c) ==
  /\ at[c] = "idle" /\ running
  /\ running' = FALSE
  /\ stopping' = TRUE
  /\ call' = [call EXCEPT ![c] = IF stopping THEN "again" ELSE "stop"]
  /\ at' = [at EXCEPT ![c] = IF stopping THEN "wait" ELSE "cancel"]
  /\ UNCHANGED <<canceled, closed, work, processed, starts>>

(* Stop of a running worker, up to its first unlock: a second one waits.   *)
StopBegin(c) ==
  /\ at[c] = "idle" /\ running
  /\ stopping' = TRUE
  /\ call' = [call EXCEPT ![c] = IF stopping THEN "again" ELSE "stop"]
  /\ at' = [at EXCEPT ![c] = IF stopping THEN "wait" ELSE "cancel"]
  /\ UNCHANGED <<running, canceled, closed, work, processed, starts>>

(* cancel() and close(stop). *)
StopCancel(c) ==
  /\ at[c] = "cancel"
  /\ canceled' = TRUE
  /\ at' = [at EXCEPT ![c] = "wait"]
  /\ UNCHANGED <<running, stopping, closed, work, processed, call, starts>>

(* Wait, called by itself. *)
WaitBegin(c) ==
  /\ at[c] = "idle"
  /\ call' = [call EXCEPT ![c] = "wait"]
  /\ at' = [at EXCEPT ![c] = "wait"]
  /\ UNCHANGED state

(* wg.Wait has returned: Stop has something left to do, the others not. *)
Waited(c) ==
  /\ at' = [at EXCEPT ![c] = IF call[c] = "stop" THEN "end" ELSE "idle"]
  /\ call' = [call EXCEPT ![c] = IF @ = "stop" THEN @ ELSE "none"]

WaitGroupWait(c) ==
  /\ at[c] = "wait"
  /\ \/ AllDone /\ Waited(c)
     \/ ~AllDone /\ at' = [at EXCEPT ![c] = "sleep"] /\ UNCHANGED call
  /\ UNCHANGED state

(* A woken Wait resumes and looks at the counter again. *)
WaitGroupResume(c) ==
  /\ at[c] = "woken"
  /\ \/ AllDone /\ Waited(c)
     \/ ~AllDone /\ at' = [at EXCEPT ![c] = "panic"] /\ UNCHANGED call
  /\ UNCHANGED state

(* Stop takes the lock again. *)
StopEnd(c) ==
  /\ at[c] = "end"
  /\ running' = FALSE
  /\ stopping' = FALSE
  /\ at' = [at EXCEPT ![c] = "idle"]
  /\ call' = [call EXCEPT ![c] = "none"]
  /\ UNCHANGED <<canceled, closed, work, processed, starts>>

-----------------------------------------------------------------------------
(* Goroutines.                                                             *)

(* wg.Done, which wakes the sleepers when the counter reaches zero. *)
Exit(g) ==
  /\ work' = [work EXCEPT ![g] = "exited"]
  /\ at' = IF \A h \in Goroutine \ {g} : work[h] = "exited"
           THEN [c \in Caller |-> IF at[c] = "sleep" THEN "woken" ELSE at[c]]
           ELSE at

(* The top of work's loop. *)
Top(g) ==
  /\ work[g] = "top"
  /\ \/ canceled /\ Exit(g)
     \/ ~canceled /\ MaxJobs > 0 /\ processed[g] >= MaxJobs /\ Exit(g)
     \/ /\ ~canceled /\ ~(MaxJobs > 0 /\ processed[g] >= MaxJobs)
        /\ work' = [work EXCEPT ![g] = "polling"]
        /\ UNCHANGED at
  /\ UNCHANGED <<running, stopping, canceled, closed, processed, call, starts>>

(* Mutant of PollFails: the blocking Claim or Pop gets a context of its    *)
(* own, so only a closed driver ends it.                                   *)
PollFailsDeaf(g) ==
  /\ work[g] = "polling"
  /\ closed /\ Exit(g)
  /\ UNCHANGED <<running, stopping, canceled, closed, processed, call, starts>>

(* Claim or Pop, or the sleep after it, ends without a job. *)
PollFails(g) ==
  /\ work[g] = "polling"
  /\ \/ (canceled \/ closed) /\ Exit(g)
     \/ /\ ~canceled /\ ~closed
        /\ work' = [work EXCEPT ![g] = "top"]
        /\ UNCHANGED at
  /\ UNCHANGED <<running, stopping, canceled, closed, processed, call, starts>>

(* Claim or Pop returns a job, perhaps as the context is canceled. *)
TakeJob(g) ==
  /\ work[g] = "polling" /\ ~closed
  /\ processed[g] < MaxEach
  /\ work' = [work EXCEPT ![g] = "busy"]
  /\ UNCHANGED <<running, stopping, canceled, closed, processed, call, at, starts>>

JobEnds(g) ==
  /\ work[g] = "busy"
  /\ work' = [work EXCEPT ![g] = "top"]
  /\ processed' = [processed EXCEPT ![g] = @ + 1]
  /\ UNCHANGED <<running, stopping, canceled, closed, call, at, starts>>

(* The context passed to Start is canceled, or the driver is closed. *)
CancelParent ==
  /\ running /\ ~canceled
  /\ canceled' = TRUE
  /\ UNCHANGED <<running, stopping, closed, work, processed, call, at, starts>>

CloseDriver ==
  /\ ~closed
  /\ closed' = TRUE
  /\ UNCHANGED <<running, stopping, canceled, work, processed, call, at, starts>>

CallerStep(c) ==
  StopCancel(c) \/ WaitGroupWait(c) \/ WaitGroupResume(c) \/ StopEnd(c)

WorkStep(g) == Top(g) \/ PollFails(g) \/ JobEnds(g)

Next ==
  \/ \E c \in Caller : Start(c) \/ StopBegin(c) \/ WaitBegin(c) \/ CallerStep(c)
  \/ \E g \in Goroutine : WorkStep(g) \/ TakeJob(g)
  \/ CancelParent \/ CloseDriver

Spec == Init /\ [][Next]_vars

(* Handlers return and the Go scheduler runs every runnable goroutine.     *)
Fairness ==
  /\ \A c \in Caller : WF_vars(CallerStep(c))
  /\ \A g \in Goroutine : WF_vars(WorkStep(g))

FairSpec == Spec /\ Fairness

-----------------------------------------------------------------------------
(* Properties.                                                             *)

TypeOK ==
  /\ running \in BOOLEAN /\ stopping \in BOOLEAN
  /\ canceled \in BOOLEAN /\ closed \in BOOLEAN
  /\ work \in [Goroutine -> {"exited", "top", "polling", "busy"}]
  /\ processed \in [Goroutine -> Nat]
  /\ call \in [Caller -> {"none", "stop", "again", "wait"}]
  /\ at \in [Caller -> {"idle", "cancel", "wait", "sleep", "woken", "end", "panic"}]
  /\ starts \in Nat

(* A worker that counts as stopped has no goroutine left, and only one     *)
(* Stop at a time is the one that stops it: what it waits for cannot be    *)
(* started again before it is done.                                        *)
StoppedIsQuiet ==
  /\ ~running => AllDone /\ ~stopping
  /\ stopping <=> \E c \in Caller : call[c] = "stop"
  /\ \A c, d \in Caller : call[c] = "stop" /\ call[d] = "stop" => c = d
  /\ \A c \in Caller :
       call[c] = "stop" => /\ running /\ at[c] # "panic"
                           /\ at[c] # "cancel" => canceled
                           /\ at[c] \in {"woken", "end"} => AllDone

(* The Stop that stops the worker returns, whatever its goroutines do.     *)
StopReturns == \A c \in Caller : call[c] = "stop" ~> call[c] = "none"

(* What the documentation promises of calling Stop more than once: the     *)
(* second call never misuses the WaitGroup. It does not hold when the      *)
(* worker is started again meanwhile (README, section 5).                  *)
StopAgainIsSafe == \A c \in Caller : call[c] = "again" => at[c] # "panic"

-----------------------------------------------------------------------------
(* The inductive invariant behind StoppedIsQuiet.                          *)

(* Where a caller can be in which call. *)
CallShape ==
  \A c \in Caller :
    /\ call[c] = "none" <=> at[c] = "idle"
    /\ at[c] \in {"cancel", "end"} => call[c] = "stop"

Inv == TypeOK /\ StoppedIsQuiet /\ CallShape
=============================================================================
