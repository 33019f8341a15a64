----------------------------- MODULE MemoryQueue -----------------------------
(***************************************************************************)
(* The in-process queue: MemoryDriver with one named queue, the producers  *)
(* that push to it, the workers that pop from it and retry by PushDelayed, *)
(* and the goroutines that deliver delayed pushes (queue.go, and the       *)
(* non-durable half of worker.go).                                         *)
(*                                                                         *)
(* One action is what a goroutine does under memoryQueue.mu, or one        *)
(* channel operation.  notEmpty and notFull are the one-slot channels that *)
(* wake waiters: a waiter takes the token out, then looks at the queue     *)
(* again under the lock.                                                   *)
(***************************************************************************)
EXTENDS Naturals, Sequences, FiniteSets

CONSTANTS
  Producer,    \* goroutines that push
  Worker,      \* worker pools, each one goroutine of Worker.work
  Capacity,    \* NewMemoryDriver's bufferSize
  MaxRetries,  \* JobPayload.MaxRetries of every job
  MaxJobs,     \* bound: jobs pushed by producers
  MaxCancels   \* bound: contexts canceled

ASSUME MemoryAssumption ==
  /\ Capacity \in Nat \ {0}
  /\ MaxRetries \in Nat
  /\ MaxJobs \in Nat
  /\ MaxCancels \in Nat
  /\ Producer \cap Worker = {}
  /\ (Producer \cup Worker) \cap (1..Capacity) = {}

(* The goroutines PushDelayed starts: each holds one of the delayedSlots. *)
Delivery == 1..Capacity
Process == Producer \cup Worker \cup Delivery

VARIABLES
  items,    \* the ring buffer
  head,     \* index of its oldest item
  size,     \* number of items
  notEmpty, \* a token is in the notEmpty channel
  notFull,  \* a token is in the notFull channel
  slots,    \* tokens in the delayedSlots channel
  driver,   \* "open", "closing" (closed is set) or "released" (Close returned)
  pc,       \* what each goroutine is about to do
  job,      \* the job each goroutine carries
  canceled, \* whether the context of each goroutine is canceled
  origin,   \* the worker whose context a delivery uses, if it is a worker's
  pushed,   \* jobs pushed by producers, for MaxJobs
  cancels,  \* contexts canceled, for MaxCancels
  fifo      \* history: the jobs that are in the queue, in the order of pushing

vars == <<items, head, size, notEmpty, notFull, slots, driver, pc, job,
          canceled, origin, pushed, cancels, fifo>>

queueVars == <<items, head, size, notEmpty, notFull, fifo>>

NoJob == [id |-> 0, attempts |-> 0]
Closed == driver # "open"

-----------------------------------------------------------------------------
(* The ring buffer.  Every change ends with syncSignals.                   *)

SyncSignals == /\ notEmpty' = (size' > 0)
               /\ notFull' = (size' < Capacity)

Enqueue(j) ==
  /\ items' = [items EXCEPT ![(head + size) % Capacity] = j]
  /\ size' = size + 1
  /\ fifo' = Append(fifo, j)
  /\ SyncSignals
  /\ UNCHANGED head

(* Mutant of Dequeue: the signals stay as they were. *)
DequeueSilent ==
  /\ items' = [items EXCEPT ![head] = NoJob]
  /\ head' = (head + 1) % Capacity
  /\ size' = size - 1
  /\ fifo' = Tail(fifo)
  /\ UNCHANGED <<notEmpty, notFull>>

Dequeue ==
  /\ items' = [items EXCEPT ![head] = NoJob]
  /\ head' = (head + 1) % Capacity
  /\ size' = size - 1
  /\ fifo' = Tail(fifo)
  /\ SyncSignals

ClearQueue ==
  /\ items' = [i \in 0..(Capacity - 1) |-> NoJob]
  /\ head' = 0
  /\ size' = 0
  /\ fifo' = << >>
  /\ SyncSignals

-----------------------------------------------------------------------------
Init ==
  /\ items = [i \in 0..(Capacity - 1) |-> NoJob]
  /\ head = 0
  /\ size = 0
  /\ notEmpty = FALSE
  /\ notFull = TRUE
  /\ slots = 0
  /\ driver = "open"
  /\ pc = [x \in Process |-> IF x \in Delivery THEN "free" ELSE "idle"]
  /\ job = [x \in Process |-> NoJob]
  /\ canceled = [x \in Process |-> FALSE]
  /\ origin = [d \in Delivery |-> {}]
  /\ pushed = 0
  /\ cancels = 0
  /\ fifo = << >>

(* operations.Add(1) .. operations.Done(): the operation x is part of runs. *)
InOperation(x) ==
  pc[x] \in {"enqueue", "waitFull", "slot", "slotHeld", "sleeping", "dequeue",
             "waitEmpty"}

Goto(x, label) == pc' = [pc EXCEPT ![x] = label]

(* x's operation is over.  A delivery gives its slot back, a worker whose  *)
(* retry was pushed or refused takes the next job.                         *)
Return(x) ==
  /\ Goto(x, IF x \in Delivery THEN "free" ELSE "idle")
  /\ job' = [job EXCEPT ![x] = NoJob]
  /\ slots' = IF x \in Delivery THEN slots - 1 ELSE slots

-----------------------------------------------------------------------------
(* Push.                                                                   *)

(* beginOperation of Push or PushDelayed with a context of its own.        *)
PushBegin(p, label) ==
  /\ pc[p] = "idle"
  /\ ~Closed
  /\ pushed < MaxJobs
  /\ pushed' = pushed + 1
  /\ job' = [job EXCEPT ![p] = [id |-> pushed + 1, attempts |-> 0]]
  /\ canceled' = [canceled EXCEPT ![p] = FALSE]
  /\ Goto(p, label)
  /\ UNCHANGED <<slots, driver, origin, cancels, queueVars>>

(* One turn of push's loop under the lock. *)
TryEnqueue(x) ==
  /\ pc[x] = "enqueue"
  /\ \/ /\ Closed \/ canceled[x]
        /\ Return(x)
        /\ UNCHANGED queueVars
     \/ /\ ~Closed /\ ~canceled[x] /\ size < Capacity
        /\ Enqueue(job[x])
        /\ Return(x)
     \/ /\ ~Closed /\ ~canceled[x] /\ size = Capacity
        /\ Goto(x, "waitFull")
        /\ UNCHANGED <<job, slots, queueVars>>
  /\ UNCHANGED <<driver, canceled, origin, pushed, cancels>>

(* Mutant of WaitFull: the select has no case for done. *)
WaitFullDeaf(x) ==
  /\ pc[x] = "waitFull"
  /\ \/ /\ notFull
        /\ notFull' = FALSE
        /\ Goto(x, "enqueue")
        /\ UNCHANGED <<job, slots>>
     \/ /\ canceled[x]
        /\ Return(x)
        /\ UNCHANGED notFull
  /\ UNCHANGED <<items, head, size, notEmpty, driver, canceled, origin,
                 pushed, cancels, fifo>>

(* push's select: Go picks any case that is ready. *)
WaitFull(x) ==
  /\ pc[x] = "waitFull"
  /\ \/ /\ notFull
        /\ notFull' = FALSE
        /\ Goto(x, "enqueue")
        /\ UNCHANGED <<job, slots>>
     \/ /\ canceled[x] \/ Closed
        /\ Return(x)
        /\ UNCHANGED notFull
  /\ UNCHANGED <<items, head, size, notEmpty, driver, canceled, origin,
                 pushed, cancels, fifo>>

-----------------------------------------------------------------------------
(* PushDelayed.                                                            *)

(* The select on delayedSlots. *)
AcquireSlot(x) ==
  /\ pc[x] = "slot"
  /\ \/ /\ slots < Capacity
        /\ slots' = slots + 1
        /\ Goto(x, "slotHeld")
        /\ UNCHANGED job
     \/ (canceled[x] \/ Closed) /\ Return(x)
  /\ UNCHANGED <<driver, canceled, origin, pushed, cancels, queueVars>>

(* The checks after it: give the slot back, or start the delivery, which   *)
(* goes on with the caller's context: the worker's when a worker retries.  *)
StartDelivery(x) ==
  /\ pc[x] = "slotHeld"
  /\ \/ /\ Closed \/ canceled[x]
        /\ Goto(x, "idle")
        /\ job' = [job EXCEPT ![x] = NoJob]
        /\ slots' = slots - 1
        /\ UNCHANGED <<canceled, origin>>
     \/ /\ ~Closed /\ ~canceled[x]
        /\ \E d \in Delivery :
             /\ pc[d] = "free"
             /\ \A e \in Delivery : pc[e] = "free" => d <= e
             /\ pc' = [pc EXCEPT ![x] = "idle", ![d] = "sleeping"]
             /\ job' = [job EXCEPT ![x] = NoJob, ![d] = job[x]]
             /\ canceled' = [canceled EXCEPT ![d] = FALSE]
             /\ origin' = [origin EXCEPT ![d] = {x} \cap Worker]
        /\ UNCHANGED slots
  /\ UNCHANGED <<driver, pushed, cancels, queueVars>>

(* The goroutine's select: the timer fires, or the delivery is off. *)
Deliver(d) ==
  /\ pc[d] = "sleeping"
  /\ \/ Goto(d, "enqueue") /\ UNCHANGED <<job, slots>>
     \/ (canceled[d] \/ Closed) /\ Return(d)
  /\ UNCHANGED <<driver, canceled, origin, pushed, cancels, queueVars>>

-----------------------------------------------------------------------------
(* Workers.                                                                *)

(* The top of Worker.work: it exits when its context is canceled or Pop's  *)
(* beginOperation reports a closed driver.                                 *)
PopBegin(w) ==
  /\ pc[w] = "idle"
  /\ Goto(w, IF Closed \/ canceled[w] THEN "exited" ELSE "dequeue")
  /\ UNCHANGED <<slots, driver, job, canceled, origin, pushed, cancels,
                 queueVars>>

(* One turn of Pop's loop under the lock. *)
TryDequeue(w) ==
  /\ pc[w] = "dequeue"
  /\ \/ /\ Closed \/ canceled[w]
        /\ Goto(w, "exited")
        /\ UNCHANGED <<job, queueVars>>
     \/ /\ ~Closed /\ ~canceled[w] /\ size > 0
        /\ job' = [job EXCEPT ![w] = items[head]]
        /\ Dequeue
        /\ Goto(w, "handling")
     \/ /\ ~Closed /\ ~canceled[w] /\ size = 0
        /\ Goto(w, "waitEmpty")
        /\ UNCHANGED <<job, queueVars>>
  /\ UNCHANGED <<slots, driver, canceled, origin, pushed, cancels>>

(* Pop's select. *)
WaitEmpty(w) ==
  /\ pc[w] = "waitEmpty"
  /\ \/ /\ notEmpty
        /\ notEmpty' = FALSE
        /\ Goto(w, "dequeue")
     \/ /\ canceled[w] \/ Closed
        /\ Goto(w, "exited")
        /\ UNCHANGED notEmpty
  /\ UNCHANGED <<items, head, size, notFull, slots, driver, job, canceled,
                 origin, pushed, cancels, fifo>>

(* processJob: the handler returns.  A failed job with attempts left is    *)
(* pushed again with the worker's context, unless the driver refuses it:   *)
(* retry is "slot" when the job's RetryDelay is positive, else "enqueue".  *)
Handle(w, ok, retry) ==
  LET tried == job[w].attempts + 1
  IN /\ pc[w] = "handling"
     /\ IF ok \/ tried >= MaxRetries \/ Closed \/ canceled[w]
        THEN /\ Goto(w, "idle")
             /\ job' = [job EXCEPT ![w] = NoJob]
        ELSE /\ Goto(w, retry)
             /\ job' = [job EXCEPT ![w].attempts = tried]
     /\ UNCHANGED <<slots, driver, canceled, origin, pushed, cancels, queueVars>>

-----------------------------------------------------------------------------
(* The rest of the driver's interface, and the environment.                *)

Clear ==
  /\ ~Closed
  /\ ClearQueue
  /\ UNCHANGED <<slots, driver, pc, job, canceled, origin, pushed, cancels>>

(* Close: refuse operations and wake everybody, wait for the operations to *)
(* end, release the queues.                                                *)
CloseBegin ==
  /\ driver = "open"
  /\ driver' = "closing"
  /\ UNCHANGED <<slots, pc, job, canceled, origin, pushed, cancels, queueVars>>

CloseReturn ==
  /\ driver = "closing"
  /\ \A x \in Process : ~InOperation(x)
  /\ driver' = "released"
  /\ ClearQueue
  /\ UNCHANGED <<slots, pc, job, canceled, origin, pushed, cancels>>

(* A worker's context takes the retries it has scheduled with it. *)
CancelContext(x) ==
  /\ pc[x] \notin {"free", "exited"} /\ ~canceled[x]
  /\ x \in Producer => pc[x] # "idle"
  /\ x \in Delivery => origin[x] = {}
  /\ cancels < MaxCancels
  /\ cancels' = cancels + 1
  /\ LET scope == {x} \cup {d \in Delivery : pc[d] # "free" /\ x \in origin[d]}
     IN canceled' = [y \in Process |-> canceled[y] \/ y \in scope]
  /\ UNCHANGED <<slots, driver, pc, job, origin, pushed, queueVars>>

-----------------------------------------------------------------------------
PushStep(x) ==
  TryEnqueue(x) \/ WaitFull(x) \/ AcquireSlot(x) \/ StartDelivery(x)

PopStep(w) ==
  \/ PopBegin(w) \/ TryDequeue(w) \/ WaitEmpty(w)
  \/ \E ok \in BOOLEAN, retry \in {"slot", "enqueue"} : Handle(w, ok, retry)

(* Everything has stopped: all contexts were used up or the driver closed. *)
Terminated ==
  /\ driver = "released"
  /\ \A w \in Worker : pc[w] = "exited"
  /\ UNCHANGED vars

Next ==
  \/ \E p \in Producer : PushBegin(p, "enqueue") \/ PushBegin(p, "slot")
  \/ \E x \in Process : PushStep(x) \/ CancelContext(x)
  \/ \E w \in Worker : PopStep(w)
  \/ \E d \in Delivery : Deliver(d)
  \/ Clear \/ CloseBegin \/ CloseReturn
  \/ Terminated

Spec == Init /\ [][Next]_vars

(* The Go scheduler runs every runnable goroutine; timers fire; handlers   *)
(* return.  Nothing makes anybody push, clear, cancel or close.            *)
Fairness ==
  /\ \A x \in Process : WF_vars(PushStep(x))
  /\ \A w \in Worker : WF_vars(PopStep(w))
  /\ \A d \in Delivery : WF_vars(Deliver(d))
  /\ WF_vars(CloseReturn)

FairSpec == Spec /\ Fairness

-----------------------------------------------------------------------------
(* Properties.                                                             *)

Job == [id : 0..MaxJobs, attempts : 0..MaxRetries]

TypeOK ==
  /\ items \in [0..(Capacity - 1) -> Job]
  /\ head \in 0..(Capacity - 1)
  /\ size \in 0..Capacity
  /\ notEmpty \in BOOLEAN /\ notFull \in BOOLEAN
  /\ slots \in 0..Capacity
  /\ driver \in {"open", "closing", "released"}
  /\ pc \in [Process -> {"free", "idle", "exited", "enqueue", "waitFull", "slot",
                         "slotHeld", "sleeping", "dequeue", "waitEmpty",
                         "handling"}]
  /\ job \in [Process -> Job]
  /\ canceled \in [Process -> BOOLEAN]
  /\ origin \in [Delivery -> SUBSET Worker]
  /\ pushed \in 0..MaxJobs
  /\ cancels \in 0..MaxCancels

(* Through every wraparound and Clear, the ring buffer holds the pushed    *)
(* jobs in their order and nothing else, so Pop delivers each of them once *)
(* and first in, first out.                                                *)
RingIsFIFO ==
  /\ size = Len(fifo)
  /\ \A i \in 0..(Capacity - 1) :
       items[(head + i) % Capacity] = IF i < size THEN fifo[i + 1] ELSE NoJob

(* Every token of delayedSlots belongs to a delivery or to a PushDelayed   *)
(* that has just taken it: none leaks on any path through cancellation and *)
(* closing, and there are never more timers than slots.                    *)
SlotsAccounted ==
  slots = Cardinality({d \in Delivery : pc[d] # "free"})
          + Cardinality({x \in Producer \cup Worker : pc[x] = "slotHeld"})

(* A waiter is never woken for nothing: a token says the queue has an item *)
(* or room at this moment.                                                 *)
SignalsTruthful ==
  (notEmpty => size > 0) /\ (notFull => size < Capacity)

(* Once Close has returned, no operation runs and nothing is queued or     *)
(* comes to be queued.                                                     *)
NothingAfterClose ==
  driver = "released" => /\ \A x \in Process : ~InOperation(x)
                         /\ size = 0 /\ slots = 0

(* Close returns: every blocked producer, consumer and delivery observes   *)
(* it, whatever it waits for.                                              *)
CloseReturns == driver = "closing" ~> driver = "released"

(* Nobody waits for what is there: while a goroutine waits and the queue   *)
(* has what it waits for, a token is in the channel or a goroutine that    *)
(* took it is on its way to the queue.                                     *)
NoLostWakeup ==
  ~Closed =>
    /\ (size > 0 /\ \E w \in Worker : pc[w] = "waitEmpty")
         => notEmpty \/ \E w \in Worker : pc[w] = "dequeue"
    /\ (size < Capacity /\ \E x \in Process : pc[x] = "waitFull")
         => notFull \/ \E x \in Process : pc[x] = "enqueue"

(* As long as no context is canceled, no wakeup is lost: whoever takes a   *)
(* token passes one on when an item or room is left, through every retry,  *)
(* delayed delivery and Clear.                                             *)
WakeupsKept == cancels = 0 => NoLostWakeup

(* The queue through wraparound, Clear, delayed deliveries, cancellation   *)
(* and Close: the ring is first in, first out, no slot leaks, a token in a *)
(* signal channel tells the truth, no wakeup is lost while no context is   *)
(* canceled, and nothing is left behind a Close that returned.             *)
QueueSound ==
  /\ TypeOK
  /\ RingIsFIFO /\ SlotsAccounted /\ SignalsTruthful
  /\ NothingAfterClose /\ WakeupsKept
=============================================================================
