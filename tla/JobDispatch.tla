----------------------------- MODULE JobDispatch ------------------------------
(* The queue manager, the synchronous driver and a worker on it                *)
(* (api/internal/capabilities/workflow: queue.go, worker.go, bootstrap.go,     *)
(* workflow.go). The synchronous driver handles a job inside Push, in the      *)
(* caller's goroutine, and keeps what failed for a worker, which counts the    *)
(* attempt itself and hands its own retries back to Push.                      *)
(* The memory driver is an unbounded queue here (MemoryQueue has its bounds    *)
(* and its blocking), and the postgres driver is refused for want of a         *)
(* database (TaskIntake and WorkflowTasks have it).                            *)
EXTENDS Naturals, Sequences, FiniteSets, FiniteSetsExt, SequencesExt

CONSTANTS
    Job,            \* jobs, each of its own type and dispatched once
    Retries,        \* MaxRetries of a job
    OwnQueue,       \* the queue a JobWithQueue names, or NoQueue
    HasDelay,       \* jobs with a positive Delay
    Queue,          \* names of queues
    NoQueue,        \* a job or an option without one
    Caller,         \* goroutines that dispatch
    Poller,         \* the worker's goroutine
    MaxBootstraps   \* bound: calls of Bootstrap

JobDispatchAssumption ==
    /\ Retries \in [Job -> Nat] /\ OwnQueue \in [Job -> Queue \cup {NoQueue}]
    /\ HasDelay \subseteq Job /\ NoQueue \notin Queue /\ Poller \notin Caller
    /\ IsFiniteSet(Job) /\ NoQueue \notin Job /\ MaxBootstraps \in Nat

VARIABLES
    drivers,        \* drivers by name: the object registered, 0 for none
    store,          \* the queues of every driver object that was made
    chosen,         \* defaultDriver and defaultQueue
    registered,     \* jobRegistry
    goroutine,      \* what each caller and the worker's goroutine are doing
    workerDriver,   \* the driver and the queue of the worker, 0 before NewWorker
    sleeping,       \* jobs the memory driver delivers later
    made,           \* sync drivers made, for MaxBootstraps
    history         \* of each job: how often handled and how it ended

jobDispatchVars ==
    <<drivers, store, chosen, registered, goroutine, workerDriver, sleeping, made, history>>

(* Object 1 is the memory driver, the others are synchronous.                  *)
Memory == 1
Objects == 1..(MaxBootstraps + 2)
NoPayload == [job |-> NoQueue, attempts |-> 0]
Idle == [at |-> "idle", driver |-> 0, queue |-> NoQueue, payload |-> NoPayload]
Empty == [q \in Queue |-> <<>>]

JobDispatchInit ==
    /\ drivers = [sync |-> 2, memory |-> 0]
    /\ store = [o \in Objects |-> Empty]
    /\ chosen \in {[driver |-> "sync", queue |-> q] : q \in Queue}
    /\ registered = {}
    /\ goroutine = [g \in Caller \cup {Poller} |-> Idle]
    /\ workerDriver = [driver |-> 0, queue |-> NoQueue]
    /\ sleeping = {}
    /\ made = 2
    /\ history = [j \in Job |-> [handled |-> 0, ended |-> "new"]]

(* DefaultDriver: the chosen one, or sync when that name has none.             *)
DefaultDriver == IF drivers[chosen.driver] # 0 THEN drivers[chosen.driver] ELSE drivers.sync

(* createJob finds the type of a payload, deserializeJob its data as well.     *)
CreateJob(p) == p.job \in registered
DeserializeJob(p) == CreateJob(p)

Serialized(j) == [job |-> j, attempts |-> 0]
Enqueue(o, q, p) == store' = [store EXCEPT ![o][q] = Append(@, p)]
Return(g) == goroutine' = [goroutine EXCEPT ![g] = Idle]
Ends(j, how) == history' = [history EXCEPT ![j].ended = how]
Moves(j) == Ends(j, "under way")

(* Bootstrap: a sync driver always replaces the one registered, a memory       *)
(* driver only where there is none; an unsupported name, or postgres without   *)
(* a database, is refused with nothing changed.                                *)
Bootstrap(name, queue) ==
    /\ made < MaxBootstraps + 2
    /\ name \in {"sync", "memory"}
    /\ \/ /\ name = "sync"
          /\ made' = made + 1 /\ drivers' = [drivers EXCEPT !.sync = made + 1]
       \/ /\ name = "memory"
          /\ made' = made /\ drivers' = [drivers EXCEPT !.memory = Memory]
    /\ chosen' = [driver |-> name, queue |-> IF queue # NoQueue THEN queue ELSE chosen.queue]
    /\ UNCHANGED <<store, registered, goroutine, workerDriver, sleeping, history>>

RegisterJob(j) ==
    /\ j \notin registered
    /\ registered' = registered \cup {j}
    /\ UNCHANGED <<drivers, store, chosen, goroutine, workerDriver, sleeping, made, history>>

(* SyncDriver.Push: a payload that cannot be decoded is queued and the caller  *)
(* told of success; any other is handled here. MemoryDriver.Push queues it.    *)
Push(g, o, q, p) ==
    \/ /\ o # Memory /\ DeserializeJob(p)
       /\ goroutine' = [goroutine EXCEPT
              ![g] = [at |-> "handling", driver |-> o, queue |-> q, payload |-> p]]
       /\ UNCHANGED <<store, sleeping>>
    \/ /\ o = Memory \/ ~DeserializeJob(p)
       /\ Enqueue(o, q, p)
       /\ Return(g)
       /\ UNCHANGED sleeping

(* PushDelayed: the synchronous driver holds its caller until the time comes,  *)
(* the memory driver leaves the job to a goroutine of its own.                 *)
PushDelayed(g, o, q, p) ==
    \/ /\ o # Memory
       /\ goroutine' = [goroutine EXCEPT
              ![g] = [at |-> "waiting", driver |-> o, queue |-> q, payload |-> p]]
       /\ UNCHANGED <<store, sleeping>>
    \/ /\ o = Memory
       /\ sleeping' = sleeping \cup {[queue |-> q, payload |-> p]}
       /\ Return(g)
       /\ UNCHANGED store

(* DispatchTaskTo: the job's own queue before the one asked for, and its own   *)
(* delay (Manager.Dispatch, WithQueue).                                        *)
DispatchTo(g, asked, j) ==
    /\ goroutine[g] = Idle /\ history[j].ended = "new"
    /\ LET given == IF asked # NoQueue THEN asked ELSE chosen.queue
           queue == IF OwnQueue[j] # NoQueue THEN OwnQueue[j] ELSE given
       IN  IF j \in HasDelay
           THEN PushDelayed(g, DefaultDriver, queue, Serialized(j))
           ELSE Push(g, DefaultDriver, queue, Serialized(j))
    /\ Moves(j)
    /\ UNCHANGED <<drivers, chosen, registered, workerDriver, made>>

(* LaterTo: neither the job's own queue nor its own delay counts.              *)
LaterTo(g, asked, delay, j) ==
    /\ goroutine[g] = Idle /\ history[j].ended = "new"
    /\ LET queue == IF asked # NoQueue THEN asked ELSE chosen.queue
       IN  IF delay > 0
           THEN PushDelayed(g, DefaultDriver, queue, Serialized(j))
           ELSE Push(g, DefaultDriver, queue, Serialized(j))
    /\ Moves(j)
    /\ UNCHANGED <<drivers, chosen, registered, workerDriver, made>>

(* The timer in PushDelayed fires, or the context ends first: the caller is    *)
(* told, and a worker that was to retry drops the error with the job.          *)
TimerFires(g) ==
    /\ goroutine[g].at = "waiting"
    /\ Push(g, goroutine[g].driver, goroutine[g].queue, goroutine[g].payload)
    /\ UNCHANGED <<drivers, chosen, registered, workerDriver, made, history>>

ContextEnds(g) ==
    /\ goroutine[g].at = "waiting"
    /\ Return(g)
    /\ Ends(goroutine[g].payload.job, IF g = Poller THEN "dropped" ELSE "caller told")
    /\ UNCHANGED <<drivers, store, chosen, registered, workerDriver, sleeping, made>>

MemoryDelivers(d) ==
    /\ sleeping' = sleeping \ {d}
    /\ Enqueue(Memory, d.queue, d.payload)
    /\ UNCHANGED <<drivers, chosen, registered, goroutine, workerDriver, made, history>>

(* Mutant: a failed job is queued again with the count it came with.           *)
SyncHandledUncounted(g, ok) ==
    LET here == goroutine[g]
        payload == here.payload
        again == ~ok /\ payload.attempts < Retries[payload.job]
    IN
    /\ here.at = "handling"
    /\ store' = IF again
                THEN [store EXCEPT ![here.driver][here.queue] = Append(@, payload)]
                ELSE store
    /\ history' = [history EXCEPT ![payload.job] =
          [handled |-> @.handled + 1,
           ended |-> IF ok THEN "done"
                     ELSE IF again THEN "under way"
                     ELSE IF g = Poller THEN "lost" ELSE "caller told"]]
    /\ Return(g)
    /\ UNCHANGED <<drivers, chosen, registered, workerDriver, sleeping, made>>

(* The rest of SyncDriver.Push: the handler returned.                          *)
SyncHandled(g, ok) ==
    LET here == goroutine[g]
        payload == here.payload
        again == ~ok /\ payload.attempts < Retries[payload.job]
    IN
    /\ here.at = "handling"
    /\ store' = IF again
                THEN [store EXCEPT ![here.driver][here.queue] =
                         Append(@, [payload EXCEPT !.attempts = @ + 1])]
                ELSE store
    /\ history' = [history EXCEPT ![payload.job] =
          [handled |-> @.handled + 1,
           ended |-> IF ok THEN "done"
                     ELSE IF again THEN "under way"
                     ELSE IF g = Poller THEN "lost" ELSE "caller told"]]
    /\ Return(g)
    /\ UNCHANGED <<drivers, chosen, registered, workerDriver, sleeping, made>>

(* NewWorker binds the worker to the default driver of that moment.            *)
NewWorker(q) ==
    /\ workerDriver.driver = 0
    /\ workerDriver' = [driver |-> DefaultDriver, queue |-> q]
    /\ UNCHANGED <<drivers, store, chosen, registered, goroutine, sleeping, made, history>>

(* executeJob up to the handler: a job of an unknown type is reported to       *)
(* handleFailedJob without a try; any other is counted and handled.            *)
ExecuteJob(p) ==
    \/ /\ ~CreateJob(p)
       /\ Ends(p.job, "reported")
       /\ UNCHANGED goroutine
    \/ /\ CreateJob(p)
       /\ goroutine' = [goroutine EXCEPT ![Poller] =
              [at |-> "working", driver |-> workerDriver.driver, queue |-> workerDriver.queue,
               payload |-> [p EXCEPT !.attempts = @ + 1]]]
       /\ UNCHANGED history

(* The worker pops the head of its queue and processes it.                     *)
Pop ==
    /\ workerDriver.driver # 0 /\ goroutine[Poller] = Idle
    /\ store[workerDriver.driver][workerDriver.queue] # <<>>
    /\ store' = [store EXCEPT ![workerDriver.driver][workerDriver.queue] = Tail(@)]
    /\ ExecuteJob(Head(store[workerDriver.driver][workerDriver.queue]))
    /\ UNCHANGED <<drivers, chosen, registered, workerDriver, sleeping, made>>

(* The rest of executeJob and processJob. A job that names a retry delay of    *)
(* zero or less goes to Push at once.                                          *)
WorkerHandled(ok, delay) ==
    LET here == goroutine[Poller]
        payload == here.payload
        retry == ~ok /\ payload.attempts < Retries[payload.job]
    IN
    /\ here.at = "working"
    /\ history' = [history EXCEPT ![payload.job] =
          [handled |-> @.handled + 1,
           ended |-> IF ok THEN "done" ELSE IF retry THEN "under way" ELSE "reported"]]
    /\ \/ ~retry /\ Return(Poller) /\ UNCHANGED <<store, sleeping>>
       \/ retry /\ delay > 0 /\ PushDelayed(Poller, here.driver, here.queue, payload)
       \/ retry /\ delay = 0 /\ Push(Poller, here.driver, here.queue, payload)
    /\ UNCHANGED <<drivers, chosen, registered, workerDriver, made>>

(* Clear empties the queue of the default driver.                              *)
Clear(q) ==
    /\ store[DefaultDriver][q] # <<>>
    /\ store' = [store EXCEPT ![DefaultDriver][q] = <<>>]
    /\ LET gone == {p.job : p \in ToSet(store[DefaultDriver][q])}
       IN  history' = [j \in Job |-> IF j \in gone THEN [history[j] EXCEPT !.ended = "cleared"]
                                     ELSE history[j]]
    /\ UNCHANGED <<drivers, chosen, registered, goroutine, workerDriver, sleeping, made>>

JobDispatchNext ==
    \/ \E name \in {"sync", "memory"}, q \in Queue \cup {NoQueue} : Bootstrap(name, q)
    \/ \E j \in Job : RegisterJob(j)
    \/ \E g \in Caller, q \in Queue \cup {NoQueue}, j \in Job :
          DispatchTo(g, q, j) \/ \E delay \in 0..1 : LaterTo(g, q, delay, j)
    \/ \E g \in Caller \cup {Poller} :
          TimerFires(g) \/ ContextEnds(g) \/ \E ok \in BOOLEAN : SyncHandled(g, ok)
    \/ \E d \in sleeping : MemoryDelivers(d)
    \/ \E q \in Queue : NewWorker(q) \/ Clear(q)
    \/ Pop
    \/ \E ok \in BOOLEAN, delay \in 0..1 : WorkerHandled(ok, delay)

JobDispatchSpec == JobDispatchInit /\ [][JobDispatchNext]_jobDispatchVars

-------------------------------------------------------------------------------
(* Where a job is: queued in any driver, asleep in the memory driver, or held  *)
(* by a goroutine.                                                             *)
Copies(j) ==
    Cardinality({s \in Objects \X Queue \X (1..Cardinality(Job)) :
        s[3] \in DOMAIN store[s[1]][s[2]] /\ store[s[1]][s[2]][s[3]].job = j})
    + Cardinality({d \in sleeping : d.payload.job = j})
    + Cardinality({g \in DOMAIN goroutine : goroutine[g].payload.job = j})

(* A job under way is in one place only, and one that ended is nowhere: no     *)
(* interleaving of callers and worker loses or doubles it.                     *)
JobInOnePlace ==
    \A j \in Job : Copies(j) = IF history[j].ended = "under way" THEN 1 ELSE 0

(* A job is handled at most once more than its MaxRetries allows, however      *)
(* often it goes back and forth between the worker and the synchronous driver, *)
(* which both count. It is reported as failed only when the retries are used   *)
(* up, and the worker, which drops what its own PushDelayed answers, never     *)
(* loses a failed job that way unless its context ended.                       *)
RetriesBounded ==
    \A j \in Job :
        LET r == Retries[j] IN
        /\ history[j].handled <= r + 1
        /\ history[j].ended = "reported" /\ history[j].handled > 0 => history[j].handled >= r
        /\ history[j].ended # "lost"

JobsSound == JobInOnePlace /\ RetriesBounded
===============================================================================
