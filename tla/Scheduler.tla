------------------------------ MODULE Scheduler ------------------------------
(***************************************************************************)
(* The in-process scheduler: Scheduler.Start, Run and Stop, and Event.Run  *)
(* with its overlap guard and its background mode                          *)
(* (api/internal/capabilities/workflow/scheduler.go).                      *)
(*                                                                         *)
(* s.stop is a channel that Stop closes and replaces; channel k stands for *)
(* the k-th one, so the channels below stop are closed.  Start's loop      *)
(* reads s.stop without the lock each time it enters its select: a read    *)
(* that races with Stop may return any channel written since the loop last *)
(* took the lock, in DueEvents.                                            *)
(***************************************************************************)
EXTENDS Naturals, FiniteSets

CONSTANTS
  Event,           \* events
  WithoutOverlap,  \* the ones built with WithoutOverlapping()
  InBackground,    \* the ones built with RunInBackground()
  Runner,          \* goroutines that call Start or Run
  MaxStops,        \* bound: calls of Stop that find the scheduler running
  MaxBackground,   \* bound: background executions of an event at a time
  MaxCancels       \* bound: contexts canceled

ASSUME SchedulerAssumption ==
  /\ WithoutOverlap \subseteq Event
  /\ InBackground \subseteq Event
  /\ MaxStops \in Nat
  /\ MaxBackground \in Nat
  /\ MaxCancels \in Nat

VARIABLES
  events,     \* registered events
  running,    \* Scheduler.running
  stop,       \* the index of the channel s.stop
  pc,         \* what each runner is about to do
  looping,    \* the runner is in Start, not in a Run of its own
  canceled,   \* the runner's context is canceled
  todo,       \* due events the runner has yet to run
  current,    \* the event whose Run the runner is in, as a set
  seen,       \* s.stop when the runner last held the lock
  waits,      \* the channel of the runner's select
  flag,       \* Event.running
  background, \* background executions of each event
  cancels     \* contexts canceled, for MaxCancels

vars == <<events, running, stop, pc, looping, canceled, todo, current, seen,
          waits, flag, background, cancels>>

Init ==
  /\ events = {}
  /\ running = FALSE
  /\ stop = 0
  /\ pc = [r \in Runner |-> "idle"]
  /\ looping = [r \in Runner |-> FALSE]
  /\ canceled = [r \in Runner |-> FALSE]
  /\ todo = [r \in Runner |-> {}]
  /\ current = [r \in Runner |-> {}]
  /\ seen = [r \in Runner |-> 0]
  /\ waits = [r \in Runner |-> 0]
  /\ flag = [e \in Event |-> FALSE]
  /\ background = [e \in Event |-> 0]
  /\ cancels = 0

Goto(r, label) == pc' = [pc EXCEPT ![r] = label]

-----------------------------------------------------------------------------
(* Registration and control.                                               *)

Register(e) ==
  /\ e \notin events
  /\ events' = events \cup {e}
  /\ UNCHANGED <<running, stop, pc, looping, canceled, todo, current, seen,
                 waits, flag, background, cancels>>

Clear ==
  /\ events # {}
  /\ events' = {}
  /\ UNCHANGED <<running, stop, pc, looping, canceled, todo, current, seen,
                 waits, flag, background, cancels>>

(* Start, unless the scheduler runs: then it returns at once. *)
Start(r) ==
  /\ pc[r] = "idle" /\ ~running
  /\ running' = TRUE
  /\ looping' = [looping EXCEPT ![r] = TRUE]
  /\ canceled' = [canceled EXCEPT ![r] = FALSE]
  /\ seen' = [seen EXCEPT ![r] = stop]
  /\ Goto(r, "due")
  /\ UNCHANGED <<events, stop, todo, current, waits, flag, background, cancels>>

(* Run called by itself. *)
RunOnce(r) ==
  /\ pc[r] = "idle"
  /\ Goto(r, "due")
  /\ canceled' = [canceled EXCEPT ![r] = FALSE]
  /\ UNCHANGED <<events, running, stop, looping, todo, current, seen, waits,
                 flag, background, cancels>>

Stop ==
  /\ running
  /\ stop < MaxStops
  /\ running' = FALSE
  /\ stop' = stop + 1
  /\ UNCHANGED <<events, pc, looping, canceled, todo, current, seen, waits,
                 flag, background, cancels>>

CancelContext(r) ==
  /\ pc[r] # "idle" /\ ~canceled[r]
  /\ cancels < MaxCancels
  /\ cancels' = cancels + 1
  /\ canceled' = [canceled EXCEPT ![r] = TRUE]
  /\ UNCHANGED <<events, running, stop, pc, looping, todo, current, seen,
                 waits, flag, background>>

-----------------------------------------------------------------------------
(* Run.                                                                    *)

(* DueEvents: the registered events whose fields match the time. *)
DueEvents(r) ==
  /\ pc[r] = "due"
  /\ \E due \in SUBSET events : todo' = [todo EXCEPT ![r] = due]
  /\ seen' = [seen EXCEPT ![r] = stop]
  /\ Goto(r, "next")
  /\ UNCHANGED <<events, running, stop, looping, canceled, current, waits,
                 flag, background, cancels>>

(* Mutant of EventBegin: the flag is set without being looked at. *)
EventBeginUnguarded(r, e) ==
  /\ pc[r] = "next" /\ e \in todo[r]
  /\ todo' = [todo EXCEPT ![r] = @ \ {e}]
  /\ flag' = [flag EXCEPT ![e] = e \in WithoutOverlap]
  /\ current' = [current EXCEPT ![r] = {e}]
  /\ Goto(r, "task")
  /\ UNCHANGED <<events, running, stop, looping, canceled, seen, waits,
                 background, cancels>>

(* Event.Run up to the task: with the flag set the event is skipped. *)
EventBegin(r, e) ==
  /\ pc[r] = "next" /\ e \in todo[r]
  /\ todo' = [todo EXCEPT ![r] = @ \ {e}]
  /\ \/ e \in WithoutOverlap /\ flag[e] /\ UNCHANGED <<pc, current, flag>>
     \/ /\ ~(e \in WithoutOverlap /\ flag[e])
        /\ flag' = [flag EXCEPT ![e] = e \in WithoutOverlap]
        /\ current' = [current EXCEPT ![r] = {e}]
        /\ Goto(r, "task")
  /\ UNCHANGED <<events, running, stop, looping, canceled, seen, waits,
                 background, cancels>>

(* The task returns, with or without an error, or goes to the background.  *)
TaskStep(r) ==
  /\ pc[r] = "task"
  /\ \/ current[r] \cap InBackground = {} /\ UNCHANGED background
     \/ \E e \in current[r] \cap InBackground :
          /\ background[e] < MaxBackground
          /\ background' = [background EXCEPT ![e] = @ + 1]
  /\ Goto(r, "end")
  /\ UNCHANGED <<events, running, stop, looping, canceled, todo, current, seen,
                 waits, flag, cancels>>

(* The goroutine of a background execution ends. *)
BackgroundEnds(e) ==
  /\ background[e] > 0
  /\ background' = [background EXCEPT ![e] = @ - 1]
  /\ UNCHANGED <<events, running, stop, pc, looping, canceled, todo, current,
                 seen, waits, flag, cancels>>

(* Mutant of EventEnd: the flag is not reset. *)
EventEndKeepsFlag(r) ==
  /\ pc[r] = "end"
  /\ current' = [current EXCEPT ![r] = {}]
  /\ Goto(r, "next")
  /\ UNCHANGED <<events, running, stop, looping, canceled, todo, seen, waits,
                 flag, background, cancels>>

(* Event.Run after the task: the deferred reset of the flag. *)
EventEnd(r) ==
  /\ pc[r] = "end"
  /\ flag' = [e \in Event |->
                IF e \in current[r] \cap WithoutOverlap THEN FALSE ELSE flag[e]]
  /\ current' = [current EXCEPT ![r] = {}]
  /\ Goto(r, "next")
  /\ UNCHANGED <<events, running, stop, looping, canceled, todo, seen, waits,
                 background, cancels>>

(* Run has no event left: a Run of its own returns, Start enters its       *)
(* select with whatever channel it reads.                                  *)
RunEnds(r) ==
  /\ pc[r] = "next" /\ todo[r] = {}
  /\ \/ ~looping[r] /\ Goto(r, "idle") /\ UNCHANGED waits
     \/ /\ looping[r]
        /\ \E k \in seen[r]..stop : waits' = [waits EXCEPT ![r] = k]
        /\ Goto(r, "select")
  /\ UNCHANGED <<events, running, stop, looping, canceled, todo, current, seen,
                 flag, background, cancels>>

(* The select of Start: any case that is ready, the ticker's being so      *)
(* every minute.                                                           *)
Tick(r) ==
  /\ pc[r] = "select"
  /\ Goto(r, "due")
  /\ UNCHANGED <<events, running, stop, looping, canceled, todo, current, seen,
                 waits, flag, background, cancels>>

(* Its other cases: the loop returns and leaves Scheduler.running alone.   *)
LoopReturns(r) ==
  /\ pc[r] = "select"
  /\ canceled[r] \/ waits[r] < stop
  /\ Goto(r, "idle")
  /\ looping' = [looping EXCEPT ![r] = FALSE]
  /\ UNCHANGED <<events, running, stop, canceled, todo, current, seen, waits,
                 flag, background, cancels>>

-----------------------------------------------------------------------------
RunnerStep(r) ==
  \/ DueEvents(r) \/ TaskStep(r) \/ EventEnd(r) \/ RunEnds(r) \/ Tick(r)
  \/ LoopReturns(r)
  \/ \E e \in Event : EventBegin(r, e)

Next ==
  \/ \E e \in Event : Register(e) \/ BackgroundEnds(e)
  \/ Clear \/ Stop
  \/ \E r \in Runner :
       Start(r) \/ RunOnce(r) \/ CancelContext(r) \/ RunnerStep(r)

Spec == Init /\ [][Next]_vars

(* Tasks return, the Go scheduler runs every runnable goroutine, and       *)
(* select picks at random among the cases that are ready, so one that is   *)
(* ready again and again is picked.                                        *)
Fairness ==
  /\ \A r \in Runner : WF_vars(RunnerStep(r)) /\ SF_vars(LoopReturns(r))
  /\ \A e \in Event : WF_vars(BackgroundEnds(e))

FairSpec == Spec /\ Fairness

-----------------------------------------------------------------------------
(* Properties.                                                             *)

TypeOK ==
  /\ events \in SUBSET Event
  /\ running \in BOOLEAN
  /\ stop \in Nat
  /\ pc \in [Runner -> {"idle", "due", "next", "task", "end", "select"}]
  /\ looping \in [Runner -> BOOLEAN]
  /\ canceled \in [Runner -> BOOLEAN]
  /\ todo \in [Runner -> SUBSET Event]
  /\ current \in [Runner -> SUBSET Event]
  /\ seen \in [Runner -> Nat]
  /\ waits \in [Runner -> Nat]
  /\ flag \in [Event -> BOOLEAN]
  /\ background \in [Event -> Nat]
  /\ cancels \in Nat

(* An event built with WithoutOverlapping is in one Event.Run at a time,   *)
(* however many loops and Runs call it, and its flag is set exactly        *)
(* meanwhile: a skipped call neither clears the flag of the one that runs  *)
(* nor leaves it set for good.                                             *)
FlagGuardsRun ==
  \A e \in WithoutOverlap :
    /\ \A r, q \in Runner : (e \in current[r] /\ e \in current[q]) => r = q
    /\ flag[e] <=> \E r \in Runner : e \in current[r]

(* A skipped event is not skipped for ever: the flag that made a Run skip  *)
(* it is reset.                                                            *)
OverlapGuardReleased == \A e \in WithoutOverlap : flag[e] ~> ~flag[e]

(* The task the runner itself executes. *)
Foreground(r) == IF pc[r] = "task" THEN current[r] \ InBackground ELSE {}

(* What WithoutOverlapping promises: the event has one execution at most,  *)
(* in the foreground or in the background. It does not hold of an event    *)
(* that is in the background mode as well (README, section 5).             *)
NoOverlap ==
  \A e \in WithoutOverlap :
    background[e] + Cardinality({r \in Runner : e \in Foreground(r)}) <= 1

(* What Stop promises: once it has returned, Start's loop ends, unless the *)
(* scheduler is started again.                                             *)
StopStops == ~running ~> (running \/ \A r \in Runner : ~looping[r])

-----------------------------------------------------------------------------
(* The inductive invariant behind FlagGuardsRun.                           *)

RunnerInRun ==
  \A r \in Runner :
    /\ pc[r] \in {"task", "end"} <=> current[r] # {}
    /\ \A e, f \in current[r] : e = f

(* Nobody waits on a channel that s.stop has never been. *)
ChannelsExist == \A r \in Runner : seen[r] <= stop /\ waits[r] <= stop

Inv == TypeOK /\ RunnerInRun /\ ChannelsExist /\ FlagGuardsRun
=============================================================================
