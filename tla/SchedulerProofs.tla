--------------------------- MODULE SchedulerProofs ---------------------------
(* The overlap guard works for any number of events, loops and Runs.       *)
EXTENDS Scheduler, TLAPS

USE SchedulerAssumption

(* The invariant holds in the initial state. *)
LEMMA InitInv == Init => Inv
<1> SUFFICES ASSUME Init PROVE Inv
    OBVIOUS
<1>1. /\ pc = [r \in Runner |-> "idle"]
      /\ current = [r \in Runner |-> {}]
      /\ todo = [r \in Runner |-> {}]
      /\ seen = [r \in Runner |-> 0]
      /\ waits = [r \in Runner |-> 0]
      /\ background = [e \in Event |-> 0]
      /\ stop = 0 /\ cancels = 0 /\ events = {}
      BY DEF Init
<1>2. /\ running \in BOOLEAN
      /\ looping \in [Runner -> BOOLEAN]
      /\ canceled \in [Runner -> BOOLEAN]
      /\ flag \in [Event -> BOOLEAN]
      /\ \A e \in Event : ~flag[e]
      BY DEF Init
<1>3. TypeOK
      BY <1>1, <1>2 DEF TypeOK
<1>4. RunnerInRun /\ ChannelsExist
      BY <1>1 DEF RunnerInRun, ChannelsExist
<1>5. FlagGuardsRun
      BY <1>1, <1>2 DEF FlagGuardsRun
<1> QED BY <1>3, <1>4, <1>5 DEF Inv

(* The types survive every step. *)
LEMMA NextType == TypeOK /\ [Next]_vars => TypeOK'
<1> SUFFICES ASSUME TypeOK, [Next]_vars PROVE TypeOK'
    OBVIOUS
<1> USE DEF TypeOK, Goto
<1>1. ASSUME NEW e \in Event, Register(e) \/ BackgroundEnds(e) PROVE TypeOK'
  <2>1. CASE Register(e)
        BY <2>1 DEF Register
  <2>2. CASE BackgroundEnds(e)
    <3>1. background' \in [Event -> Nat]
          BY <2>2 DEF BackgroundEnds
    <3> QED BY <2>2, <3>1 DEF BackgroundEnds
  <2> QED BY <1>1, <2>1, <2>2
<1>2. CASE Clear \/ Stop
  <2>1. CASE Clear
        BY <2>1 DEF Clear
  <2>2. CASE Stop
    <3>1. running' \in BOOLEAN
          BY <2>2 DEF Stop
    <3>2. stop' \in Nat
          BY <2>2 DEF Stop
    <3> QED BY <2>2, <3>1, <3>2 DEF Stop
  <2> QED BY <1>2, <2>1, <2>2
<1>3. ASSUME NEW r \in Runner, Start(r) \/ RunOnce(r) \/ CancelContext(r)
      PROVE  TypeOK'
  <2>1. CASE Start(r)
    <3>1. /\ looping' \in [Runner -> BOOLEAN]
          /\ canceled' \in [Runner -> BOOLEAN]
          /\ running' \in BOOLEAN
          BY <2>1 DEF Start
    <3>2. seen' \in [Runner -> Nat]
          BY <2>1 DEF Start
    <3> QED BY <2>1, <3>1, <3>2 DEF Start
  <2>2. CASE RunOnce(r)
        BY <2>2 DEF RunOnce
  <2>3. CASE CancelContext(r)
    <3>1. cancels' \in Nat
          BY <2>3 DEF CancelContext
    <3> QED BY <2>3, <3>1 DEF CancelContext
  <2> QED BY <1>3, <2>1, <2>2, <2>3
<1>4. ASSUME NEW r \in Runner, DueEvents(r) PROVE TypeOK'
      BY <1>4 DEF DueEvents
<1>5. ASSUME NEW r \in Runner, NEW e \in Event, EventBegin(r, e) PROVE TypeOK'
  <2>1. flag' \in [Event -> BOOLEAN]
    <3>1. (e \in WithoutOverlap) \in BOOLEAN
          OBVIOUS
    <3>2. \/ flag' = flag
          \/ flag' = [flag EXCEPT ![e] = e \in WithoutOverlap]
          BY <1>5 DEF EventBegin
    <3> QED BY <3>1, <3>2, Zenon
  <2>2. /\ todo' \in [Runner -> SUBSET Event]
        /\ current' \in [Runner -> SUBSET Event]
        BY <1>5 DEF EventBegin
  <2> QED BY <1>5, <2>1, <2>2 DEF EventBegin
<1>6. ASSUME NEW r \in Runner, TaskStep(r) PROVE TypeOK'
      BY <1>6 DEF TaskStep
<1>7. ASSUME NEW r \in Runner, EventEnd(r) PROVE TypeOK'
      BY <1>7 DEF EventEnd
<1>8. ASSUME NEW r \in Runner, RunEnds(r) PROVE TypeOK'
      BY <1>8 DEF RunEnds
<1>9. ASSUME NEW r \in Runner, Tick(r) \/ LoopReturns(r) PROVE TypeOK'
      BY <1>9 DEF Tick, LoopReturns
<1>10. CASE UNCHANGED vars
      BY <1>10 DEF vars
<1> QED BY <1>1, <1>2, <1>3, <1>4, <1>5, <1>6, <1>7, <1>8, <1>9, <1>10
        DEF Next, RunnerStep

(* A runner is in Event.Run exactly from the guard to the deferred reset,  *)
(* and waits on a channel that exists.                                     *)
LEMMA NextShape ==
  ASSUME Inv, TypeOK', [Next]_vars
  PROVE  RunnerInRun' /\ ChannelsExist'
<1> USE DEF Inv, TypeOK, RunnerInRun, ChannelsExist, Goto
<1>1. ASSUME NEW e \in Event, Register(e) \/ BackgroundEnds(e)
      PROVE  RunnerInRun' /\ ChannelsExist'
      BY <1>1 DEF Register, BackgroundEnds
<1>2. CASE Clear \/ Stop
      BY <1>2 DEF Clear, Stop
<1>3. ASSUME NEW r \in Runner, Start(r) \/ RunOnce(r) \/ CancelContext(r)
      PROVE  RunnerInRun' /\ ChannelsExist'
      BY <1>3 DEF Start, RunOnce, CancelContext
<1>4. ASSUME NEW r \in Runner, DueEvents(r)
      PROVE  RunnerInRun' /\ ChannelsExist'
      BY <1>4 DEF DueEvents
<1>5. ASSUME NEW r \in Runner, NEW e \in Event, EventBegin(r, e)
      PROVE  RunnerInRun' /\ ChannelsExist'
  <2>1. ChannelsExist'
    BY <1>5 DEF EventBegin
  <2>2. CASE UNCHANGED <<pc, current>>
    BY <2>1, <2>2
  <2>3. CASE /\ current' = [current EXCEPT ![r] = {e}]
             /\ pc' = [pc EXCEPT ![r] = "task"]
    <3>1. ASSUME NEW q \in Runner \ {r}
          PROVE  pc'[q] = pc[q] /\ current'[q] = current[q]
      BY <2>3, <3>1
    <3>2. pc'[r] = "task" /\ current'[r] = {e}
      BY <2>3
    <3>3. ASSUME NEW q \in Runner
          PROVE  /\ pc'[q] \in {"task", "end"} <=> current'[q] # {}
                 /\ \A d, f \in current'[q] : d = f
      <4>1. CASE q = r
        BY <3>2, <4>1
      <4>2. CASE q # r
        BY <3>1, <4>2
      <4> QED
        BY <4>1, <4>2
    <3> QED
      BY <2>1, <3>3
  <2> QED
    BY <1>5, <2>2, <2>3 DEF EventBegin
<1>6. ASSUME NEW r \in Runner, TaskStep(r)
      PROVE  RunnerInRun' /\ ChannelsExist'
      BY <1>6 DEF TaskStep
<1>7. ASSUME NEW r \in Runner, EventEnd(r)
      PROVE  RunnerInRun' /\ ChannelsExist'
      BY <1>7 DEF EventEnd
<1>8. ASSUME NEW r \in Runner, RunEnds(r)
      PROVE  RunnerInRun' /\ ChannelsExist'
      BY <1>8 DEF RunEnds
<1>9. ASSUME NEW r \in Runner, Tick(r) \/ LoopReturns(r)
      PROVE  RunnerInRun' /\ ChannelsExist'
      BY <1>9 DEF Tick, LoopReturns
<1>10. CASE UNCHANGED vars
      BY <1>10 DEF vars
<1> QED BY <1>1, <1>2, <1>3, <1>4, <1>5, <1>6, <1>7, <1>8, <1>9, <1>10
        DEF Next, RunnerStep

(* Entering Event.Run: only with the flag down, and then nobody is in it.  *)
LEMMA BeginGuarded ==
  ASSUME Inv, TypeOK', NEW r \in Runner, NEW e \in Event, EventBegin(r, e)
  PROVE  FlagGuardsRun'
<1> USE DEF Inv, TypeOK, FlagGuardsRun, RunnerInRun
<1>1. current[r] = {}
      BY DEF EventBegin
<1>2. CASE UNCHANGED <<flag, current>>
      BY <1>2
<1>3. CASE /\ ~(e \in WithoutOverlap /\ flag[e])
           /\ flag' = [flag EXCEPT ![e] = e \in WithoutOverlap]
           /\ current' = [current EXCEPT ![r] = {e}]
  <2> SUFFICES ASSUME NEW f \in WithoutOverlap
               PROVE  /\ \A p, q \in Runner :
                           (f \in current'[p] /\ f \in current'[q]) => p = q
                      /\ flag'[f] <=> \E q \in Runner : f \in current'[q]
      OBVIOUS
  <2>1. CASE f = e
    <3>1. \A q \in Runner : e \notin current[q]
          BY <1>3, <2>1
    <3>2. \A q \in Runner : e \in current'[q] <=> q = r
          BY <1>3, <3>1
    <3>3. flag'[e]
          BY <1>3, <2>1
    <3> QED BY <2>1, <3>2, <3>3
  <2>2. CASE f # e
        BY <1>1, <1>3, <2>2
  <2> QED BY <2>1, <2>2
<1> QED BY <1>2, <1>3 DEF EventBegin

(* Leaving Event.Run: the one that leaves is the one the flag stands for.  *)
LEMMA EndGuarded ==
  ASSUME Inv, TypeOK', NEW r \in Runner, EventEnd(r)
  PROVE  FlagGuardsRun'
<1> USE DEF Inv, TypeOK, FlagGuardsRun
<1> SUFFICES ASSUME NEW f \in WithoutOverlap
             PROVE  /\ \A p, q \in Runner :
                         (f \in current'[p] /\ f \in current'[q]) => p = q
                    /\ flag'[f] <=> \E q \in Runner : f \in current'[q]
    OBVIOUS
<1>1. CASE f \in current[r]
      BY <1>1 DEF EventEnd
<1>2. CASE f \notin current[r]
      BY <1>2 DEF EventEnd
<1> QED BY <1>1, <1>2

(* Every reachable state of the scheduler satisfies the invariant. *)
THEOREM Invariance == Spec => []Inv
<1>1. Inv /\ [Next]_vars => Inv'
  <2> SUFFICES ASSUME Inv, [Next]_vars PROVE Inv'
      OBVIOUS
  <2>1. TypeOK'
        BY NextType DEF Inv
  <2>2. RunnerInRun' /\ ChannelsExist'
        BY <2>1, NextShape
  <2>3. FlagGuardsRun'
    <3>1. CASE UNCHANGED <<flag, current>>
          BY <3>1 DEF Inv, FlagGuardsRun
    <3>2. CASE \E r \in Runner, e \in Event : EventBegin(r, e)
          BY <2>1, <3>2, BeginGuarded
    <3>3. CASE \E r \in Runner : EventEnd(r)
          BY <2>1, <3>3, EndGuarded
    <3> QED BY <3>1, <3>2, <3>3 DEF Next, vars, RunnerStep, Register,
              BackgroundEnds, Clear, Stop, Start, RunOnce, CancelContext,
              DueEvents, TaskStep, RunEnds, Tick, LoopReturns
  <2> QED BY <2>1, <2>2, <2>3 DEF Inv
<1> QED BY <1>1, InitInv, PTL DEF Spec

(* Event.running is set exactly while one Event.Run of the event is under  *)
(* way, so a WithoutOverlapping event is never in two of them.             *)
THEOREM OverlapGuarded == Spec => []FlagGuardsRun
<1>1. Inv => FlagGuardsRun
      BY DEF Inv
<1> QED BY <1>1, Invariance, PTL
=============================================================================
