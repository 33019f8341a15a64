--------------------------- MODULE WorkerPoolProofs ---------------------------
(* Stopping a worker is safe for any number of callers and goroutines.     *)
EXTENDS WorkerPool, TLAPS

USE PoolAssumption

(* The invariant holds before the worker is started. *)
LEMMA InitInv == Init => Inv
<1> SUFFICES ASSUME Init PROVE Inv
    OBVIOUS
<1>1. /\ running = FALSE /\ stopping = FALSE /\ canceled = FALSE
      /\ closed = FALSE /\ starts = 0
      BY DEF Init
<1>2. /\ work = [g \in Goroutine |-> "exited"]
      /\ processed = [g \in Goroutine |-> 0]
      /\ call = [c \in Caller |-> "none"]
      /\ at = [c \in Caller |-> "idle"]
      BY DEF Init
<1>3. TypeOK
      BY <1>1, <1>2 DEF TypeOK
<1>4. StoppedIsQuiet
      BY <1>1, <1>2 DEF StoppedIsQuiet, AllDone
<1>5. CallShape
      BY <1>2 DEF CallShape
<1> QED BY <1>3, <1>4, <1>5 DEF Inv

(* The types survive every step. *)
LEMMA NextType == TypeOK /\ [Next]_vars => TypeOK'
<1> SUFFICES ASSUME TypeOK, [Next]_vars PROVE TypeOK'
    OBVIOUS
<1> USE DEF TypeOK, state
<1>1. ASSUME NEW c \in Caller, Start(c) PROVE TypeOK'
  <2>1. /\ work' \in [Goroutine -> {"exited", "top", "polling", "busy"}]
        /\ processed' \in [Goroutine -> Nat]
        /\ starts' \in Nat
        BY <1>1 DEF Start
  <2>2. /\ running' \in BOOLEAN /\ stopping' \in BOOLEAN
        /\ canceled' \in BOOLEAN /\ closed' \in BOOLEAN
        /\ call' = call /\ at' = at
        BY <1>1 DEF Start
  <2> QED BY <2>1, <2>2
<1>2. ASSUME NEW c \in Caller, StopBegin(c) PROVE TypeOK'
      BY <1>2 DEF StopBegin
<1>3. ASSUME NEW c \in Caller, WaitBegin(c) PROVE TypeOK'
      BY <1>3 DEF WaitBegin
<1>4. ASSUME NEW c \in Caller, CallerStep(c) PROVE TypeOK'
      BY <1>4 DEF CallerStep, StopCancel, WaitGroupWait, WaitGroupResume, StopEnd,
                  Waited
<1>5. ASSUME NEW g \in Goroutine, WorkStep(g) PROVE TypeOK'
      BY <1>5 DEF WorkStep, Top, PollFails, JobEnds, Exit
<1>6. ASSUME NEW g \in Goroutine, TakeJob(g) PROVE TypeOK'
      BY <1>6 DEF TakeJob
<1>7. CASE CancelParent \/ CloseDriver
      BY <1>7 DEF CancelParent, CloseDriver
<1>8. CASE UNCHANGED vars
      BY <1>8 DEF vars
<1> QED BY <1>1, <1>2, <1>3, <1>4, <1>5, <1>6, <1>7, <1>8 DEF Next

(* A caller's own step: the Stop that stops the worker is the only one, so *)
(* the run it waits for cannot be replaced under it.                       *)
LEMMA CallerInv ==
  ASSUME Inv, TypeOK', NEW c \in Caller,
         Start(c) \/ StopBegin(c) \/ WaitBegin(c) \/ CallerStep(c)
  PROVE  StoppedIsQuiet' /\ CallShape'
<1> USE DEF Inv, TypeOK, StoppedIsQuiet, CallShape, AllDone, state
<1>1. CASE Start(c)
      BY <1>1 DEF Start
<1>2. CASE StopBegin(c)
      BY <1>2 DEF StopBegin
<1>3. CASE WaitBegin(c)
      BY <1>3 DEF WaitBegin
<1>4. CASE StopCancel(c)
      BY <1>4 DEF StopCancel
<1>5. CASE WaitGroupWait(c)
      BY <1>5 DEF WaitGroupWait, Waited
<1>6. CASE WaitGroupResume(c)
      BY <1>6 DEF WaitGroupResume, Waited
<1>7. CASE StopEnd(c)
      BY <1>7 DEF StopEnd
<1> QED BY <1>1, <1>2, <1>3, <1>4, <1>5, <1>6, <1>7 DEF CallerStep

(* A goroutine that ends wakes the sleepers only when it is the last one.  *)
LEMMA ExitInv ==
  ASSUME Inv, TypeOK', NEW g \in Goroutine, work[g] # "exited", Exit(g),
         UNCHANGED <<running, stopping, canceled, closed, processed, call, starts>>
  PROVE  StoppedIsQuiet' /\ CallShape'
BY DEF Inv, TypeOK, StoppedIsQuiet, CallShape, AllDone, Exit

(* A goroutine's step. *)
LEMMA WorkInv ==
  ASSUME Inv, TypeOK', NEW g \in Goroutine, WorkStep(g) \/ TakeJob(g)
  PROVE  StoppedIsQuiet' /\ CallShape'
<1>1. CASE work[g] # "exited" /\ Exit(g)
           /\ UNCHANGED <<running, stopping, canceled, closed, processed, call,
                          starts>>
      BY <1>1, ExitInv
<1>2. CASE /\ work[g] # "exited"
           /\ \E s \in {"top", "polling", "busy"} : work' = [work EXCEPT ![g] = s]
           /\ UNCHANGED <<running, stopping, canceled, call, at>>
      BY <1>2 DEF Inv, TypeOK, StoppedIsQuiet, CallShape, AllDone
<1> QED BY <1>1, <1>2 DEF WorkStep, Top, PollFails, JobEnds, TakeJob

(* Every reachable state of a worker satisfies the invariant. *)
THEOREM Invariance == Spec => []Inv
<1>1. Inv /\ [Next]_vars => Inv'
  <2> SUFFICES ASSUME Inv, [Next]_vars PROVE Inv'
      OBVIOUS
  <2>1. TypeOK'
        BY NextType DEF Inv
  <2>2. CASE \E c \in Caller : \/ Start(c) \/ StopBegin(c) \/ WaitBegin(c)
                               \/ CallerStep(c)
        BY <2>1, <2>2, CallerInv DEF Inv
  <2>3. CASE \E g \in Goroutine : WorkStep(g) \/ TakeJob(g)
        BY <2>1, <2>3, WorkInv DEF Inv
  <2>4. CASE CancelParent \/ CloseDriver \/ UNCHANGED vars
        BY <2>1, <2>4 DEF CancelParent, CloseDriver, vars, Inv, TypeOK,
                          StoppedIsQuiet, CallShape, AllDone
  <2> QED BY <2>2, <2>3, <2>4 DEF Next
<1> QED BY <1>1, InitInv, PTL DEF Spec

(* When Worker.running is false no goroutine of the worker is left, and    *)
(* the Stop in charge never meets a run it did not stop.                   *)
THEOREM StopIsClean == Spec => []StoppedIsQuiet
<1>1. Inv => StoppedIsQuiet
      BY DEF Inv
<1> QED BY <1>1, Invariance, PTL
=============================================================================
