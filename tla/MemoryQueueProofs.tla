--------------------------- MODULE MemoryQueueProofs ---------------------------
(* The in-memory queue is sound for every capacity, retry limit and set of     *)
(* producers and workers.                                                      *)
EXTENDS MemoryQueue, FiniteSetTheorems, TLAPS

(***************************************************************************)
(* The inductive invariant.                                                *)
(***************************************************************************)

Label == {"free", "idle", "exited", "enqueue", "waitFull", "slot", "slotHeld", "sleeping",
          "dequeue", "waitEmpty", "handling"}
Operating == {"enqueue", "waitFull", "slot", "slotHeld", "sleeping", "dequeue", "waitEmpty"}

(* Where a goroutine of each kind may be. *)
At(x) ==
  IF x \in Delivery THEN {"free", "sleeping", "enqueue", "waitFull"}
  ELSE IF x \in Worker THEN Label \ {"free", "sleeping"}
  ELSE {"idle", "enqueue", "waitFull", "slot", "slotHeld"}

(* Control: a context is canceled only by CancelContext. *)
ControlInv ==
  /\ pc \in [Process -> Label] /\ \A x \in Process : pc[x] \in At(x)
  /\ job \in [Process -> Job]
  /\ driver \in {"open", "closing", "released"}
  /\ canceled \in [Process -> BOOLEAN]
  /\ origin \in [Delivery -> SUBSET Worker]
  /\ pushed \in 0 .. MaxJobs /\ cancels \in 0 .. MaxCancels
  /\ cancels = 0 => \A x \in Process : ~canceled[x]

(* The ring. *)
RingInv ==
  /\ items \in [0 .. (Capacity - 1) -> Job]
  /\ head \in 0 .. (Capacity - 1)
  /\ size \in 0 .. Capacity
  /\ fifo \in Seq(Job)
  /\ RingIsFIFO

(* The tokens of delayedSlots: those of running deliveries, and those that *)
(* were taken a moment ago, of which there are finitely many.              *)
Busy == {d \in Delivery : pc[d] # "free"}
Held == {x \in Producer \cup Worker : pc[x] = "slotHeld"}
SlotsInv ==
  slots \in 0 .. Capacity /\ IsFiniteSet(Held) /\ slots = Cardinality(Busy) + Cardinality(Held)

SignalsInv == notEmpty \in BOOLEAN /\ notFull \in BOOLEAN /\ SignalsTruthful

QueueInv ==
  ControlInv /\ RingInv /\ SlotsInv /\ SignalsInv /\ NothingAfterClose /\ WakeupsKept

-----------------------------------------------------------------------------
(* Remainders around the ring.                                             *)

(* Below the divisor, a number is its own remainder. *)
LEMMA ModSmall ==
  ASSUME NEW C \in Nat \ {0}, NEW x \in 0 .. C - 1
  PROVE  x % C = x
OBVIOUS

(* Once around. *)
LEMMA ModWrap ==
  ASSUME NEW C \in Nat \ {0}, NEW x \in C .. 2 * C - 1
  PROVE  x % C = x - C
OBVIOUS

Around(h, i) == IF h + i < Capacity THEN h + i ELSE h + i - Capacity

(* The index of the item i places behind h. *)
LEMMA RingIndex ==
  ASSUME NEW h \in 0 .. (Capacity - 1), NEW i \in 0 .. Capacity
  PROVE  (h + i) % Capacity = Around(h, i) /\ Around(h, i) \in 0 .. (Capacity - 1)
<1>0. Capacity \in Nat \ {0} BY MemoryAssumption
<1>1. CASE h + i < Capacity
  <2>1. h + i \in 0 .. Capacity - 1 BY <1>0, <1>1
  <2> QED BY <1>0, <1>1, <2>1, ModSmall DEF Around
<1>2. CASE h + i >= Capacity
  <2>1. h + i \in Capacity .. 2 * Capacity - 1 /\ h + i - Capacity \in 0 .. (Capacity - 1) BY <1>0, <1>2
  <2>2. (h + i) % Capacity = h + i - Capacity BY <1>0, <2>1, ModWrap
  <2> QED BY <1>0, <1>2, <2>1, <2>2 DEF Around
<1> QED BY <1>0, <1>1, <1>2

(* The ring read without remainders. *)
LEMMA RingReading ==
  ASSUME head \in 0 .. (Capacity - 1)
  PROVE  RingIsFIFO <=>
           /\ size = Len(fifo)
           /\ \A i \in 0 .. (Capacity - 1) :
                items[Around(head, i)] = IF i < size THEN fifo[i + 1] ELSE NoJob
<1>0. Capacity \in Nat \ {0} BY MemoryAssumption
<1>1. \A i \in 0 .. (Capacity - 1) : (head + i) % Capacity = Around(head, i) BY <1>0, RingIndex
<1> QED BY <1>1 DEF RingIsFIFO

(* The empty place of a ring is a job. *)
LEMMA NoJobIsJob == NoJob \in Job
BY MemoryAssumption DEF NoJob, Job

(* enqueue puts the job behind the youngest, around the end if need be.    *)
LEMMA EnqueueRing ==
  ASSUME RingInv, NEW j \in Job, size < Capacity, Enqueue(j)
  PROVE  RingInv' /\ size' > 0 /\ (notEmpty' = (size' > 0)) /\ (notFull' = (size' < Capacity))
<1>0. /\ Capacity \in Nat \ {0} /\ head \in 0 .. (Capacity - 1) /\ size \in 0 .. Capacity
      /\ items \in [0 .. (Capacity - 1) -> Job] /\ fifo \in Seq(Job)
  BY MemoryAssumption DEF RingInv
<1>1. /\ head' = head /\ size' = size + 1 /\ fifo' = Append(fifo, j)
      /\ items' = [items EXCEPT ![Around(head, size)] = j]
  BY <1>0, RingIndex DEF Enqueue
<1>2. size' \in 0 .. Capacity /\ size' > 0 BY <1>0, <1>1
<1>3. fifo' \in Seq(Job) /\ Len(fifo') = Len(fifo) + 1 /\ fifo'[Len(fifo) + 1] = j
      /\ \A i \in 1 .. Len(fifo) : fifo'[i] = fifo[i]
  BY <1>0, <1>1
<1>4. Around(head, size) \in 0 .. (Capacity - 1) BY <1>0, RingIndex
<1>5. items' \in [0 .. (Capacity - 1) -> Job] BY <1>0, <1>1, <1>4
<1>6. size = Len(fifo) /\ \A i \in 0 .. (Capacity - 1) :
        items[Around(head, i)] = IF i < size THEN fifo[i + 1] ELSE NoJob
  BY <1>0, RingReading DEF RingInv
<1>7. ASSUME NEW i \in 0 .. (Capacity - 1)
      PROVE  items'[Around(head, i)] = IF i < size' THEN fifo'[i + 1] ELSE NoJob
  <2>1. CASE i = size
    <3>1. items'[Around(head, i)] = j BY <1>0, <1>1, <1>4, <2>1
    <3> QED BY <1>0, <1>1, <1>3, <1>6, <2>1, <3>1
  <2>2. CASE i # size
    <3>1. Around(head, i) # Around(head, size) BY <1>0, <2>2 DEF Around
    <3>i. i \in 0 .. Capacity BY <1>0
    <3>2. Around(head, i) \in 0 .. (Capacity - 1) BY <1>0, <3>i, RingIndex
    <3>3. items'[Around(head, i)] = items[Around(head, i)] BY <1>0, <1>1, <3>1, <3>2
    <3>4. i < size => fifo'[i + 1] = fifo[i + 1]
      <4>1. i < size => i + 1 \in 1 .. Len(fifo) BY <1>0, <1>6
      <4> QED BY <1>3, <4>1
    <3>5. i < size' <=> i < size BY <1>0, <1>1, <2>2
    <3> QED BY <1>6, <3>3, <3>4, <3>5
  <2> QED BY <2>1, <2>2
<1>8. size' = Len(fifo') BY <1>1, <1>3, <1>6
<1>9. RingIsFIFO'
  <2>1. head' \in 0 .. (Capacity - 1) BY <1>0, <1>1
  <2>2. \A i \in 0 .. (Capacity - 1) : (head' + i) % Capacity = Around(head', i) BY <1>0, <2>1, RingIndex
  <2> QED BY <1>1, <1>7, <1>8, <2>2 DEF RingIsFIFO
<1>10. (notEmpty' = (size' > 0)) /\ (notFull' = (size' < Capacity)) BY DEF Enqueue, SyncSignals
<1> QED BY <1>0, <1>1, <1>2, <1>3, <1>5, <1>9, <1>10 DEF RingInv

(* dequeue takes the oldest and leaves an empty place.                     *)
LEMMA DequeueRing ==
  ASSUME RingInv, size > 0, Dequeue
  PROVE  /\ RingInv' /\ items[head] \in Job /\ items[head] = fifo[1]
         /\ (notEmpty' = (size' > 0)) /\ (notFull' = (size' < Capacity))
<1>0. /\ Capacity \in Nat \ {0} /\ head \in 0 .. (Capacity - 1) /\ size \in 0 .. Capacity
      /\ items \in [0 .. (Capacity - 1) -> Job] /\ fifo \in Seq(Job)
  BY MemoryAssumption DEF RingInv
<1>1. /\ head' = Around(head, 1) /\ size' = size - 1 /\ fifo' = Tail(fifo)
      /\ items' = [items EXCEPT ![head] = NoJob] /\ head' \in 0 .. (Capacity - 1)
  <2>1. 1 \in 0 .. Capacity BY <1>0
  <2> QED BY <1>0, <2>1, RingIndex DEF Dequeue
<1>2. size' \in 0 .. Capacity BY <1>0, <1>1
<1>6. size = Len(fifo) /\ \A i \in 0 .. (Capacity - 1) :
        items[Around(head, i)] = IF i < size THEN fifo[i + 1] ELSE NoJob
  BY <1>0, RingReading DEF RingInv
<1>3. fifo # <<>> /\ fifo' \in Seq(Job) /\ Len(fifo') = Len(fifo) - 1
      /\ \A i \in 1 .. Len(fifo) - 1 : fifo'[i] = fifo[i + 1]
  BY <1>0, <1>1, <1>6
<1>5. items' \in [0 .. (Capacity - 1) -> Job] BY <1>0, <1>1, NoJobIsJob
<1>4. items[head] = fifo[1]
  <2>1. 0 \in 0 .. (Capacity - 1) /\ Around(head, 0) = head /\ 0 + 1 = 1 BY <1>0 DEF Around
  <2> QED BY <1>6, <2>1
<1>7. ASSUME NEW i \in 0 .. (Capacity - 1)
      PROVE  items'[Around(head', i)] = IF i < size' THEN fifo'[i + 1] ELSE NoJob
  <2>1. CASE i = Capacity - 1
    <3>1. Around(head', i) = head /\ ~(i < size') BY <1>0, <1>1, <2>1 DEF Around
    <3> QED BY <1>0, <1>1, <3>1
  <2>2. CASE i # Capacity - 1
    <3>1. /\ Around(head', i) = Around(head, i + 1) /\ Around(head, i + 1) # head
          /\ i + 1 \in 0 .. (Capacity - 1)
      BY <1>0, <1>1, <2>2 DEF Around
    <3>2. Around(head, i + 1) \in 0 .. (Capacity - 1) BY <1>0, <3>1, RingIndex
    <3>3. items'[Around(head', i)] = items[Around(head, i + 1)] BY <1>0, <1>1, <3>1, <3>2
    <3>4. items[Around(head, i + 1)] = IF i + 1 < size THEN fifo[(i + 1) + 1] ELSE NoJob
      BY <1>6, <3>1
    <3>5. i + 1 < size => fifo'[i + 1] = fifo[(i + 1) + 1]
      <4>1. i + 1 < size => i + 1 \in 1 .. Len(fifo) - 1 BY <1>0, <1>6
      <4> QED BY <1>3, <4>1
    <3>6. i < size' <=> i + 1 < size BY <1>0, <1>1
    <3> QED BY <3>3, <3>4, <3>5, <3>6
  <2> QED BY <2>1, <2>2
<1>8. size' = Len(fifo') BY <1>1, <1>3, <1>6
<1>9. RingIsFIFO'
  <2>2. \A i \in 0 .. (Capacity - 1) : (head' + i) % Capacity = Around(head', i) BY <1>0, <1>1, RingIndex
  <2> QED BY <1>7, <1>8, <2>2 DEF RingIsFIFO
<1>10. (notEmpty' = (size' > 0)) /\ (notFull' = (size' < Capacity)) BY DEF Dequeue, SyncSignals
<1> QED BY <1>0, <1>1, <1>2, <1>3, <1>4, <1>5, <1>9, <1>10 DEF RingInv

(* clear leaves an empty ring.                                             *)
LEMMA ClearRing ==
  ASSUME ClearQueue
  PROVE  RingInv' /\ size' = 0 /\ (notEmpty' = (size' > 0)) /\ (notFull' = (size' < Capacity))
<1>0. Capacity \in Nat \ {0} BY MemoryAssumption
<1>1. /\ items' = [i \in 0 .. (Capacity - 1) |-> NoJob] /\ head' = 0 /\ size' = 0 /\ fifo' = <<>>
  BY DEF ClearQueue
<1>2. head' \in 0 .. (Capacity - 1) /\ size' \in 0 .. Capacity BY <1>0, <1>1
<1>3. fifo' \in Seq(Job) /\ Len(fifo') = 0 BY <1>1
<1>4. items' \in [0 .. (Capacity - 1) -> Job] BY <1>1, NoJobIsJob
<1>5. RingIsFIFO'
  <2>1. ASSUME NEW i \in 0 .. (Capacity - 1)
        PROVE  (head' + i) % Capacity \in 0 .. (Capacity - 1) /\ ~(i < size')
    <3>1. i \in 0 .. Capacity /\ ~(i < size') BY <1>0, <1>1
    <3> QED BY <1>2, <3>1, RingIndex
  <2> QED BY <1>1, <1>3, <2>1 DEF RingIsFIFO
<1>6. (notEmpty' = (size' > 0)) /\ (notFull' = (size' < Capacity)) BY DEF ClearQueue, SyncSignals
<1> QED BY <1>1, <1>2, <1>3, <1>4, <1>5, <1>6 DEF RingInv

-----------------------------------------------------------------------------
(* Slots.                                                                  *)

(* Deliveries are not callers. *)
LEMMA KindsDiffer == Capacity \in Nat \ {0} /\ (Producer \cup Worker) \cap Delivery = {}
BY MemoryAssumption DEF Delivery

(* There are finitely many deliveries. *)
LEMMA BusyIsFinite == IsFiniteSet(Busy) /\ Cardinality(Busy) \in Nat
<1>1. IsFiniteSet(Delivery) BY KindsDiffer, FS_Interval DEF Delivery
<1>2. Busy \in SUBSET Delivery BY DEF Busy
<1>3. IsFiniteSet(Busy) BY <1>1, <1>2, FS_Subset
<1> QED BY <1>3, FS_CardinalityType

(* One goroutine moves, and the slots with it: it neither takes nor gives  *)
(* back a token.                                                           *)
LEMMA SlotsStay ==
  ASSUME ControlInv, SlotsInv, NEW x \in Process, NEW l,
         pc' = [pc EXCEPT ![x] = l], slots' = slots,
         pc[x] # "slotHeld", l # "slotHeld", x \in Delivery => (pc[x] = "free" <=> l = "free")
  PROVE  SlotsInv'
<1>1. \A y \in Process : pc'[y] = IF y = x THEN l ELSE pc[y] BY DEF ControlInv
<1>2. Busy' = Busy BY <1>1 DEF Busy, Process
<1>3. Held' = Held BY <1>1 DEF Held, Process
<1> QED BY <1>2, <1>3 DEF SlotsInv

(* A delivery ends and gives its token back. *)
LEMMA DeliveryGivesBack ==
  ASSUME ControlInv, SlotsInv, NEW x \in Delivery, pc[x] # "free",
         pc' = [pc EXCEPT ![x] = "free"], slots' = slots - 1
  PROVE  SlotsInv'
<1>1. \A y \in Process : pc'[y] = IF y = x THEN "free" ELSE pc[y] BY DEF ControlInv
<1>2. Busy' = Busy \ {x} /\ x \in Busy BY <1>1 DEF Busy, Process
<1>3. Held' = Held BY <1>1, KindsDiffer DEF Held, Process
<1>4. Cardinality(Busy') = Cardinality(Busy) - 1 BY <1>2, BusyIsFinite, FS_RemoveElement
<1>5. Cardinality(Busy) # 0 BY <1>2, BusyIsFinite, FS_EmptySet
<1>6. Cardinality(Held) \in Nat BY FS_CardinalityType DEF SlotsInv
<1>7. slots = Cardinality(Busy) + Cardinality(Held) /\ slots \in 0 .. Capacity BY DEF SlotsInv
<1>8. slots' \in 0 .. Capacity BY <1>5, <1>6, <1>7, BusyIsFinite, KindsDiffer
<1>9. slots' = Cardinality(Busy') + Cardinality(Held') BY <1>3, <1>4, <1>6, <1>7, BusyIsFinite
<1> QED BY <1>3, <1>8, <1>9 DEF SlotsInv

(* A caller takes a token. *)
LEMMA CallerTakes ==
  ASSUME ControlInv, SlotsInv, NEW x \in Producer \cup Worker, pc[x] # "slotHeld",
         pc' = [pc EXCEPT ![x] = "slotHeld"], slots < Capacity, slots' = slots + 1
  PROVE  SlotsInv'
<1>1. \A y \in Process : pc'[y] = IF y = x THEN "slotHeld" ELSE pc[y] BY DEF ControlInv
<1>2. Busy' = Busy BY <1>1, KindsDiffer DEF Busy, Process
<1>3. Held' = Held \cup {x} /\ x \notin Held BY <1>1 DEF Held, Process
<1>4. IsFiniteSet(Held') /\ Cardinality(Held') = Cardinality(Held) + 1
  BY <1>3, FS_AddElement DEF SlotsInv
<1>6. Cardinality(Held) \in Nat BY FS_CardinalityType DEF SlotsInv
<1>7. slots = Cardinality(Busy) + Cardinality(Held) /\ slots \in 0 .. Capacity BY DEF SlotsInv
<1>8. slots' \in 0 .. Capacity BY <1>7, KindsDiffer
<1>9. slots' = Cardinality(Busy') + Cardinality(Held') BY <1>2, <1>4, <1>6, <1>7, BusyIsFinite
<1> QED BY <1>4, <1>8, <1>9 DEF SlotsInv

(* A caller that holds a token stops holding it. *)
LEMMA HeldWithout ==
  ASSUME SlotsInv, NEW x \in Producer \cup Worker, pc[x] = "slotHeld", Held' = Held \ {x}
  PROVE  /\ IsFiniteSet(Held') /\ Cardinality(Held') = Cardinality(Held) - 1
         /\ Cardinality(Held) \in Nat \ {0}
<1>1. x \in Held BY DEF Held
<1>2. IsFiniteSet(Held') /\ Cardinality(Held') = Cardinality(Held) - 1
  BY <1>1, FS_RemoveElement DEF SlotsInv
<1>3. Cardinality(Held) \in Nat BY FS_CardinalityType DEF SlotsInv
<1>4. Cardinality(Held) # 0 BY <1>1, FS_EmptySet DEF SlotsInv
<1> QED BY <1>2, <1>3, <1>4

(* It gives the token back. *)
LEMMA CallerGivesBack ==
  ASSUME ControlInv, SlotsInv, NEW x \in Producer \cup Worker, pc[x] = "slotHeld",
         pc' = [pc EXCEPT ![x] = "idle"], slots' = slots - 1
  PROVE  SlotsInv'
<1>1. \A y \in Process : pc'[y] = IF y = x THEN "idle" ELSE pc[y] BY DEF ControlInv
<1>2. Busy' = Busy BY <1>1, KindsDiffer DEF Busy, Process
<1>3. Held' = Held \ {x} BY <1>1 DEF Held, Process
<1>4. /\ IsFiniteSet(Held') /\ Cardinality(Held') = Cardinality(Held) - 1
      /\ Cardinality(Held) \in Nat \ {0}
  BY <1>3, HeldWithout
<1>7. slots = Cardinality(Busy) + Cardinality(Held) /\ slots \in 0 .. Capacity BY DEF SlotsInv
<1>8. slots' \in 0 .. Capacity BY <1>4, <1>7, KindsDiffer, BusyIsFinite
<1>9. slots' = Cardinality(Busy') + Cardinality(Held') BY <1>2, <1>4, <1>7, BusyIsFinite
<1> QED BY <1>4, <1>8, <1>9 DEF SlotsInv

(* It hands the token to the delivery it starts. *)
LEMMA CallerHandsOver ==
  ASSUME ControlInv, SlotsInv, NEW x \in Producer \cup Worker, pc[x] = "slotHeld",
         NEW d \in Delivery, pc[d] = "free",
         pc' = [pc EXCEPT ![x] = "idle", ![d] = "sleeping"], slots' = slots
  PROVE  SlotsInv'
<1>0. x # d BY KindsDiffer
<1>1. /\ pc'[x] = "idle" /\ pc'[d] = "sleeping"
      /\ \A y \in Process : y # x /\ y # d => pc'[y] = pc[y]
  <2>1. x \in Process /\ d \in Process BY DEF Process
  <2> QED BY <1>0, <2>1 DEF ControlInv
<1>a. ASSUME NEW b \in Delivery PROVE pc'[b] # "free" <=> (pc[b] # "free" \/ b = d)
  <2>1. b # x /\ b \in Process BY KindsDiffer DEF Process
  <2> QED BY <1>1, <2>1
<1>b. ASSUME NEW y \in Producer \cup Worker
      PROVE  pc'[y] = "slotHeld" <=> (pc[y] = "slotHeld" /\ y # x)
  <2>1. y # d /\ y \in Process BY KindsDiffer DEF Process
  <2> QED BY <1>1, <2>1
<1>2. Busy' = Busy \cup {d} /\ d \notin Busy BY <1>a DEF Busy
<1>3. Held' = Held \ {x} BY <1>b DEF Held
<1>4. /\ IsFiniteSet(Held') /\ Cardinality(Held') = Cardinality(Held) - 1
      /\ Cardinality(Held) \in Nat \ {0}
  BY <1>3, HeldWithout
<1>5. Cardinality(Busy') = Cardinality(Busy) + 1 BY <1>2, BusyIsFinite, FS_AddElement
<1>7. slots = Cardinality(Busy) + Cardinality(Held) /\ slots \in 0 .. Capacity BY DEF SlotsInv
<1>9. slots' = Cardinality(Busy') + Cardinality(Held') BY <1>4, <1>5, <1>7, BusyIsFinite
<1> QED BY <1>4, <1>7, <1>9 DEF SlotsInv

-----------------------------------------------------------------------------
(* Control.                                                                *)

(* The labels of every kind of goroutine. *)
LEMMA Labels ==
  ASSUME NEW x \in Process
  PROVE  /\ At(x) \subseteq Label /\ {"enqueue", "waitFull"} \subseteq At(x)
         /\ x \in Delivery => At(x) = {"free", "sleeping", "enqueue", "waitFull"}
         /\ x \in Worker => At(x) = Label \ {"free", "sleeping"} /\ x \notin Delivery
         /\ x \in Producer => x \notin Delivery
         /\ x \notin Delivery => {"idle", "slot", "slotHeld"} \subseteq At(x) /\ "free" \notin At(x)
         /\ x \notin Delivery => x \in Producer \cup Worker
BY KindsDiffer DEF At, Label, Process

(* One goroutine moves with its job; contexts stay as they are. *)
LEMMA OneMoves ==
  ASSUME ControlInv, NEW x \in Process, NEW l \in At(x), NEW j \in Job,
         pc' = [pc EXCEPT ![x] = l], job' = [job EXCEPT ![x] = j],
         UNCHANGED <<driver, canceled, origin, pushed, cancels>>
  PROVE  ControlInv'
<1>1. l \in Label BY Labels
<1>2. pc' \in [Process -> Label] /\ \A y \in Process : pc'[y] \in At(y) BY <1>1 DEF ControlInv
<1>3. job' \in [Process -> Job] BY DEF ControlInv
<1> QED BY <1>2, <1>3 DEF ControlInv

(* Before Close returns there is nothing to show about what comes after.   *)
LEMMA NotReleased ==
  ASSUME QueueInv, NEW x \in Process, pc[x] \in Operating \/ ~Closed
  PROVE  driver # "released"
BY DEF QueueInv, NothingAfterClose, InOperation, Operating, Closed

(* NothingAfterClose speaks of the time after the release only.            *)
LEMMA BeforeRelease == driver' # "released" => NothingAfterClose'
BY DEF NothingAfterClose

(* The signals after a change of the ring. *)
LEMMA SignalsFollow ==
  ASSUME (notEmpty' = (size' > 0)) /\ (notFull' = (size' < Capacity)), size' \in 0 .. Capacity
  PROVE  SignalsInv'
<1>0. (size' > 0) \in BOOLEAN /\ (size' < Capacity) \in BOOLEAN BY KindsDiffer
<1>1. notEmpty' \in BOOLEAN /\ notFull' \in BOOLEAN BY <1>0, Zenon
<1>2. SignalsTruthful' BY DEF SignalsTruthful
<1> QED BY <1>1, <1>2 DEF SignalsInv

(* After syncSignals nobody waits for what is there. *)
LEMMA WakeupsFollow ==
  ASSUME (notEmpty' = (size' > 0)) /\ (notFull' = (size' < Capacity))
  PROVE  WakeupsKept'
BY DEF WakeupsKept, NoLostWakeup

(* A step that leaves the queue alone, takes no one from the way to the    *)
(* queue and sends no one to wait keeps the wakeups.                       *)
LEMMA WakeupsStay ==
  ASSUME WakeupsKept, UNCHANGED queueVars, UNCHANGED <<driver, cancels>>,
         \A y \in Process : /\ pc[y] = "enqueue" => pc'[y] = "enqueue"
                            /\ pc'[y] = "waitFull" => pc[y] = "waitFull"
                            /\ pc[y] = "dequeue" => pc'[y] = "dequeue"
                            /\ pc'[y] = "waitEmpty" => pc[y] = "waitEmpty"
  PROVE  WakeupsKept'
<1>1. \A w \in Worker : w \in Process BY DEF Process
<1> QED BY <1>1 DEF WakeupsKept, NoLostWakeup, queueVars, Closed

(* Nothing of the queue changes. *)
LEMMA QueueStays ==
  ASSUME RingInv, SignalsInv, UNCHANGED queueVars
  PROVE  RingInv' /\ SignalsInv'
BY DEF RingInv, RingIsFIFO, SignalsInv, SignalsTruthful, queueVars

(* A step of one goroutine that leaves the queue alone. *)
LEMMA QuietStep ==
  ASSUME QueueInv, NEW x \in Process, NEW l \in At(x), NEW j \in Job,
         pc' = [pc EXCEPT ![x] = l], job' = [job EXCEPT ![x] = j],
         UNCHANGED <<driver, canceled, origin, pushed, cancels>>, UNCHANGED queueVars,
         SlotsInv', NothingAfterClose', WakeupsKept'
  PROVE  QueueInv'
<1>1. ControlInv' BY OneMoves DEF QueueInv
<1>2. RingInv' /\ SignalsInv' BY QueueStays DEF QueueInv
<1> QED BY <1>1, <1>2 DEF QueueInv

-----------------------------------------------------------------------------
(* The steps.                                                              *)

(* Nobody has pushed. *)
LEMMA QueueStart == Init => QueueInv
<1> SUFFICES ASSUME Init PROVE QueueInv
  OBVIOUS
<1>0. Capacity \in Nat \ {0} /\ NoJob \in Job BY KindsDiffer, NoJobIsJob
<1>1. ControlInv
  <2>1. \A x \in Process : pc[x] \in At(x) /\ pc[x] \in Label
    BY Labels DEF Init
  <2>2. /\ pc \in [Process -> Label] /\ job \in [Process -> Job] /\ canceled \in [Process -> BOOLEAN]
        /\ origin \in [Delivery -> SUBSET Worker] /\ \A x \in Process : ~canceled[x]
    BY <1>0, <2>1 DEF Init
  <2>3. pushed \in 0 .. MaxJobs /\ cancels \in 0 .. MaxCancels BY MemoryAssumption DEF Init
  <2> QED BY <2>1, <2>2, <2>3 DEF ControlInv, Init
<1>2. RingInv
  <2>1. /\ items \in [0 .. (Capacity - 1) -> Job] /\ head \in 0 .. (Capacity - 1)
        /\ size \in 0 .. Capacity /\ fifo \in Seq(Job)
    BY <1>0 DEF Init
  <2>2. ASSUME NEW i \in 0 .. (Capacity - 1)
        PROVE  items[(head + i) % Capacity] = NoJob /\ ~(i < size)
    <3>1. i \in 0 .. Capacity /\ ~(i < size) BY <1>0 DEF Init
    <3>2. (head + i) % Capacity \in 0 .. (Capacity - 1) BY <2>1, <3>1, RingIndex
    <3> QED BY <3>1, <3>2 DEF Init
  <2>3. size = Len(fifo) BY DEF Init
  <2> QED BY <2>1, <2>2, <2>3 DEF RingInv, RingIsFIFO
<1>3. SlotsInv
  <2>1. \A d \in Delivery : pc[d] = "free" BY DEF Init, Process
  <2>2. \A x \in Producer \cup Worker : pc[x] = "idle" BY KindsDiffer DEF Init, Process
  <2>3. Busy = {} /\ Held = {} BY <2>1, <2>2 DEF Busy, Held
  <2>4. IsFiniteSet({}) /\ Cardinality({}) = 0 BY FS_EmptySet
  <2>5. slots = 0 /\ slots \in 0 .. Capacity BY <1>0 DEF Init
  <2> QED BY <2>3, <2>4, <2>5 DEF SlotsInv
<1>4. SignalsInv
  <2>1. notEmpty = FALSE /\ notFull = TRUE /\ size = 0 BY DEF Init
  <2>2. size < Capacity BY <1>0, <2>1
  <2> QED BY <2>1, <2>2, Zenon DEF SignalsInv, SignalsTruthful
<1>5. NothingAfterClose BY DEF Init, NothingAfterClose
<1>6. WakeupsKept
  <2>1. \A x \in Process : pc[x] # "waitFull" /\ pc[x] # "waitEmpty" BY DEF Init
  <2> QED BY <2>1 DEF WakeupsKept, NoLostWakeup, Process
<1> QED BY <1>1, <1>2, <1>3, <1>4, <1>5, <1>6 DEF QueueInv

(* beginOperation of a push. *)
LEMMA PushBegins ==
  ASSUME QueueInv, NEW p \in Producer, NEW l \in {"enqueue", "slot"}, PushBegin(p, l)
  PROVE  QueueInv'
<1>0. /\ ControlInv /\ RingInv /\ SlotsInv /\ SignalsInv /\ NothingAfterClose /\ WakeupsKept
      /\ p \in Process /\ p \notin Delivery /\ l \in At(p) /\ l \in Label
  <2>1. p \in Process BY DEF Process
  <2> QED BY <2>1, Labels DEF QueueInv
<1>1. /\ pc[p] = "idle" /\ ~Closed /\ pushed < MaxJobs /\ pushed' = pushed + 1
      /\ job' = [job EXCEPT ![p] = [id |-> pushed + 1, attempts |-> 0]]
      /\ canceled' = [canceled EXCEPT ![p] = FALSE]
      /\ pc' = [pc EXCEPT ![p] = l]
      /\ UNCHANGED <<slots, driver, origin, cancels>> /\ UNCHANGED queueVars
  BY DEF PushBegin, Goto
<1>2. ControlInv'
  <2>1. pushed' \in 0 .. MaxJobs /\ pushed + 1 \in 0 .. MaxJobs /\ 0 \in 0 .. MaxRetries
    BY <1>0, <1>1, MemoryAssumption DEF ControlInv
  <2>2. [id |-> pushed + 1, attempts |-> 0] \in Job BY <2>1 DEF Job
  <2>3. job' \in [Process -> Job] BY <1>0, <1>1, <2>2 DEF ControlInv
  <2>4. canceled' \in [Process -> BOOLEAN] BY <1>0, <1>1 DEF ControlInv
  <2>5. pc' \in [Process -> Label] /\ \A x \in Process : pc'[x] \in At(x) BY <1>0, <1>1 DEF ControlInv
  <2>6. cancels' = 0 => \A x \in Process : ~canceled'[x] BY <1>0, <1>1 DEF ControlInv
  <2> QED BY <1>0, <1>1, <2>1, <2>3, <2>4, <2>5, <2>6 DEF ControlInv
<1>3. RingInv' /\ SignalsInv' BY <1>0, <1>1, QueueStays
<1>4. SlotsInv' BY <1>0, <1>1, SlotsStay
<1>5. NothingAfterClose' BY <1>1, BeforeRelease DEF Closed
<1>6. WakeupsKept'
  <2>1. \A y \in Process : pc'[y] = IF y = p THEN l ELSE pc[y] BY <1>0, <1>1 DEF ControlInv
  <2> QED BY <1>0, <1>1, <2>1, WakeupsStay
<1> QED BY <1>2, <1>3, <1>4, <1>5, <1>6 DEF QueueInv

(* A caller or a delivery that is in the middle of an operation ends it.   *)
LEMMA Returns ==
  ASSUME QueueInv, NEW x \in Process, Return(x), pc[x] \in Operating, pc[x] # "slotHeld"
  PROVE  /\ \E l \in At(x) : pc' = [pc EXCEPT ![x] = l] /\ l \in {"free", "idle"}
         /\ job' = [job EXCEPT ![x] = NoJob] /\ SlotsInv'
<1>0. ControlInv /\ SlotsInv BY DEF QueueInv
<1>1. CASE x \in Delivery
  <2>1. pc' = [pc EXCEPT ![x] = "free"] /\ slots' = slots - 1 /\ job' = [job EXCEPT ![x] = NoJob]
    BY <1>1 DEF Return, Goto
  <2>2. SlotsInv' BY <1>0, <1>1, <2>1, DeliveryGivesBack DEF Operating
  <2>3. "free" \in At(x) BY <1>1, Labels
  <2> QED BY <2>1, <2>2, <2>3
<1>2. CASE x \notin Delivery
  <2>1. pc' = [pc EXCEPT ![x] = "idle"] /\ slots' = slots /\ job' = [job EXCEPT ![x] = NoJob]
    BY <1>2 DEF Return, Goto
  <2>2. SlotsInv' BY <1>0, <1>2, <2>1, SlotsStay
  <2>3. "idle" \in At(x) BY <1>2, Labels
  <2> QED BY <2>1, <2>2, <2>3
<1> QED BY <1>1, <1>2

(* Without the queue changing, an operation is given up: only when its     *)
(* context is canceled or the driver is closed.                            *)
LEMMA GivesUp ==
  ASSUME QueueInv, NEW x \in Process, Return(x), pc[x] \in Operating, pc[x] # "slotHeld",
         Closed \/ canceled[x],
         UNCHANGED queueVars, UNCHANGED <<driver, canceled, origin, pushed, cancels>>
  PROVE  QueueInv'
<1>1. driver' # "released" BY NotReleased
<1>2. NothingAfterClose' BY <1>1, BeforeRelease
<1>3. WakeupsKept'
  <2>1. cancels = 0 => Closed BY DEF QueueInv, ControlInv
  <2> QED BY <2>1 DEF WakeupsKept, NoLostWakeup, Closed
<1>4. PICK l \in At(x) : pc' = [pc EXCEPT ![x] = l] BY Returns
<1>5. job' = [job EXCEPT ![x] = NoJob] /\ SlotsInv' BY Returns
<1> QED BY <1>2, <1>3, <1>4, <1>5, NoJobIsJob, QuietStep

(* push. *)
LEMMA Pushes ==
  ASSUME QueueInv, NEW x \in Process, TryEnqueue(x)
  PROVE  QueueInv'
<1>0. /\ ControlInv /\ RingInv /\ SlotsInv /\ SignalsInv /\ NothingAfterClose /\ WakeupsKept
      /\ pc[x] = "enqueue" /\ pc[x] \in Operating
      /\ UNCHANGED <<driver, canceled, origin, pushed, cancels>>
  BY DEF QueueInv, TryEnqueue, Operating
<1>r. driver' # "released" BY <1>0, NotReleased
<1>1. CASE (Closed \/ canceled[x]) /\ Return(x) /\ UNCHANGED queueVars
  BY <1>0, <1>1, GivesUp DEF TryEnqueue
<1>2. CASE size < Capacity /\ Enqueue(job[x]) /\ Return(x)
  <2>1. job[x] \in Job BY <1>0 DEF ControlInv
  <2>2. /\ RingInv' /\ (notEmpty' = (size' > 0)) /\ (notFull' = (size' < Capacity))
    BY <1>0, <1>2, <2>1, EnqueueRing
  <2>3. SignalsInv' BY <2>2, SignalsFollow DEF RingInv
  <2>4. WakeupsKept' BY <2>2, WakeupsFollow
  <2>5. PICK l \in At(x) : pc' = [pc EXCEPT ![x] = l] BY <1>0, <1>2, Returns
  <2>6. job' = [job EXCEPT ![x] = NoJob] /\ SlotsInv' BY <1>0, <1>2, Returns
  <2>7. ControlInv' BY <1>0, <2>5, <2>6, NoJobIsJob, OneMoves
  <2> QED BY <1>r, <2>2, <2>3, <2>4, <2>6, <2>7, BeforeRelease DEF QueueInv
<1>3. CASE size = Capacity /\ Goto(x, "waitFull") /\ UNCHANGED <<job, slots>> /\ UNCHANGED queueVars
  <2>1. "waitFull" \in At(x) /\ pc' = [pc EXCEPT ![x] = "waitFull"] BY <1>3, Labels DEF Goto
  <2>2. job[x] \in Job /\ job' = [job EXCEPT ![x] = job[x]] BY <1>0, <1>3 DEF ControlInv
  <2>3. SlotsInv' BY <1>0, <1>3, <2>1, SlotsStay
  <2>4. NothingAfterClose' BY <1>r, BeforeRelease
  <2>5. WakeupsKept'
    <3>1. \A y \in Process : pc'[y] = IF y = x THEN "waitFull" ELSE pc[y] BY <1>0, <2>1 DEF ControlInv
    <3>2. ~(size' < Capacity) /\ UNCHANGED <<size, notEmpty>> BY <1>3, KindsDiffer DEF queueVars
    <3> QED BY <1>0, <3>1, <3>2 DEF WakeupsKept, NoLostWakeup, Process, Closed
  <2> QED BY <1>0, <1>3, <2>1, <2>2, <2>3, <2>4, <2>5, QuietStep
<1> QED BY <1>1, <1>2, <1>3 DEF TryEnqueue

(* A waiter takes the token of its channel and goes on its way. *)
LEMMA Awakes ==
  ASSUME QueueInv, NEW x \in Process, NEW l \in {"enqueue", "dequeue"}, l \in At(x),
         l = "enqueue" => pc[x] = "waitFull" /\ notFull' = FALSE /\ notEmpty' = notEmpty,
         l = "dequeue" => pc[x] = "waitEmpty" /\ notEmpty' = FALSE /\ notFull' = notFull /\ x \in Worker,
         pc' = [pc EXCEPT ![x] = l],
         UNCHANGED <<items, head, size, fifo, slots, job, driver, canceled, origin, pushed, cancels>>
  PROVE  QueueInv'
<1>0. /\ ControlInv /\ RingInv /\ SlotsInv /\ SignalsInv /\ NothingAfterClose /\ WakeupsKept
      /\ pc[x] \in {"waitFull", "waitEmpty"}
  BY DEF QueueInv
<1>1. NothingAfterClose'
  <2>1. pc[x] \in Operating BY <1>0 DEF Operating
  <2> QED BY <1>0, <2>1, NotReleased, BeforeRelease
<1>2. ControlInv'
  <2>1. job[x] \in Job /\ job' = [job EXCEPT ![x] = job[x]] BY <1>0 DEF ControlInv
  <2> QED BY <1>0, <2>1, OneMoves
<1>3. RingInv' BY <1>0 DEF RingInv, RingIsFIFO
<1>4. SlotsInv'
  <2>1. pc[x] # "slotHeld" /\ l # "slotHeld" /\ pc[x] # "free" /\ l # "free" BY <1>0
  <2> QED BY <1>0, <2>1, SlotsStay
<1>5. SignalsInv'
  <2>0. size' = size OBVIOUS
  <2>1. CASE l = "enqueue"
    <3>1. notFull' = FALSE /\ notEmpty' = notEmpty BY <2>1
    <3> QED BY <1>0, <2>0, <3>1 DEF SignalsInv, SignalsTruthful
  <2>2. CASE l = "dequeue"
    <3>1. notEmpty' = FALSE /\ notFull' = notFull BY <2>2
    <3> QED BY <1>0, <2>0, <3>1 DEF SignalsInv, SignalsTruthful
  <2> QED BY <2>1, <2>2
<1>6. WakeupsKept'
  <2>1. \A y \in Process : pc'[y] = IF y = x THEN l ELSE pc[y] BY <1>0 DEF ControlInv
  <2>2. \A w \in Worker : w \in Process BY DEF Process
  <2>3. CASE l = "enqueue"
    <3>1. \E y \in Process : pc'[y] = "enqueue" BY <2>1, <2>3
    <3>2. \A w \in Worker : (pc'[w] = "waitEmpty" => pc[w] = "waitEmpty") /\ (pc[w] = "dequeue" => pc'[w] = "dequeue")
      BY <2>1, <2>2, <2>3
    <3> QED BY <1>0, <2>3, <3>1, <3>2 DEF WakeupsKept, NoLostWakeup, Closed
  <2>4. CASE l = "dequeue"
    <3>1. \E w \in Worker : pc'[w] = "dequeue" BY <2>1, <2>2, <2>4
    <3>2. \A y \in Process : (pc'[y] = "waitFull" => pc[y] = "waitFull") /\ (pc[y] = "enqueue" => pc'[y] = "enqueue")
      BY <2>1, <2>4
    <3> QED BY <1>0, <2>4, <3>1, <3>2 DEF WakeupsKept, NoLostWakeup, Closed
  <2> QED BY <2>3, <2>4
<1> QED BY <1>1, <1>2, <1>3, <1>4, <1>5, <1>6 DEF QueueInv

(* push's select. *)
LEMMA WaitsFull ==
  ASSUME QueueInv, NEW x \in Process, WaitFull(x)
  PROVE  QueueInv'
<1>0. /\ pc[x] = "waitFull" /\ pc[x] \in Operating
      /\ UNCHANGED <<items, head, size, notEmpty, fifo>>
      /\ UNCHANGED <<driver, canceled, origin, pushed, cancels>>
  BY DEF WaitFull, Operating
<1>1. CASE notFull' = FALSE /\ Goto(x, "enqueue") /\ UNCHANGED <<job, slots>>
  <2>1. "enqueue" \in At(x) /\ pc' = [pc EXCEPT ![x] = "enqueue"] BY <1>1, Labels DEF Goto
  <2> QED BY <1>0, <1>1, <2>1, Awakes
<1>2. CASE (canceled[x] \/ Closed) /\ Return(x) /\ UNCHANGED notFull
  <2>1. UNCHANGED queueVars BY <1>0, <1>2 DEF queueVars
  <2> QED BY <1>0, <1>2, <2>1, GivesUp
<1> QED BY <1>1, <1>2 DEF WaitFull

(* The steps of PushDelayed, and of the deliveries it starts. *)
LEMMA Acquires ==
  ASSUME QueueInv, NEW x \in Process, AcquireSlot(x)
  PROVE  QueueInv'
<1>0. /\ ControlInv /\ SlotsInv /\ WakeupsKept
      /\ pc[x] = "slot" /\ pc[x] \in Operating /\ UNCHANGED queueVars
      /\ UNCHANGED <<driver, canceled, origin, pushed, cancels>>
  BY DEF QueueInv, AcquireSlot, Operating
<1>1. CASE slots < Capacity /\ slots' = slots + 1 /\ Goto(x, "slotHeld") /\ UNCHANGED job
  <2>1. x \notin Delivery BY <1>0, Labels DEF ControlInv
  <2>2. x \in Producer \cup Worker /\ "slotHeld" \in At(x) BY <2>1, Labels
  <2>3. pc' = [pc EXCEPT ![x] = "slotHeld"] BY <1>1 DEF Goto
  <2>4. SlotsInv' BY <1>0, <1>1, <2>2, <2>3, CallerTakes
  <2>5. job[x] \in Job /\ job' = [job EXCEPT ![x] = job[x]] BY <1>0, <1>1 DEF ControlInv
  <2>6. NothingAfterClose' BY <1>0, NotReleased, BeforeRelease
  <2>7. WakeupsKept'
    <3>1. \A y \in Process : pc'[y] = IF y = x THEN "slotHeld" ELSE pc[y] BY <1>0, <2>3 DEF ControlInv
    <3> QED BY <1>0, <3>1, WakeupsStay
  <2> QED BY <1>0, <2>2, <2>3, <2>4, <2>5, <2>6, <2>7, QuietStep
<1>2. CASE (canceled[x] \/ Closed) /\ Return(x)
  BY <1>0, <1>2, GivesUp
<1> QED BY <1>1, <1>2 DEF AcquireSlot

(* The slot is given back, or handed to the delivery that starts.          *)
LEMMA Starts ==
  ASSUME QueueInv, NEW x \in Process, StartDelivery(x)
  PROVE  QueueInv'
<1>0. /\ ControlInv /\ SlotsInv /\ WakeupsKept /\ RingInv /\ SignalsInv
      /\ pc[x] = "slotHeld" /\ pc[x] \in Operating /\ UNCHANGED queueVars
      /\ UNCHANGED <<driver, pushed, cancels>>
  BY DEF QueueInv, StartDelivery, Operating
<1>1. NothingAfterClose' BY <1>0, NotReleased, BeforeRelease
<1>2. x \notin Delivery BY <1>0, Labels DEF ControlInv
<1>3. x \in Producer \cup Worker /\ "idle" \in At(x) /\ "idle" \in Label BY <1>2, Labels
<1>4. CASE /\ Goto(x, "idle") /\ job' = [job EXCEPT ![x] = NoJob] /\ slots' = slots - 1
           /\ UNCHANGED <<canceled, origin>>
  <2>1. pc' = [pc EXCEPT ![x] = "idle"] BY <1>4 DEF Goto
  <2>2. SlotsInv' BY <1>0, <1>3, <1>4, <2>1, CallerGivesBack
  <2>3. WakeupsKept'
    <3>1. \A y \in Process : pc'[y] = IF y = x THEN "idle" ELSE pc[y] BY <1>0, <2>1 DEF ControlInv
    <3> QED BY <1>0, <3>1, WakeupsStay
  <2> QED BY <1>0, <1>1, <1>3, <1>4, <2>1, <2>2, <2>3, NoJobIsJob, QuietStep
<1>5. ASSUME NEW d \in Delivery, pc[d] = "free",
             pc' = [pc EXCEPT ![x] = "idle", ![d] = "sleeping"],
             job' = [job EXCEPT ![x] = NoJob, ![d] = job[x]],
             canceled' = [canceled EXCEPT ![d] = FALSE],
             origin' = [origin EXCEPT ![d] = {x} \cap Worker],
             UNCHANGED slots
      PROVE  QueueInv'
  <2>0. d \in Process /\ d # x BY <1>2 DEF Process
  <2>1. SlotsInv' BY <1>0, <1>3, <1>5, CallerHandsOver
  <2>2. /\ pc'[x] = "idle" /\ pc'[d] = "sleeping"
        /\ \A y \in Process : y # x /\ y # d => pc'[y] = pc[y]
    BY <1>0, <1>5, <2>0 DEF ControlInv
  <2>3. WakeupsKept'
    <3>1. \A y \in Process : /\ pc[y] = "enqueue" => pc'[y] = "enqueue"
                             /\ pc'[y] = "waitFull" => pc[y] = "waitFull"
                             /\ pc[y] = "dequeue" => pc'[y] = "dequeue"
                             /\ pc'[y] = "waitEmpty" => pc[y] = "waitEmpty"
      BY <1>0, <1>5, <2>2
    <3> QED BY <1>0, <3>1, WakeupsStay
  <2>4. ControlInv'
    <3>1. "sleeping" \in At(d) /\ "sleeping" \in Label BY <2>0, Labels
    <3>2. pc' \in [Process -> Label] BY <1>0, <1>3, <1>5, <3>1 DEF ControlInv
    <3>3. \A y \in Process : pc'[y] \in At(y) BY <1>0, <1>3, <2>2, <3>1 DEF ControlInv
    <3>4. job' \in [Process -> Job] BY <1>0, <1>5, NoJobIsJob DEF ControlInv
    <3>5. canceled' \in [Process -> BOOLEAN] /\ origin' \in [Delivery -> SUBSET Worker]
      BY <1>0, <1>5 DEF ControlInv
    <3>6. cancels' = 0 => \A y \in Process : ~canceled'[y] BY <1>0, <1>5 DEF ControlInv
    <3> QED BY <1>0, <3>2, <3>3, <3>4, <3>5, <3>6 DEF ControlInv
  <2>5. RingInv' /\ SignalsInv' BY <1>0, QueueStays
  <2> QED BY <1>1, <2>1, <2>3, <2>4, <2>5 DEF QueueInv
<1> QED BY <1>4, <1>5 DEF StartDelivery

(* The timer fires, or the delivery is off.                                *)
LEMMA Delivers ==
  ASSUME QueueInv, NEW d \in Delivery, Deliver(d)
  PROVE  QueueInv'
<1>0. /\ ControlInv /\ SlotsInv /\ WakeupsKept /\ d \in Process
      /\ pc[d] = "sleeping" /\ pc[d] \in Operating /\ UNCHANGED queueVars
      /\ UNCHANGED <<driver, canceled, origin, pushed, cancels>>
  BY DEF QueueInv, Deliver, Operating, Process
<1>1. CASE Goto(d, "enqueue") /\ UNCHANGED <<job, slots>>
  <2>1. pc' = [pc EXCEPT ![d] = "enqueue"] /\ "enqueue" \in At(d) BY <1>0, <1>1, Labels DEF Goto
  <2>2. SlotsInv' BY <1>0, <1>1, <2>1, SlotsStay
  <2>3. job[d] \in Job /\ job' = [job EXCEPT ![d] = job[d]] BY <1>0, <1>1 DEF ControlInv
  <2>4. NothingAfterClose' BY <1>0, NotReleased, BeforeRelease
  <2>5. WakeupsKept'
    <3>1. \A y \in Process : pc'[y] = IF y = d THEN "enqueue" ELSE pc[y] BY <1>0, <2>1 DEF ControlInv
    <3> QED BY <1>0, <3>1, WakeupsStay
  <2> QED BY <1>0, <2>1, <2>2, <2>3, <2>4, <2>5, QuietStep
<1>2. CASE (canceled[d] \/ Closed) /\ Return(d)
  BY <1>0, <1>2, GivesUp
<1> QED BY <1>1, <1>2 DEF Deliver

(* A worker stops: only when its context is canceled or the driver closed. *)
LEMMA Exits ==
  ASSUME QueueInv, NEW w \in Worker, pc[w] \in {"idle", "dequeue", "waitEmpty"},
         Closed \/ canceled[w], pc' = [pc EXCEPT ![w] = "exited"],
         UNCHANGED <<slots, job, driver, canceled, origin, pushed, cancels>>, UNCHANGED queueVars
  PROVE  QueueInv'
<1>0. ControlInv /\ SlotsInv /\ w \in Process /\ NothingAfterClose BY DEF QueueInv, Process
<1>1. "exited" \in At(w) /\ w \notin Delivery BY <1>0, Labels DEF Label
<1>2. job[w] \in Job /\ job' = [job EXCEPT ![w] = job[w]] BY <1>0 DEF ControlInv
<1>3. SlotsInv' BY <1>0, <1>1, SlotsStay
<1>4. \A y \in Process : pc'[y] = IF y = w THEN "exited" ELSE pc[y] BY <1>0 DEF ControlInv
<1>5. NothingAfterClose' BY <1>0, <1>4 DEF NothingAfterClose, InOperation, queueVars
<1>6. WakeupsKept'
  <2>1. cancels = 0 => Closed BY <1>0 DEF ControlInv
  <2> QED BY <2>1 DEF WakeupsKept, NoLostWakeup, Closed
<1> QED BY <1>0, <1>1, <1>2, <1>3, <1>5, <1>6, QuietStep

(* Worker.work and Pop. *)
LEMMA Pops ==
  ASSUME QueueInv, NEW w \in Worker, PopBegin(w) \/ TryDequeue(w) \/ WaitEmpty(w)
  PROVE  QueueInv'
<1>0. /\ ControlInv /\ RingInv /\ SlotsInv /\ SignalsInv /\ NothingAfterClose /\ WakeupsKept
      /\ w \in Process /\ w \notin Delivery /\ {"dequeue", "waitEmpty", "handling"} \subseteq At(w)
  <2>1. w \in Process BY DEF Process
  <2> QED BY <2>1, Labels DEF QueueInv, Label
<1>1. UNCHANGED <<slots, driver, canceled, origin, pushed, cancels>>
  BY DEF PopBegin, TryDequeue, WaitEmpty
<1>2. CASE (Closed \/ canceled[w]) /\ Goto(w, "exited") /\ UNCHANGED job /\ UNCHANGED queueVars
           /\ pc[w] \in {"idle", "dequeue", "waitEmpty"}
  BY <1>1, <1>2, Exits DEF Goto
<1>3. CASE pc[w] = "idle" /\ ~Closed /\ Goto(w, "dequeue") /\ UNCHANGED job /\ UNCHANGED queueVars
  <2>1. pc' = [pc EXCEPT ![w] = "dequeue"] BY <1>3 DEF Goto
  <2>2. SlotsInv' BY <1>0, <1>1, <1>3, <2>1, SlotsStay
  <2>3. job[w] \in Job /\ job' = [job EXCEPT ![w] = job[w]] BY <1>0, <1>3 DEF ControlInv
  <2>4. NothingAfterClose' BY <1>0, <1>1, <1>3, NotReleased, BeforeRelease
  <2>5. WakeupsKept'
    <3>1. \A y \in Process : pc'[y] = IF y = w THEN "dequeue" ELSE pc[y] BY <1>0, <2>1 DEF ControlInv
    <3> QED BY <1>0, <1>1, <1>3, <3>1, WakeupsStay
  <2> QED BY <1>0, <1>1, <1>3, <2>1, <2>2, <2>3, <2>4, <2>5, QuietStep
<1>4. CASE /\ pc[w] = "dequeue" /\ ~Closed /\ size > 0 /\ job' = [job EXCEPT ![w] = items[head]]
           /\ Dequeue /\ Goto(w, "handling")
  <2>1. pc' = [pc EXCEPT ![w] = "handling"] BY <1>4 DEF Goto
  <2>2. /\ RingInv' /\ items[head] \in Job
        /\ (notEmpty' = (size' > 0)) /\ (notFull' = (size' < Capacity))
    BY <1>0, <1>4, DequeueRing
  <2>3. SignalsInv' BY <2>2, SignalsFollow DEF RingInv
  <2>4. WakeupsKept' BY <2>2, WakeupsFollow
  <2>5. SlotsInv' BY <1>0, <1>1, <1>4, <2>1, SlotsStay
  <2>6. ControlInv' BY <1>0, <1>1, <1>4, <2>1, <2>2, OneMoves
  <2>7. NothingAfterClose' BY <1>0, <1>1, <1>4, NotReleased, BeforeRelease
  <2> QED BY <2>2, <2>3, <2>4, <2>5, <2>6, <2>7 DEF QueueInv
<1>5. CASE pc[w] = "dequeue" /\ ~Closed /\ size = 0 /\ Goto(w, "waitEmpty") /\ UNCHANGED job
           /\ UNCHANGED queueVars
  <2>1. pc' = [pc EXCEPT ![w] = "waitEmpty"] BY <1>5 DEF Goto
  <2>2. SlotsInv' BY <1>0, <1>1, <1>5, <2>1, SlotsStay
  <2>3. job[w] \in Job /\ job' = [job EXCEPT ![w] = job[w]] BY <1>0, <1>5 DEF ControlInv
  <2>4. NothingAfterClose' BY <1>0, <1>1, <1>5, NotReleased, BeforeRelease
  <2>5. WakeupsKept'
    <3>1. \A y \in Process : pc'[y] = IF y = w THEN "waitEmpty" ELSE pc[y] BY <1>0, <2>1 DEF ControlInv
    <3>2. ~(size' > 0) /\ size' = size /\ notFull' = notFull BY <1>5 DEF queueVars
    <3>3. \A y \in Process : (pc'[y] = "waitFull" => pc[y] = "waitFull") /\ (pc[y] = "enqueue" => pc'[y] = "enqueue")
      BY <1>5, <3>1
    <3> QED BY <1>0, <1>1, <3>2, <3>3 DEF WakeupsKept, NoLostWakeup, Closed
  <2> QED BY <1>0, <1>1, <1>5, <2>1, <2>2, <2>3, <2>4, <2>5, QuietStep
<1>6. CASE WaitEmpty(w) /\ notEmpty' = FALSE /\ Goto(w, "dequeue")
  <2>1. /\ pc[w] = "waitEmpty" /\ pc' = [pc EXCEPT ![w] = "dequeue"] /\ notFull' = notFull
        /\ UNCHANGED <<items, head, size, fifo, slots, job, driver, canceled, origin, pushed, cancels>>
    BY <1>6 DEF WaitEmpty, Goto
  <2> QED BY <1>0, <1>6, <2>1, Awakes
<1>7. CASE PopBegin(w) BY <1>2, <1>3, <1>7 DEF PopBegin
<1>8. CASE TryDequeue(w) BY <1>2, <1>4, <1>5, <1>8 DEF TryDequeue
<1>9. CASE WaitEmpty(w)
  <2>1. CASE (canceled[w] \/ Closed) /\ Goto(w, "exited") /\ UNCHANGED notEmpty
    <3>1. UNCHANGED queueVars /\ UNCHANGED job /\ pc[w] = "waitEmpty" BY <1>9, <2>1 DEF WaitEmpty, queueVars
    <3> QED BY <1>2, <2>1, <3>1
  <2> QED BY <1>6, <1>9, <2>1 DEF WaitEmpty
<1> QED BY <1>7, <1>8, <1>9

(* processJob: the job is done with, or pushed again with an attempt more. *)
LEMMA Handles ==
  ASSUME QueueInv, NEW w \in Worker, NEW ok \in BOOLEAN, NEW retry \in {"slot", "enqueue"},
         Handle(w, ok, retry)
  PROVE  QueueInv'
<1>0. /\ ControlInv /\ SlotsInv /\ NothingAfterClose /\ WakeupsKept
      /\ w \in Process /\ w \notin Delivery /\ {"idle", "slot", "enqueue"} \subseteq At(w)
  <2>1. w \in Process BY DEF Process
  <2> QED BY <2>1, Labels DEF QueueInv, Label
<1>1. /\ pc[w] = "handling" /\ UNCHANGED <<slots, driver, canceled, origin, pushed, cancels>>
      /\ UNCHANGED queueVars
  BY DEF Handle
<1>2. ASSUME NEW l \in {"idle", "slot", "enqueue"}, pc' = [pc EXCEPT ![w] = l],
             NEW j \in Job, job' = [job EXCEPT ![w] = j], l = "idle" \/ ~Closed
      PROVE  QueueInv'
  <2>1. \A y \in Process : pc'[y] = IF y = w THEN l ELSE pc[y] BY <1>0, <1>2 DEF ControlInv
  <2>2. SlotsInv' BY <1>0, <1>1, <1>2, SlotsStay
  <2>3. WakeupsKept' BY <1>0, <1>1, <2>1, WakeupsStay
  <2>4. NothingAfterClose'
    BY <1>0, <1>1, <1>2, <2>1 DEF NothingAfterClose, InOperation, queueVars, Closed
  <2>5. l \in At(w) BY <1>0, <1>2
  <2> QED BY <1>0, <1>1, <1>2, <2>2, <2>3, <2>4, <2>5, QuietStep
<1>3. CASE Goto(w, "idle") /\ job' = [job EXCEPT ![w] = NoJob]
  BY <1>2, <1>3, NoJobIsJob DEF Goto
<1>4. CASE ~(job[w].attempts + 1 >= MaxRetries) /\ ~Closed /\ Goto(w, retry)
           /\ job' = [job EXCEPT ![w].attempts = job[w].attempts + 1]
  <2>1. job[w] \in Job /\ job[w].attempts \in 0 .. MaxRetries BY <1>0 DEF ControlInv, Job
  <2> DEFINE n == job[w].attempts + 1
  <2>2. n \in 0 .. MaxRetries BY <1>4, <2>1, MemoryAssumption
  <2> HIDE DEF n
  <2>3. [job[w] EXCEPT !.attempts = n] \in Job BY <2>1, <2>2 DEF Job
  <2>4. job' = [job EXCEPT ![w] = [job[w] EXCEPT !.attempts = n]] BY <1>4 DEF n
  <2> QED BY <1>2, <1>4, <2>3, <2>4 DEF Goto
<1> QED BY <1>3, <1>4 DEF Handle

(* Clear, Close, and contexts that are canceled. *)
LEMMA Environment ==
  ASSUME QueueInv,
         Clear \/ CloseBegin \/ CloseReturn \/ \E x \in Process : CancelContext(x)
  PROVE  QueueInv'
<1>0. /\ ControlInv /\ RingInv /\ SlotsInv /\ SignalsInv /\ NothingAfterClose /\ WakeupsKept
  BY DEF QueueInv
<1>1. UNCHANGED <<pc, slots, job, origin, pushed>> BY DEF Clear, CloseBegin, CloseReturn, CancelContext
<1>2. SlotsInv' BY <1>0, <1>1 DEF SlotsInv, Busy, Held
<1>3. ASSUME UNCHANGED <<canceled, cancels>>, driver' \in {"open", "closing", "released"}
      PROVE  ControlInv'
  BY <1>0, <1>1, <1>3 DEF ControlInv
<1>4. ASSUME ClearQueue
      PROVE  RingInv' /\ SignalsInv' /\ WakeupsKept' /\ size' = 0
  <2>1. /\ RingInv' /\ size' = 0 /\ (notEmpty' = (size' > 0)) /\ (notFull' = (size' < Capacity))
    BY <1>4, ClearRing
  <2>2. SignalsInv' BY <2>1, SignalsFollow DEF RingInv
  <2> QED BY <2>1, <2>2, WakeupsFollow
<1>5. CASE Clear
  <2>1. driver' = driver /\ driver # "released" /\ ClearQueue /\ UNCHANGED <<canceled, cancels>>
    BY <1>5, <1>0 DEF Clear, Closed
  <2> QED BY <1>0, <1>2, <1>3, <1>4, <2>1, BeforeRelease DEF QueueInv, ControlInv
<1>6. CASE CloseBegin
  <2>1. driver' = "closing" /\ UNCHANGED queueVars /\ UNCHANGED <<canceled, cancels>>
    BY <1>6 DEF CloseBegin
  <2>2. WakeupsKept' BY <2>1 DEF WakeupsKept, NoLostWakeup, Closed
  <2> QED BY <1>0, <1>2, <1>3, <2>1, <2>2, QueueStays, BeforeRelease DEF QueueInv
<1>7. CASE CloseReturn
  <2>1. /\ driver' = "released" /\ ClearQueue /\ UNCHANGED <<canceled, cancels>>
        /\ \A x \in Process : ~InOperation(x)
    BY <1>7 DEF CloseReturn
  <2>2. Busy = {} /\ Held = {}
    <3>1. ASSUME NEW d \in Delivery PROVE pc[d] = "free"
      <4>1. d \in Process BY DEF Process
      <4>2. pc[d] \in {"free", "sleeping", "enqueue", "waitFull"} BY <1>0, <4>1, Labels DEF ControlInv
      <4> QED BY <2>1, <4>1, <4>2 DEF InOperation
    <3>2. ASSUME NEW x \in Producer \cup Worker PROVE pc[x] # "slotHeld"
      BY <2>1 DEF InOperation, Process
    <3> QED BY <3>1, <3>2 DEF Busy, Held
  <2>3. slots = 0
    <3>1. Cardinality({}) = 0 BY FS_EmptySet
    <3> QED BY <1>0, <2>2, <3>1 DEF SlotsInv
  <2>4. RingInv' /\ SignalsInv' /\ WakeupsKept' /\ size' = 0 BY <1>4, <2>1
  <2>5. NothingAfterClose' BY <1>1, <2>1, <2>3, <2>4 DEF NothingAfterClose, InOperation
  <2> QED BY <1>2, <1>3, <2>1, <2>4, <2>5 DEF QueueInv
<1>8. ASSUME NEW x \in Process, CancelContext(x) PROVE QueueInv'
  <2>1. /\ cancels < MaxCancels /\ cancels' = cancels + 1 /\ UNCHANGED driver /\ UNCHANGED queueVars
        /\ \E scope : canceled' = [y \in Process |-> canceled[y] \/ y \in scope]
    BY <1>8 DEF CancelContext
  <2>2. cancels' \in 0 .. MaxCancels /\ cancels' # 0
    BY <1>0, <2>1, MemoryAssumption DEF ControlInv
  <2>3. canceled' \in [Process -> BOOLEAN] BY <2>1
  <2>4. ControlInv' BY <1>0, <1>1, <2>1, <2>2, <2>3 DEF ControlInv
  <2>5. NothingAfterClose' BY <1>0, <1>1, <2>1 DEF NothingAfterClose, InOperation, queueVars
  <2>6. WakeupsKept' BY <2>2 DEF WakeupsKept
  <2> QED BY <1>0, <1>2, <2>1, <2>4, <2>5, <2>6, QueueStays DEF QueueInv
<1> QED BY <1>5, <1>6, <1>7, <1>8

(* Every step keeps the invariant. *)
LEMMA QueueStep == QueueInv /\ [Next]_vars => QueueInv'
<1> SUFFICES ASSUME QueueInv, [Next]_vars PROVE QueueInv'
  OBVIOUS
<1>1. CASE UNCHANGED vars
  BY <1>1 DEF vars, QueueInv, ControlInv, RingInv, RingIsFIFO, SlotsInv, Busy, Held, SignalsInv,
              SignalsTruthful, NothingAfterClose, InOperation, WakeupsKept, NoLostWakeup, Closed
<1>2. CASE Next
  BY <1>1, <1>2, PushBegins, Pushes, WaitsFull, Acquires, Starts, Delivers, Pops, Handles, Environment
     DEF Next, PushStep, PopStep, Terminated
<1> QED BY <1>1, <1>2

(* The invariant gives what QueueSound says. *)
LEMMA QueueFollows == QueueInv => QueueSound
<1> SUFFICES ASSUME QueueInv PROVE QueueSound
  OBVIOUS
<1>1. TypeOK BY DEF QueueInv, ControlInv, RingInv, SlotsInv, SignalsInv, TypeOK, Label
<1>2. SlotsAccounted BY DEF QueueInv, SlotsInv, SlotsAccounted, Busy, Held
<1> QED BY <1>1, <1>2 DEF QueueInv, RingInv, SignalsInv, QueueSound

(* The in-memory queue of any capacity, with any producers and workers:    *)
(* through wraparound, Clear, delayed retries, cancellation and Close the  *)
(* ring stays first in, first out, every slot token has one owner, a       *)
(* signal is true, no wakeup is lost while no context is canceled, and     *)
(* nothing runs or is queued after Close has returned.                     *)
THEOREM QueueIsSound == Spec => []QueueSound
<1> QED BY QueueStart, QueueStep, QueueFollows, PTL DEF Spec
===============================================================================
