--------------------------- MODULE ServicesProofs ---------------------------
(* Proofs about the services behind the routes: usage and quotas,          *)
(* settings, assets, rate limits, and the plugins that keep content. Each  *)
(* component has its own inductive invariant; a step of MCServices is a    *)
(* step of one component and a stutter of the rest. Migrations and         *)
(* configuration, whose definitions sort and recurse, stay with TLC.       *)
EXTENDS MCServices, Sequences, FiniteSetTheorems, TLAPS

(***************************************************************************)
(* Usage.                                                                  *)
(***************************************************************************)

UsageRequest == [op : {"record", "consume"}, key : EventId, qty : Int, at : Int]
CounterRow == [value : Nat, version : Nat]
ReceiptRow == [known : {TRUE}, created : Nat, decision : {"denied", "accepted"}]
QuotaRow == [version : Nat, limit : Nat \cup {NoLimit}, overridden : BOOLEAN]

UsageType ==
  /\ receipt \in [EventId -> ReceiptRow \cup {U!NoReceipt}]
  /\ counter \in [U!Periods -> CounterRow]
  /\ quota \in QuotaRow
  /\ owner \in {"live", "deleting", "deleted"}
  /\ meter = [p \in Meter |-> meter[p]]
  /\ moment \in Nat
  /\ total \in [U!Periods -> Int]

(* A transaction under way: the age of its event, and what it has read,    *)
(* which is still so, since it holds the lock of the owner.                *)
TxSound(p) ==
  \/ meter[p] = U!Idle
  \/ /\ meter[p].phase \in {"reserved", "read"}
     /\ meter[p].m \in UsageRequest /\ meter[p].created \in Nat
     /\ meter[p].m.at <= meter[p].created + FutureSkew
     /\ meter[p].phase = "read" =>
          /\ owner = "live"
          /\ meter[p].limit = U!EffectiveLimit(quota)
          /\ meter[p].before = counter[U!PeriodOf(meter[p].m.at)]

(* One transaction at a time has read, none while the owner is deleted,    *)
(* and a key is applied by one at a time, which has no receipt yet.        *)
TxApart ==
  /\ owner = "deleting" => \A p \in Meter : meter[p] = U!Idle
  /\ \A p, q \in Meter : p # q /\ meter[p].phase = "read" => meter[q].phase # "read"
  /\ \A p, q \in Meter : p # q /\ meter[p] # U!Idle /\ meter[q] # U!Idle =>
       meter[p].m.key # meter[q].m.key
  /\ \A p \in Meter : meter[p] # U!Idle => ~receipt[meter[p].m.key].known

(* A fact that counted has its receipt, or is too old to be sent again,    *)
(* and no transaction under way is about it.                               *)
FactsRemembered ==
  owner # "deleted" =>
    /\ \A m \in recorded :
         /\ m \in UsageRequest
         /\ \/ receipt[m.key].known /\ receipt[m.key].created >= m.at - FutureSkew
            \/ m.at < moment - MaxEventAge
    /\ \A p \in Meter : meter[p] # U!Idle => meter[p].m \notin recorded

UsageInv ==
  /\ UsageType /\ (\A p \in Meter : TxSound(p)) /\ TxApart /\ FactsRemembered
  /\ U!CounterExact /\ U!RecordedOnce /\ U!NothingAfterDeletion

Within == \A d \in U!Periods : U!ConsumedWithin(d)

(* No row and no transaction at first.                                     *)
LEMMA UsageStart == Init => UsageInv
<1> SUFFICES ASSUME U!UsageInit PROVE UsageInv
  BY DEF Init
<1>1. \A p \in Meter : meter[p] = U!Idle /\ meter[p].phase = "idle" BY DEF U!UsageInit, U!Idle
<1>2. U!NoCounter \in CounterRow /\ U!NoCounter.value = 0 BY DEF CounterRow, U!NoCounter
<1>3. counter \in [U!Periods -> CounterRow] /\ total \in [U!Periods -> Int] /\ U!CounterExact
  BY <1>2 DEF U!UsageInit, U!CounterExact
<1>4. UsageType BY <1>3 DEF UsageType, U!UsageInit, QuotaRow, U!NoQuota
<1>5. TxApart BY <1>1 DEF TxApart, U!UsageInit
<1>6. FactsRemembered BY <1>1 DEF FactsRemembered, U!UsageInit
<1>7. U!RecordedOnce /\ U!NothingAfterDeletion BY DEF U!RecordedOnce, U!NothingAfterDeletion, U!UsageInit
<1> QED BY <1>1, <1>3, <1>4, <1>5, <1>6, <1>7 DEF UsageInv, TxSound

(* Which locks conflict.                                                   *)
LEMMA UsageLocks ==
  /\ U!LockConflict("KEY SHARE", "UPDATE") /\ U!LockConflict("UPDATE", "KEY SHARE")
  /\ U!LockConflict(U!OwnerLock, U!OwnerLock) /\ ~U!LockConflict(U!OwnerLock, "KEY SHARE")
<1>1. /\ {"UPDATE", "KEY SHARE"} = {"KEY SHARE", "UPDATE"}
      /\ {"NO KEY UPDATE", "NO KEY UPDATE"} = {"NO KEY UPDATE"}
  OBVIOUS
<1>2. ASSUME NEW set, "NO KEY UPDATE" \in set, "KEY SHARE" \in set
      PROVE  set \notin {{"KEY SHARE", "UPDATE"}, {"NO KEY UPDATE", "UPDATE"}, {"NO KEY UPDATE"}, {"UPDATE"}}
  <2>1. "NO KEY UPDATE" \notin {"KEY SHARE", "UPDATE"} OBVIOUS
  <2>2. "KEY SHARE" \notin {"NO KEY UPDATE", "UPDATE"} OBVIOUS
  <2>3. "KEY SHARE" \notin {"NO KEY UPDATE"} OBVIOUS
  <2>4. "KEY SHARE" \notin {"UPDATE"} OBVIOUS
  <2>5. /\ set # {"KEY SHARE", "UPDATE"} /\ set # {"NO KEY UPDATE", "UPDATE"}
        /\ set # {"NO KEY UPDATE"} /\ set # {"UPDATE"}
    BY <1>2, <2>1, <2>2, <2>3, <2>4, Zenon
  <2> QED BY <2>5, Zenon
<1>3. "NO KEY UPDATE" \in {"NO KEY UPDATE", "KEY SHARE"} /\ "KEY SHARE" \in {"NO KEY UPDATE", "KEY SHARE"}
  OBVIOUS
<1>4. ~U!LockConflict("NO KEY UPDATE", "KEY SHARE") BY <1>2, <1>3, Zenon DEF U!LockConflict
<1>5. U!LockConflict("KEY SHARE", "UPDATE") BY DEF U!LockConflict
<1>6. U!LockConflict("UPDATE", "KEY SHARE") BY <1>1 DEF U!LockConflict
<1>7. U!LockConflict("NO KEY UPDATE", "NO KEY UPDATE") BY <1>1 DEF U!LockConflict
<1> QED BY <1>4, <1>5, <1>6, <1>7, Zenon DEF U!OwnerLock

(* What a transaction holds by its phase.                                  *)
LEMMA UsageHeld ==
  ASSUME NEW p \in Meter
  PROVE  /\ meter[p].phase = "reserved" => U!OwnerLocks(p) = {"KEY SHARE"}
         /\ meter[p].phase = "read" => U!OwnerLocks(p) = {"KEY SHARE", U!OwnerLock}
         /\ meter[p].phase \notin {"reserved", "read"} => U!OwnerLocks(p) = {}
BY DEF U!OwnerLocks

(* What is granted beside the transactions of own.                         *)
LEMMA UsageGranted ==
  ASSUME UsageInv, NEW own
  PROVE  /\ U!Grantable(U!OwnerLock, own) =>
              owner # "deleting" /\ \A q \in Meter \ own : meter[q].phase # "read"
         /\ U!Grantable("UPDATE", own) =>
              owner # "deleting" /\ \A q \in Meter \ own : meter[q] = U!Idle
<1>1. ASSUME U!Grantable(U!OwnerLock, own), NEW q \in Meter \ own PROVE meter[q].phase # "read"
  BY <1>1, UsageLocks, UsageHeld DEF U!Grantable
<1>2. ASSUME U!Grantable("UPDATE", own), NEW q \in Meter \ own PROVE meter[q] = U!Idle
  <2>1. meter[q] = U!Idle \/ meter[q].phase \in {"reserved", "read"} BY DEF UsageInv, TxSound
  <2>2. meter[q].phase \in {"reserved", "read"} => "KEY SHARE" \in U!OwnerLocks(q)
    BY UsageHeld
  <2> QED BY <1>2, <2>1, <2>2, UsageLocks DEF U!Grantable
<1> QED BY <1>1, <1>2 DEF U!Grantable

(* A transaction that ends, and nothing else.                              *)
LEMMA TxEnds ==
  ASSUME UsageInv, NEW p \in Meter, meter' = [meter EXCEPT ![p] = U!Idle],
         UNCHANGED <<receipt, counter, quota, owner, moment, total, recorded, recounted>>
  PROVE  UsageInv' /\ Within
<1>0. UsageType /\ TxApart /\ FactsRemembered BY DEF UsageInv
<1>1. /\ \A q \in Meter : meter'[q] = IF q = p THEN U!Idle ELSE meter[q]
      /\ meter' = [q \in Meter |-> meter'[q]] /\ U!Idle.phase = "idle"
  BY <1>0 DEF UsageType, U!Idle
<1>2. UsageType' BY <1>0, <1>1 DEF UsageType
<1>3. \A q \in Meter : TxSound(q)' BY <1>1 DEF UsageInv, TxSound, U!EffectiveLimit, U!PeriodOf
<1>4. TxApart'
  <2>1. \A q \in Meter : meter'[q] # U!Idle => meter'[q] = meter[q] BY <1>1
  <2>2. \A q \in Meter : meter'[q].phase = "read" => meter'[q] = meter[q] BY <1>1
  <2> QED BY <1>0, <1>1, <2>1, <2>2 DEF TxApart
<1>5. FactsRemembered' BY <1>0, <1>1 DEF FactsRemembered
<1>6. U!CounterExact' /\ U!RecordedOnce' /\ U!NothingAfterDeletion'
  BY DEF UsageInv, U!CounterExact, U!RecordedOnce, U!NothingAfterDeletion
<1>7. Within
  <2>1. \A d \in U!Periods : counter[d].value \in Nat BY <1>0 DEF UsageType, CounterRow
  <2> QED BY <2>1 DEF Within, U!ConsumedWithin
<1> QED BY <1>2, <1>3, <1>4, <1>5, <1>6, <1>7 DEF UsageInv

(* A transaction reserves its key.                                         *)
LEMMA ReserveStep ==
  ASSUME UsageInv, NEW p \in Meter, NEW m \in UsageRequest, m.at <= moment + FutureSkew,
         m.at >= moment - MaxEventAge, U!Reserve(p, m)
  PROVE  UsageInv' /\ Within
<1> DEFINE tx == [phase |-> "reserved", m |-> m, created |-> moment]
<1>0. UsageType /\ TxApart /\ FactsRemembered BY DEF UsageInv
<1>1. /\ meter' = [meter EXCEPT ![p] = tx] /\ ~receipt[m.key].known
      /\ \A q \in Meter : meter[q] # U!Idle => meter[q].m.key # m.key
      /\ owner # "deleting"
      /\ UNCHANGED <<receipt, counter, quota, owner, moment, total, recorded, recounted>>
  BY DEF U!Reserve, U!Grantable
<1>2. tx.phase = "reserved" /\ tx.m = m /\ tx.created = moment /\ tx # U!Idle BY DEF U!Idle
<1> HIDE DEF tx
<1>3. /\ \A q \in Meter : meter'[q] = IF q = p THEN tx ELSE meter[q]
      /\ meter' = [q \in Meter |-> meter'[q]]
  BY <1>0, <1>1 DEF UsageType
<1>4. UsageType' BY <1>0, <1>1, <1>3 DEF UsageType
<1>5. \A q \in Meter : TxSound(q)'
  BY <1>0, <1>1, <1>2, <1>3 DEF UsageInv, UsageType, TxSound, U!EffectiveLimit, U!PeriodOf
<1>6. TxApart'
  <2>1. \A q, x \in Meter : q # x /\ meter'[q] # U!Idle /\ meter'[x] # U!Idle =>
          meter'[q].m.key # meter'[x].m.key
    BY <1>0, <1>1, <1>2, <1>3 DEF TxApart
  <2>2. \A q \in Meter : meter'[q].phase = "read" => meter'[q] = meter[q] BY <1>2, <1>3
  <2>3. \A q \in Meter : meter'[q] # U!Idle => ~receipt'[meter'[q].m.key].known
    BY <1>0, <1>1, <1>2, <1>3 DEF TxApart
  <2> QED BY <1>0, <1>1, <2>1, <2>2, <2>3 DEF TxApart
<1>7. FactsRemembered'
  <2>1. owner # "deleted" => m \notin recorded
    <3>1. ~(m.at < moment - MaxEventAge)
      BY <1>0, ServicesAssumption DEF UsageType, UsageRequest, U!UsageAssumption
    <3> QED BY <1>0, <1>1, <3>1 DEF FactsRemembered
  <2> QED BY <1>0, <1>1, <1>2, <1>3, <2>1 DEF FactsRemembered
<1>8. U!CounterExact' /\ U!RecordedOnce' /\ U!NothingAfterDeletion'
  BY <1>1 DEF UsageInv, U!CounterExact, U!RecordedOnce, U!NothingAfterDeletion
<1>9. Within
  <2>1. \A d \in U!Periods : counter[d].value \in Nat BY <1>0 DEF UsageType, CounterRow
  <2> QED BY <1>1, <2>1 DEF Within, U!ConsumedWithin
<1> QED BY <1>4, <1>5, <1>6, <1>7, <1>8, <1>9 DEF UsageInv

(* It locks the owner and reads.                                           *)
LEMMA LockOwnerStep ==
  ASSUME UsageInv, NEW p \in Meter, U!LockOwner(p) PROVE UsageInv' /\ Within
<1> DEFINE d == U!PeriodOf(meter[p].m.at)
           tx == [phase |-> "read", m |-> meter[p].m, created |-> meter[p].created,
                  limit |-> U!EffectiveLimit(quota), before |-> counter[d]]
<1>0. UsageType /\ TxApart /\ FactsRemembered BY DEF UsageInv
<1>1. /\ meter[p].phase = "reserved" /\ U!Grantable(U!OwnerLock, {p})
      /\ meter' = [meter EXCEPT ![p] = IF owner = "deleted" THEN U!Idle ELSE tx]
      /\ UNCHANGED <<receipt, counter, quota, owner, moment, total, recorded, recounted>>
  BY DEF U!LockOwner
<1>2. CASE owner = "deleted" BY <1>1, <1>2, TxEnds
<1>3. CASE owner # "deleted"
  <2>1. owner = "live" /\ \A q \in Meter \ {p} : meter[q].phase # "read"
    BY <1>0, <1>1, <1>3, UsageGranted DEF UsageType
  <2>2. /\ tx.phase = "read" /\ tx.m = meter[p].m /\ tx.created = meter[p].created
        /\ tx.limit = U!EffectiveLimit(quota) /\ tx.before = counter[d] /\ tx # U!Idle
    BY DEF U!Idle
  <2> HIDE DEF tx
  <2>3. /\ \A q \in Meter : meter'[q] = IF q = p THEN tx ELSE meter[q]
        /\ meter' = [q \in Meter |-> meter'[q]]
    BY <1>0, <1>1, <1>3 DEF UsageType
  <2>4. UsageType' BY <1>0, <1>1, <2>3 DEF UsageType
  <2>5. meter[p] # U!Idle BY <1>1 DEF U!Idle
  <2>6. \A q \in Meter : TxSound(q)'
    <3>1. \A q \in Meter : TxSound(q) BY DEF UsageInv
    <3> SUFFICES ASSUME NEW q \in Meter PROVE TxSound(q)'
      OBVIOUS
    <3>2. CASE q = p
      <4>1. meter'[p] = tx /\ meter[p].m \in UsageRequest /\ meter[p].created \in Nat
            /\ meter[p].m.at <= meter[p].created + FutureSkew
        BY <2>3, <2>5, <3>1 DEF TxSound
      <4> QED BY <1>1, <2>1, <2>2, <3>2, <4>1 DEF TxSound, U!EffectiveLimit, U!PeriodOf
    <3>3. CASE q # p
      BY <1>1, <2>3, <3>1, <3>3 DEF TxSound, U!EffectiveLimit, U!PeriodOf
    <3> QED BY <3>2, <3>3
  <2>7. TxApart'
    <3>1. \A q \in Meter : meter'[q] # U!Idle => meter[q] # U!Idle /\ meter'[q].m = meter[q].m
      BY <2>2, <2>3, <2>5
    <3>2. \A q \in Meter \ {p} : meter'[q].phase # "read" BY <2>1, <2>3
    <3>3. \A q, x \in Meter : q # x /\ meter'[q].phase = "read" => meter'[x].phase # "read"
      BY <3>2
    <3> QED BY <1>0, <1>1, <2>1, <3>1, <3>3 DEF TxApart
  <2>8. FactsRemembered' BY <1>0, <1>1, <2>2, <2>3, <2>5 DEF FactsRemembered
  <2>9. U!CounterExact' /\ U!RecordedOnce' /\ U!NothingAfterDeletion'
    BY <1>1 DEF UsageInv, U!CounterExact, U!RecordedOnce, U!NothingAfterDeletion
  <2>10. Within
    <3>1. \A x \in U!Periods : counter[x].value \in Nat BY <1>0 DEF UsageType, CounterRow
    <3> QED BY <1>1, <3>1 DEF Within, U!ConsumedWithin
  <2> QED BY <2>4, <2>6, <2>7, <2>8, <2>9, <2>10 DEF UsageInv
<1> QED BY <1>2, <1>3

(* It settles: the counter and the receipt are written.                    *)
LEMMA SettleStep ==
  ASSUME UsageInv, NEW p \in Meter, U!Settle(p) PROVE UsageInv' /\ Within
<1> DEFINE m == meter[p].m
           d == U!PeriodOf(meter[p].m.at)
           row == [known |-> TRUE, created |-> meter[p].created,
                   decision |-> IF U!Denied(meter[p]) THEN "denied" ELSE "accepted"]
           moved == [value |-> meter[p].before.value + meter[p].m.qty,
                     version |-> meter[p].before.version + 1]
<1>0. UsageType /\ TxApart /\ FactsRemembered /\ U!CounterExact /\ U!RecordedOnce BY DEF UsageInv
<1>1. /\ meter[p].phase = "read" /\ U!SafeSum(meter[p].before.value, m.qty)
      /\ receipt' = [receipt EXCEPT ![m.key] = row]
      /\ meter' = [meter EXCEPT ![p] = U!Idle] /\ UNCHANGED <<quota, owner, moment>>
      /\ \/ U!Denied(meter[p]) /\ UNCHANGED <<counter, total, recorded, recounted>>
         \/ /\ ~U!Denied(meter[p])
            /\ counter' = [counter EXCEPT ![d] = moved]
            /\ total' = [total EXCEPT ![d] = @ + m.qty]
            /\ recorded' = recorded \cup IF m.op = "record" THEN {m} ELSE {}
            /\ recounted' = (recounted \/ m \in recorded)
  BY DEF U!Settle
<1>2. /\ m \in UsageRequest /\ meter[p].created \in Nat /\ m.at <= meter[p].created + FutureSkew
      /\ owner = "live" /\ meter[p].limit = U!EffectiveLimit(quota)
      /\ meter[p].before = counter[d] /\ meter[p] # U!Idle
  <2>1. TxSound(p) /\ meter[p] # U!Idle BY <1>1 DEF UsageInv, U!Idle
  <2> QED BY <1>1, <2>1 DEF TxSound
<1>3. m.key \in EventId /\ m.qty \in Int /\ m.at \in Int /\ m.op \in {"record", "consume"}
  BY <1>2 DEF UsageRequest
<1>4. row \in ReceiptRow /\ row.known = TRUE /\ row.created = meter[p].created BY <1>2 DEF ReceiptRow
<1>5. d \in U!Periods => moved \in CounterRow
  <2>1. d \in U!Periods => counter[d] \in CounterRow BY <1>0 DEF UsageType
  <2>2. counter[d] \in CounterRow => counter[d].version \in Nat BY DEF CounterRow
  <2>3. counter[d].value + m.qty \in Nat
    BY <1>1, <1>2, ServicesAssumption DEF U!SafeSum, U!UsageAssumption
  <2> QED BY <1>2, <2>1, <2>2, <2>3 DEF CounterRow
<1>6. moved.value = counter[d].value + m.qty BY <1>2
<1> HIDE DEF row, moved, d
<1>7. /\ \A k \in EventId : receipt'[k] = IF k = m.key THEN row ELSE receipt[k]
      /\ \A q \in Meter : meter'[q] = IF q = p THEN U!Idle ELSE meter[q]
      /\ meter' = [q \in Meter |-> meter'[q]] /\ U!Idle.phase = "idle"
  BY <1>0, <1>1 DEF UsageType, U!Idle
<1>8. ~U!Denied(meter[p]) =>
        /\ \A x \in U!Periods : counter'[x] = IF x = d THEN moved ELSE counter[x]
        /\ \A x \in U!Periods : total'[x] = IF x = d THEN total[x] + m.qty ELSE total[x]
  BY <1>0, <1>1 DEF UsageType
<1>9. UsageType'
  <2>1. receipt' \in [EventId -> ReceiptRow \cup {U!NoReceipt}]
    BY <1>0, <1>1, <1>3, <1>4 DEF UsageType
  <2>2. counter' \in [U!Periods -> CounterRow]
    BY <1>0, <1>1, <1>5 DEF UsageType
  <2>3. total' \in [U!Periods -> Int]
    BY <1>0, <1>1, <1>3 DEF UsageType
  <2> QED BY <1>0, <1>1, <1>7, <2>1, <2>2, <2>3 DEF UsageType
<1>10. \A q \in Meter : TxSound(q)'
  <2> SUFFICES ASSUME NEW q \in Meter PROVE TxSound(q)'
    OBVIOUS
  <2>1. CASE q = p BY <1>7, <2>1 DEF TxSound
  <2>2. CASE q # p
    <3>1. meter'[q] = meter[q] /\ meter[q].phase # "read" BY <1>0, <1>1, <1>7, <2>2 DEF TxApart
    <3> QED BY <3>1 DEF UsageInv, TxSound
  <2> QED BY <2>1, <2>2
<1>11. TxApart'
  <2>1. \A q \in Meter : meter'[q] # U!Idle => q # p /\ meter'[q] = meter[q] BY <1>7
  <2>2. \A q \in Meter : meter'[q].phase = "read" => meter'[q] = meter[q] BY <1>7
  <2>3. \A q \in Meter : meter'[q] # U!Idle => ~receipt'[meter'[q].m.key].known
    <3> SUFFICES ASSUME NEW q \in Meter, meter'[q] # U!Idle PROVE ~receipt'[meter[q].m.key].known
      BY <2>1
    <3>1. q # p /\ meter[q] # U!Idle BY <2>1
    <3>2. meter[q].m.key # m.key /\ ~receipt[meter[q].m.key].known BY <1>0, <1>2, <3>1 DEF TxApart
    <3>3. meter[q].m.key \in EventId
      <4>1. meter[q].m \in UsageRequest BY <3>1 DEF UsageInv, TxSound
      <4> QED BY <4>1 DEF UsageRequest
    <3> QED BY <1>7, <3>2, <3>3
  <2> QED BY <1>0, <1>1, <1>2, <2>1, <2>2, <2>3 DEF TxApart
<1>12. FactsRemembered'
  <2>1. ASSUME NEW x \in recorded PROVE
          /\ x \in UsageRequest
          /\ \/ receipt'[x.key].known /\ receipt'[x.key].created >= x.at - FutureSkew
             \/ x.at < moment - MaxEventAge
    <3>1. x \in UsageRequest /\ x.key \in EventId /\ x.at \in Int
      BY <1>0, <1>2, <2>1 DEF FactsRemembered, UsageRequest
    <3>2. \/ receipt[x.key].known /\ receipt[x.key].created >= x.at - FutureSkew
          \/ x.at < moment - MaxEventAge
      BY <1>0, <1>2, <2>1 DEF FactsRemembered
    <3>3. ~receipt[m.key].known BY <1>0, <1>2 DEF TxApart
    <3> QED BY <1>7, <3>1, <3>2, <3>3
  <2>2. /\ m \in UsageRequest
        /\ receipt'[m.key].known /\ receipt'[m.key].created >= m.at - FutureSkew
    BY <1>2, <1>3, <1>4, <1>7, ServicesAssumption DEF U!UsageAssumption
  <2>3. recorded' = recorded \/ recorded' = recorded \cup {m} BY <1>1
  <2>4. \A q \in Meter : meter'[q] # U!Idle => meter'[q].m # m /\ meter'[q].m \notin recorded
    BY <1>0, <1>2, <1>7 DEF TxApart, FactsRemembered
  <2> HIDE DEF m
  <2>5. \A x \in recorded' : x \in recorded \/ x = m BY <2>3
  <2> QED BY <1>1, <2>1, <2>2, <2>4, <2>5 DEF FactsRemembered
<1>13. U!CounterExact' BY <1>0, <1>1, <1>6, <1>8 DEF U!CounterExact
<1>14. U!RecordedOnce' BY <1>0, <1>1, <1>2 DEF U!RecordedOnce, FactsRemembered
<1>15. U!NothingAfterDeletion' BY <1>1, <1>2 DEF U!NothingAfterDeletion
<1>16. Within
  <2> SUFFICES ASSUME NEW x \in U!Periods, counter'[x].value > counter[x].value,
                      recorded' = recorded, ~recounted'
               PROVE  U!EffectiveLimit(quota) = NoLimit \/ counter'[x].value <= U!EffectiveLimit(quota)
    BY DEF Within, U!ConsumedWithin
  <2>1. counter[x].value \in Nat BY <1>0 DEF UsageType, CounterRow
  <2>2. ~U!Denied(meter[p]) /\ x = d BY <1>1, <1>8, <2>1
  <2>3. counter'[x].value = counter[d].value + m.qty BY <1>6, <1>8, <2>2
  <2>4. m \notin recorded BY <1>1, <2>2
  <2>5. m.op = "consume" BY <1>1, <1>3, <2>2, <2>4
  <2>6. U!EffectiveLimit(quota) # NoLimit => ~(counter[d].value + m.qty > U!EffectiveLimit(quota))
    BY <1>2, <2>2, <2>5 DEF U!Denied
  <2>7. U!EffectiveLimit(quota) # NoLimit => U!EffectiveLimit(quota) \in Int
    BY <1>0, ServicesAssumption DEF UsageType, QuotaRow, U!EffectiveLimit, U!UsageAssumption
  <2> QED BY <1>2, <1>3, <2>1, <2>2, <2>3, <2>6, <2>7
<1> QED BY <1>9, <1>10, <1>11, <1>12, <1>13, <1>14, <1>15, <1>16 DEF UsageInv

(* A quota is set or reset: only it changes, and no transaction has read.  *)
LEMMA QuotaRequestStep ==
  ASSUME UsageInv, U!QuotaRequest PROVE UsageInv' /\ Within
<1>0. UsageType /\ TxApart /\ FactsRemembered BY DEF UsageInv
<1>1. PICK expected \in 0 .. MaxQuotas : \/ \E limit \in 0 .. MaxSafe : U!SetQuota(limit, expected)
                                        \/ U!ResetQuota(expected)
  BY DEF U!QuotaRequest
<1>2. /\ owner = "live" /\ U!Grantable(U!OwnerLock, {}) /\ quota' \in QuotaRow
      /\ UNCHANGED <<receipt, counter, owner, meter, moment, total, recorded, recounted>>
  <2>1. expected + 1 \in Nat OBVIOUS
  <2>2. CASE U!ResetQuota(expected) BY <2>1, <2>2 DEF U!ResetQuota, QuotaRow
  <2>3. CASE \E limit \in 0 .. MaxSafe : U!SetQuota(limit, expected)
    <3>1. PICK limit \in 0 .. MaxSafe : U!SetQuota(limit, expected) BY <2>3
    <3>2. limit \in Nat BY ServicesAssumption DEF U!UsageAssumption
    <3> QED BY <2>1, <3>1, <3>2 DEF U!SetQuota, QuotaRow
  <2> QED BY <1>1, <2>2, <2>3
<1>3. \A q \in Meter : meter[q].phase # "read" BY <1>2, UsageGranted
<1>4. UsageType' BY <1>0, <1>2 DEF UsageType
<1>5. \A q \in Meter : TxSound(q)' BY <1>2, <1>3 DEF UsageInv, TxSound
<1>6. TxApart' /\ FactsRemembered' BY <1>0, <1>2 DEF TxApart, FactsRemembered
<1>7. U!CounterExact' /\ U!RecordedOnce' /\ U!NothingAfterDeletion'
  BY <1>2 DEF UsageInv, U!CounterExact, U!RecordedOnce, U!NothingAfterDeletion
<1>8. Within
  <2>1. \A x \in U!Periods : counter[x].value \in Nat BY <1>0 DEF UsageType, CounterRow
  <2> QED BY <1>2, <2>1 DEF Within, U!ConsumedWithin
<1> QED BY <1>4, <1>5, <1>6, <1>7, <1>8 DEF UsageInv

(* Receipts are pruned: the facts they were of are too old to come again.  *)
LEMMA PruneReceiptsStep ==
  ASSUME UsageInv, NEW cutoff \in 0 .. MaxMoment, U!PruneReceipts(cutoff) PROVE UsageInv' /\ Within
<1>0. UsageType /\ TxApart /\ FactsRemembered BY DEF UsageInv
<1>1. /\ cutoff <= moment - Retention
      /\ receipt' = [k \in EventId |->
           IF receipt[k].known /\ receipt[k].created < cutoff THEN U!NoReceipt ELSE receipt[k]]
      /\ UNCHANGED <<counter, quota, owner, meter, moment, total, recorded, recounted>>
  BY DEF U!PruneReceipts
<1>2. U!NoReceipt.known = FALSE BY DEF U!NoReceipt
<1>3. \A k \in EventId : receipt'[k] = receipt[k] \/
        (receipt[k].known /\ receipt[k].created < cutoff /\ receipt'[k] = U!NoReceipt)
  BY <1>1
<1>4. \A k \in EventId : ~receipt[k].known => ~receipt'[k].known BY <1>2, <1>3
<1>5. UsageType'
  <2>1. receipt' \in [EventId -> ReceiptRow \cup {U!NoReceipt}] BY <1>0, <1>1 DEF UsageType
  <2> QED BY <1>0, <1>1, <2>1 DEF UsageType
<1>6. \A q \in Meter : TxSound(q)' BY <1>1 DEF UsageInv, TxSound, U!EffectiveLimit, U!PeriodOf
<1>7. TxApart'
  <2>1. ASSUME NEW q \in Meter, meter[q] # U!Idle PROVE ~receipt'[meter[q].m.key].known
    <3>1. meter[q].m \in UsageRequest BY <2>1 DEF UsageInv, TxSound
    <3>2. meter[q].m.key \in EventId BY <3>1 DEF UsageRequest
    <3> QED BY <1>0, <1>4, <2>1, <3>2 DEF TxApart
  <2> QED BY <1>0, <1>1, <2>1 DEF TxApart
<1>8. FactsRemembered'
  <2> SUFFICES ASSUME NEW x \in recorded, owner # "deleted"
               PROVE  /\ x \in UsageRequest
                      /\ \/ receipt'[x.key].known /\ receipt'[x.key].created >= x.at - FutureSkew
                         \/ x.at < moment - MaxEventAge
    BY <1>0, <1>1 DEF FactsRemembered
  <2>1. /\ x \in UsageRequest /\ x.key \in EventId /\ x.at \in Int
        /\ \/ receipt[x.key].known /\ receipt[x.key].created >= x.at - FutureSkew
           \/ x.at < moment - MaxEventAge
    BY <1>0 DEF FactsRemembered, UsageRequest
  <2>2. CASE receipt'[x.key] = receipt[x.key] BY <2>1, <2>2
  <2>3. CASE receipt'[x.key] # receipt[x.key]
    <3>1. receipt[x.key].known /\ receipt[x.key].created < cutoff /\ receipt[x.key].created \in Nat
      <4>1. receipt[x.key].known /\ receipt[x.key].created < cutoff BY <1>3, <2>1, <2>3
      <4>2. receipt[x.key] \in ReceiptRow BY <1>0, <1>2, <2>1, <4>1 DEF UsageType
      <4> QED BY <4>1, <4>2 DEF ReceiptRow
    <3>2. /\ moment \in Nat /\ MaxEventAge \in Nat /\ FutureSkew \in Nat
          /\ MaxEventAge + FutureSkew <= Retention
      BY <1>0, ServicesAssumption DEF UsageType, U!UsageAssumption
    <3>3. Retention \in Nat BY ServicesAssumption DEF U!UsageAssumption
    <3> QED BY <1>1, <2>1, <3>1, <3>2, <3>3
  <2> QED BY <2>2, <2>3
<1>9. U!CounterExact' /\ U!RecordedOnce' BY <1>1 DEF UsageInv, U!CounterExact, U!RecordedOnce
<1>10. U!NothingAfterDeletion' BY <1>1, <1>4 DEF UsageInv, U!NothingAfterDeletion
<1>11. Within
  <2>1. \A x \in U!Periods : counter[x].value \in Nat BY <1>0 DEF UsageType, CounterRow
  <2> QED BY <1>1, <2>1 DEF Within, U!ConsumedWithin
<1> QED BY <1>5, <1>6, <1>7, <1>8, <1>9, <1>10, <1>11 DEF UsageInv

(* The account is locked for its deletion, which fails or is carried out.  *)
LEMMA UsageDeletionStep ==
  ASSUME UsageInv, U!LockDeleted \/ U!DeletionRollBack \/ U!DeleteForUser PROVE UsageInv' /\ Within
<1>0. UsageType /\ TxApart /\ FactsRemembered BY DEF UsageInv
<1>1. \A x \in U!Periods : counter[x].value \in Nat BY <1>0 DEF UsageType, CounterRow
<1>2. \A q \in Meter : meter'[q] = U!Idle /\ meter' = meter
  <2>1. U!LockDeleted => \A q \in Meter : meter[q] = U!Idle BY UsageGranted DEF U!LockDeleted
  <2>2. U!DeletionRollBack \/ U!DeleteForUser => \A q \in Meter : meter[q] = U!Idle
    BY <1>0 DEF U!DeletionRollBack, U!DeleteForUser, TxApart
  <2> QED BY <2>1, <2>2 DEF U!LockDeleted, U!DeletionRollBack, U!DeleteForUser
<1>3. U!Idle.phase = "idle" BY DEF U!Idle
<1>4. (\A q \in Meter : TxSound(q)') /\ TxApart' BY <1>2, <1>3 DEF TxSound, TxApart
<1>5. CASE U!LockDeleted \/ U!DeletionRollBack
  <2>1. /\ owner # "deleted" /\ owner' \in {"live", "deleting"}
        /\ UNCHANGED <<receipt, counter, quota, meter, moment, total, recorded, recounted>>
    BY <1>5 DEF U!LockDeleted, U!DeletionRollBack
  <2>2. UsageType' BY <1>0, <2>1 DEF UsageType
  <2>3. FactsRemembered' BY <1>0, <2>1 DEF FactsRemembered
  <2>4. U!CounterExact' /\ U!RecordedOnce' /\ U!NothingAfterDeletion'
    BY <2>1 DEF UsageInv, U!CounterExact, U!RecordedOnce, U!NothingAfterDeletion
  <2>5. Within BY <1>1, <2>1 DEF Within, U!ConsumedWithin
  <2> QED BY <1>4, <2>2, <2>3, <2>4, <2>5 DEF UsageInv
<1>6. CASE U!DeleteForUser
  <2>1. /\ owner' = "deleted" /\ receipt' = [k \in EventId |-> U!NoReceipt]
        /\ counter' = [d \in U!Periods |-> U!NoCounter] /\ quota' = U!NoQuota
        /\ total' = [d \in U!Periods |-> 0] /\ UNCHANGED <<meter, moment, recorded, recounted>>
    BY <1>6 DEF U!DeleteForUser
  <2>2. U!NoCounter \in CounterRow /\ U!NoCounter.value = 0 /\ U!NoReceipt.known = FALSE
    BY DEF CounterRow, U!NoCounter, U!NoReceipt
  <2>3. counter' \in [U!Periods -> CounterRow] /\ total' \in [U!Periods -> Int] BY <2>1, <2>2
  <2>4. receipt' \in [EventId -> ReceiptRow \cup {U!NoReceipt}] /\ quota' \in QuotaRow
    BY <2>1 DEF U!NoQuota, QuotaRow
  <2>5. UsageType' BY <1>0, <2>1, <2>3, <2>4 DEF UsageType
  <2>6. FactsRemembered' BY <2>1 DEF FactsRemembered
  <2>7. U!CounterExact' /\ U!RecordedOnce' /\ U!NothingAfterDeletion'
    BY <2>1, <2>2 DEF UsageInv, U!CounterExact, U!RecordedOnce, U!NothingAfterDeletion
  <2>8. Within BY <1>1, <2>1, <2>2 DEF Within, U!ConsumedWithin
  <2> QED BY <1>4, <2>5, <2>6, <2>7, <2>8 DEF UsageInv
<1> QED BY <1>5, <1>6

(* The clock: what is too old stays so.                                    *)
LEMMA UsageTickStep ==
  ASSUME UsageInv, U!UsageTick PROVE UsageInv' /\ Within
<1>0. UsageType /\ TxApart /\ FactsRemembered BY DEF UsageInv
<1>1. /\ moment' = moment + 1
      /\ UNCHANGED <<receipt, counter, quota, owner, meter, total, recorded, recounted>>
  BY DEF U!UsageTick
<1>2. UsageType' BY <1>0, <1>1 DEF UsageType
<1>3. \A q \in Meter : TxSound(q)' BY <1>1 DEF UsageInv, TxSound, U!EffectiveLimit, U!PeriodOf
<1>4. TxApart' BY <1>0, <1>1 DEF TxApart
<1>5. FactsRemembered'
  <2>1. \A x \in UsageRequest : x.at \in Int BY DEF UsageRequest
  <2>2. \A x \in UsageRequest : x.at < moment - MaxEventAge => x.at < moment' - MaxEventAge
    BY <1>0, <1>1, <2>1, ServicesAssumption DEF UsageType, U!UsageAssumption
  <2> QED BY <1>0, <1>1, <2>2 DEF FactsRemembered
<1>6. U!CounterExact' /\ U!RecordedOnce' /\ U!NothingAfterDeletion'
  BY <1>1 DEF UsageInv, U!CounterExact, U!RecordedOnce, U!NothingAfterDeletion
<1>7. Within
  <2>1. \A x \in U!Periods : counter[x].value \in Nat BY <1>0 DEF UsageType, CounterRow
  <2> QED BY <1>1, <2>1 DEF Within, U!ConsumedWithin
<1> QED BY <1>2, <1>3, <1>4, <1>5, <1>6, <1>7 DEF UsageInv

(* A request is checked against the clock before it reserves its key.      *)
LEMMA UsageRequests ==
  ASSUME UsageType
  PROVE  \A m \in U!RecordRequests \cup U!ConsumeRequests :
           m \in UsageRequest /\ m.at <= moment + FutureSkew /\ m.at >= moment - MaxEventAge
<1>1. \A x \in Amount : x \in Int /\ -x \in Int BY ServicesAssumption DEF U!UsageAssumption
<1>2. moment \in Nat /\ FutureSkew \in Nat /\ MaxEventAge \in Nat
  BY ServicesAssumption DEF UsageType, U!UsageAssumption
<1>3. Amount \cup {-x : x \in Amount} \subseteq Int BY <1>1
<1>4. \A m \in U!RecordRequests :
        m \in UsageRequest /\ m.at <= moment + FutureSkew /\ m.at >= moment - MaxEventAge
  BY <1>2, <1>3 DEF U!RecordRequests, UsageRequest
<1>5. \A m \in U!ConsumeRequests :
        m \in UsageRequest /\ m.at <= moment + FutureSkew /\ m.at >= moment - MaxEventAge
  BY <1>1, <1>2 DEF U!ConsumeRequests, UsageRequest
<1> QED BY <1>4, <1>5

(* Every step.                                                             *)
LEMMA UsageStep == UsageInv /\ [Next]_vars => UsageInv' /\ [Within]_(U!usageVars)
<1> SUFFICES ASSUME UsageInv, [Next]_vars PROVE UsageInv' /\ [Within]_(U!usageVars)
  OBVIOUS
<1>1. CASE UNCHANGED usageVars
  <2>1. UNCHANGED <<receipt, counter, quota, owner, meter, moment, total, recorded, recounted>>
    BY <1>1 DEF usageVars
  <2>2. UsageType' /\ TxApart' /\ FactsRemembered'
    BY <2>1 DEF UsageInv, UsageType, TxApart, FactsRemembered
  <2>3. \A q \in Meter : TxSound(q)' BY <2>1 DEF UsageInv, TxSound, U!EffectiveLimit, U!PeriodOf
  <2>4. U!CounterExact' /\ U!RecordedOnce' /\ U!NothingAfterDeletion'
    BY <2>1 DEF UsageInv, U!CounterExact, U!RecordedOnce, U!NothingAfterDeletion
  <2> QED BY <2>1, <2>2, <2>3, <2>4 DEF UsageInv, U!usageVars
<1>2. CASE U!UsageNext
  <2>1. ASSUME NEW p \in Meter, U!RecordUsage(p) \/ U!ConsumeUsage(p) PROVE UsageInv' /\ Within
    <3>1. PICK m \in U!RecordRequests \cup U!ConsumeRequests : U!Reserve(p, m)
      BY <2>1 DEF U!RecordUsage, U!ConsumeUsage
    <3> QED BY <3>1, UsageRequests, ReserveStep DEF UsageInv
  <2>2. ASSUME NEW p \in Meter, U!Apply(p) PROVE UsageInv' /\ Within
    <3>1. CASE U!RollBack(p) BY <3>1, TxEnds DEF U!RollBack
    <3> QED BY <2>2, <3>1, LockOwnerStep, SettleStep DEF U!Apply
  <2> QED BY <1>2, <2>1, <2>2, QuotaRequestStep, PruneReceiptsStep, UsageDeletionStep, UsageTickStep
          DEF U!UsageNext
<1> QED BY <1>1, <1>2 DEF Next, vars, UsageScene, SettingsScene, AssetsScene, RatesScene, CommentsScene,
             TagsScene, KnowledgeScene, MigrationsScene, ConfigurationScene

(* Who waits for a lock holds one that its holder does not wait for.       *)
LEMMA UsageLocksOrdered == UsageInv => U!NoLockCycle
<1> SUFFICES ASSUME UsageInv, NEW p \in Meter, NEW q \in Meter, U!Waits(p, q) PROVE ~U!Waits(q, p)
  BY DEF U!NoLockCycle
<1>1. meter[p].phase = "reserved" BY DEF U!Waits
<1>2. U!OwnerLocks(p) = {"KEY SHARE"} BY <1>1, UsageHeld
<1> QED BY <1>2, UsageLocks DEF U!Waits

(* Counters are exact, a fact counts once whatever is pruned, a quota      *)
(* holds, nothing is left of a deleted owner, and no two requests wait for *)
(* each other (Record, Consume, SetQuota, PruneReceipts, DeleteUserData).  *)
THEOREM UsageIsSound == Spec => UsageSound
<1>1. Init => UsageInv BY UsageStart
<1>2. UsageInv /\ [Next]_vars => UsageInv' /\ [Within]_(U!usageVars) BY UsageStep
<1>3. UsageInv => (scene = "usage" =>
        U!CounterExact /\ U!RecordedOnce /\ U!NothingAfterDeletion /\ U!NoLockCycle)
  BY UsageLocksOrdered DEF UsageInv
<1> QED BY <1>1, <1>2, <1>3, PTL DEF Spec, UsageSound, U!QuotaHeld, Within

(***************************************************************************)
(* Settings.                                                               *)
(***************************************************************************)

SettingRow == [version : Nat, overridden : BOOLEAN, value : Choice]
SettingEdit == [scope : SettingScope, version : Nat, value : Choice]

SettingsType ==
  /\ override \in [SettingScope -> SettingRow]
  /\ edit \in [Editor -> SettingEdit \cup {T!NoEdit}]
  /\ settingOwner \in {"here", "leaving", "cleaned", "gone"}

(* What a client has read is no later than the row, and is its value while *)
(* the version is the same, as long as the owner can be locked: after the  *)
(* account was cleaned the versions of its settings start again.           *)
EditsAreSeen == \A e \in Editor :
  (edit[e] # T!NoEdit /\ T!LockSettingOwner(edit[e].scope)) =>
    /\ edit[e].version <= override[edit[e].scope].version
    /\ edit[e].version = override[edit[e].scope].version =>
         edit[e].value = T!EffectiveSetting(edit[e].scope)

CleanedHasNoSetting ==
  settingOwner \in {"cleaned", "gone"} /\ "user" \in SettingScope => override["user"] = T!NoOverride

SettingsInv == SettingsType /\ EditsAreSeen /\ CleanedHasNoSetting

(* Which step NoLostSetting allows to change the row of s.                 *)
SettingKept(s) ==
  settingOwner' = settingOwner /\ override'[s] # override[s] =>
    \E e \in Editor : /\ edit[e] # T!NoEdit /\ edit'[e] = T!NoEdit
                      /\ edit[e].scope = s /\ edit[e].value = T!EffectiveSetting(s)

(* Nothing is overridden or read at first.                                 *)
LEMMA SettingsStart == Init => SettingsInv
BY ServicesAssumption DEF Init, T!SettingsAssumption, T!SettingsInit, SettingsInv, SettingsType, EditsAreSeen,
   CleanedHasNoSetting, SettingRow, T!NoOverride, T!NoEdit

(* What a client has read, if it has read anything.                        *)
LEMMA SettingEdits ==
  ASSUME NEW q \in SettingEdit \cup {T!NoEdit}, q # T!NoEdit
  PROVE  q.scope \in SettingScope /\ q.version \in Nat /\ q.value \in Choice
BY DEF SettingEdit

(* The value in force is one the definition accepts.                       *)
LEMMA EffectiveChoice ==
  ASSUME SettingsType, NEW s \in SettingScope PROVE T!EffectiveSetting(s) \in Choice
<1>1. override[s] \in SettingRow BY DEF SettingsType
<1> QED BY <1>1, ServicesAssumption DEF T!SettingsAssumption, T!EffectiveSetting, SettingRow

(* Get.                                                                    *)
LEMMA GetSettingStep ==
  ASSUME SettingsInv, NEW e \in Editor, NEW s \in SettingScope, T!GetSetting(e, s)
  PROVE  SettingsInv' /\ \A t \in SettingScope : SettingKept(t)
<1> DEFINE q == [scope |-> s, version |-> override[s].version, value |-> T!EffectiveSetting(s)]
<1>0. SettingsType /\ EditsAreSeen /\ CleanedHasNoSetting BY DEF SettingsInv
<1>1. edit' = [edit EXCEPT ![e] = q] /\ UNCHANGED <<override, settingOwner>> BY DEF T!GetSetting
<1>2. override[s] \in SettingRow BY <1>0 DEF SettingsType
<1>3. q \in SettingEdit BY <1>0, <1>2, EffectiveChoice DEF SettingEdit, SettingRow
<1>4. /\ q.scope = s /\ q.version = override[s].version /\ q.value = T!EffectiveSetting(s)
      /\ override[s].version \in Nat
  BY <1>2 DEF SettingRow
<1> HIDE DEF q
<1>5. SettingsType' BY <1>0, <1>1, <1>3 DEF SettingsType
<1>6. \A x \in Editor : edit'[x] = IF x = e THEN q ELSE edit[x] BY <1>0, <1>1 DEF SettingsType
<1>7. EditsAreSeen' BY <1>0, <1>1, <1>4, <1>6 DEF EditsAreSeen, T!LockSettingOwner, T!EffectiveSetting
<1> QED BY <1>0, <1>1, <1>5, <1>7 DEF SettingsInv, CleanedHasNoSetting, SettingKept

(* A row that moves to its next version leaves every other edit behind.    *)
LEMMA SettingMoves ==
  ASSUME SettingsInv, NEW e \in Editor, NEW row \in SettingRow, edit[e] # T!NoEdit,
         T!LockSettingOwner(edit[e].scope), edit[e].version = override[edit[e].scope].version,
         row.version = override[edit[e].scope].version + 1,
         override' = [override EXCEPT ![edit[e].scope] = row],
         edit' = [edit EXCEPT ![e] = T!NoEdit], UNCHANGED settingOwner
  PROVE  SettingsInv' /\ \A s \in SettingScope : SettingKept(s)
<1> DEFINE s == edit[e].scope
<1>0. SettingsType /\ EditsAreSeen /\ CleanedHasNoSetting BY DEF SettingsInv
<1>1. s \in SettingScope /\ edit[e].version \in Nat BY <1>0, SettingEdits DEF SettingsType
<1>2. /\ \A t \in SettingScope : override'[t] = IF t = s THEN row ELSE override[t]
      /\ \A x \in Editor : edit'[x] = IF x = e THEN T!NoEdit ELSE edit[x]
  BY <1>0, <1>1 DEF SettingsType
<1>3. SettingsType' BY <1>0, <1>1 DEF SettingsType
<1>4. EditsAreSeen'
  <2> SUFFICES ASSUME NEW x \in Editor, (edit[x] # T!NoEdit /\ T!LockSettingOwner(edit[x].scope))'
               PROVE  (/\ edit[x].version <= override[edit[x].scope].version
                       /\ edit[x].version = override[edit[x].scope].version =>
                            edit[x].value = T!EffectiveSetting(edit[x].scope))'
    BY DEF EditsAreSeen
  <2>1. edit'[x] = edit[x] /\ edit[x] # T!NoEdit /\ edit[x].scope \in SettingScope
        /\ edit[x].version \in Nat /\ T!LockSettingOwner(edit[x].scope)
    BY <1>0, <1>2, SettingEdits DEF SettingsType, T!LockSettingOwner
  <2>2. /\ edit[x].version <= override[edit[x].scope].version
        /\ edit[x].version = override[edit[x].scope].version =>
             edit[x].value = T!EffectiveSetting(edit[x].scope)
    BY <1>0, <2>1 DEF EditsAreSeen
  <2>3. CASE edit[x].scope = s
    <3>1. override'[s] = row /\ edit[x].version <= edit[e].version BY <1>1, <1>2, <2>2, <2>3
    <3>2. row.version = edit[e].version + 1 OBVIOUS
    <3> QED BY <1>1, <2>1, <2>3, <3>1, <3>2
  <2>4. CASE edit[x].scope # s
    BY <1>2, <2>1, <2>2, <2>4 DEF T!EffectiveSetting
  <2> QED BY <2>3, <2>4
<1>5. CleanedHasNoSetting' BY <1>0, <1>2 DEF CleanedHasNoSetting, T!LockSettingOwner
<1>6. \A t \in SettingScope : SettingKept(t)
  <2>1. edit[e].value = T!EffectiveSetting(s) BY <1>0, <1>1 DEF EditsAreSeen
  <2> QED BY <1>2, <2>1 DEF SettingKept
<1> QED BY <1>3, <1>4, <1>5, <1>6 DEF SettingsInv

(* An edit that ends without a change.                                     *)
LEMMA EditEnds ==
  ASSUME SettingsInv, NEW e \in Editor, edit' = [edit EXCEPT ![e] = T!NoEdit],
         UNCHANGED <<override, settingOwner>>
  PROVE  SettingsInv' /\ \A s \in SettingScope : SettingKept(s)
<1>0. SettingsType /\ EditsAreSeen /\ CleanedHasNoSetting BY DEF SettingsInv
<1>1. \A x \in Editor : edit'[x] = IF x = e THEN T!NoEdit ELSE edit[x] BY <1>0 DEF SettingsType
<1>2. SettingsType' BY <1>0 DEF SettingsType
<1>3. EditsAreSeen' BY <1>0, <1>1 DEF EditsAreSeen, T!LockSettingOwner, T!EffectiveSetting
<1> QED BY <1>0, <1>2, <1>3 DEF SettingsInv, CleanedHasNoSetting, SettingKept

(* Set and Reset, and a request that fails.                                *)
LEMMA ChangeSettingStep ==
  ASSUME SettingsInv, NEW e \in Editor, NEW value \in Choice,
         T!SetSetting(e, value) \/ T!ResetSetting(e) \/ T!EditFails(e)
  PROVE  SettingsInv' /\ \A s \in SettingScope : SettingKept(s)
<1> DEFINE s == edit[e].scope
           set == [version |-> override[s].version + 1, overridden |-> TRUE, value |-> value]
           reset == [version |-> override[s].version + 1, overridden |-> FALSE, value |-> Default]
<1>0. SettingsType BY DEF SettingsInv
<1>1. edit[e] # T!NoEdit /\ edit' = [edit EXCEPT ![e] = T!NoEdit] /\ UNCHANGED settingOwner
  BY DEF T!SetSetting, T!ResetSetting, T!EditFails
<1>2. override[s].version \in Nat
  <2>1. s \in SettingScope BY <1>0, <1>1, SettingEdits DEF SettingsType
  <2>2. override[s] \in SettingRow BY <1>0, <2>1 DEF SettingsType
  <2> QED BY <2>2 DEF SettingRow
<1>3. /\ set \in SettingRow /\ set.version = override[s].version + 1
      /\ reset \in SettingRow /\ reset.version = override[s].version + 1
  BY <1>2, ServicesAssumption DEF SettingRow, T!SettingsAssumption
<1>4. \/ UNCHANGED override
      \/ /\ T!LockSettingOwner(s) /\ override[s].version = edit[e].version
         /\ \/ override' = [override EXCEPT ![s] = set]
            \/ override' = [override EXCEPT ![s] = reset]
  BY DEF T!SetSetting, T!ResetSetting, T!EditFails
<1> HIDE DEF set, reset
<1> QED BY <1>1, <1>3, <1>4, SettingMoves, EditEnds

(* The deletion of the account.                                            *)
LEMMA SettingDeletionStep ==
  ASSUME SettingsInv, T!AccountDeletion
  PROVE  SettingsInv' /\ \A s \in SettingScope : SettingKept(s)
<1>0. SettingsType /\ EditsAreSeen /\ CleanedHasNoSetting BY DEF SettingsInv
<1>1. settingOwner' # settingOwner /\ UNCHANGED edit
  BY DEF T!AccountDeletion, T!AccountLocked, T!CleanAccountDeletion, T!AccountDeleted
<1>2. settingOwner' \in {"leaving", "cleaned", "gone"}
      /\ (settingOwner' = "gone" => settingOwner = "cleaned" /\ UNCHANGED override)
      /\ (settingOwner' = "cleaned" =>
            override' = [s \in SettingScope |-> IF s = "user" THEN T!NoOverride ELSE override[s]])
      /\ (settingOwner = "here" => settingOwner' = "leaving")
      /\ (settingOwner' = "leaving" => UNCHANGED override)
  BY DEF T!AccountDeletion, T!AccountLocked, T!CleanAccountDeletion, T!AccountDeleted
<1>3. \/ UNCHANGED override
      \/ override' = [s \in SettingScope |-> IF s = "user" THEN T!NoOverride ELSE override[s]]
  BY DEF T!AccountDeletion, T!AccountLocked, T!CleanAccountDeletion, T!AccountDeleted
<1>4. /\ SettingsType'
      /\ \A s \in SettingScope : s # "user" => override'[s] = override[s]
  <2>1. T!NoOverride \in SettingRow
    BY ServicesAssumption DEF SettingRow, T!NoOverride, T!SettingsAssumption
  <2> QED BY <1>0, <1>1, <1>2, <1>3, <2>1 DEF SettingsType
<1>5. EditsAreSeen'
  <2> SUFFICES ASSUME NEW x \in Editor, (edit[x] # T!NoEdit /\ T!LockSettingOwner(edit[x].scope))'
               PROVE  (/\ edit[x].version <= override[edit[x].scope].version
                       /\ edit[x].version = override[edit[x].scope].version =>
                            edit[x].value = T!EffectiveSetting(edit[x].scope))'
    BY DEF EditsAreSeen
  <2> DEFINE s == edit[x].scope
  <2>1. edit' = edit /\ edit[x] # T!NoEdit /\ s \in SettingScope
    BY <1>0, <1>1, SettingEdits DEF SettingsType
  <2>2. s # "user" /\ T!LockSettingOwner(s) BY <1>2, <2>1 DEF T!LockSettingOwner
  <2>3. override'[s] = override[s] BY <1>4, <2>1, <2>2
  <2>4. /\ edit[x].version <= override[s].version
        /\ edit[x].version = override[s].version => edit[x].value = T!EffectiveSetting(s)
    BY <1>0, <2>1, <2>2 DEF EditsAreSeen
  <2> QED BY <2>1, <2>3, <2>4 DEF T!EffectiveSetting
<1>6. CleanedHasNoSetting' BY <1>0, <1>2 DEF CleanedHasNoSetting
<1> QED BY <1>1, <1>4, <1>5, <1>6 DEF SettingsInv, SettingKept

(* One step of any component keeps the settings sound.                     *)
LEMMA SettingsStep ==
  SettingsInv /\ [Next]_vars => SettingsInv' /\ [\A s \in SettingScope : SettingKept(s)]_(T!settingsVars)
<1> SUFFICES ASSUME SettingsInv, [Next]_vars
             PROVE  SettingsInv' /\ [\A s \in SettingScope : SettingKept(s)]_(T!settingsVars)
  OBVIOUS
<1>1. CASE UNCHANGED settingsVars
  BY <1>1 DEF settingsVars, SettingsInv, SettingsType, EditsAreSeen, CleanedHasNoSetting,
     T!LockSettingOwner, T!EffectiveSetting, T!settingsVars
<1>2. CASE T!SettingsNext
  <2>1. Default \in Choice BY ServicesAssumption DEF T!SettingsAssumption
  <2> QED BY <1>2, <2>1, GetSettingStep, ChangeSettingStep, SettingDeletionStep
          DEF T!SettingsNext, T!SettingRequest
<1> QED BY <1>1, <1>2 DEF Next, vars, UsageScene, SettingsScene, AssetsScene, RatesScene, CommentsScene,
                          TagsScene, KnowledgeScene, MigrationsScene, ConfigurationScene

(* A client replaces the value it has seen, never one set meanwhile, and a *)
(* deleted account leaves no setting, for any number of clients (Set,      *)
(* Reset and the account's deletion).                                      *)
THEOREM SettingsAreSound == Spec => SettingsSound
<1>1. SettingsInv => T!NoSettingOfNobody
  BY DEF SettingsInv, CleanedHasNoSetting, T!NoSettingOfNobody
<1> QED BY <1>1, SettingsStart, SettingsStep, PTL
        DEF Spec, SettingsSound, T!NoLostSetting, SettingKept

(***************************************************************************)
(* Assets.                                                                 *)
(***************************************************************************)

AssetObject == Good \cup Bad \cup {NoObject}
AssetRow ==
  [status : {"none", "pending", "ready", "rejected", "deleted"}, checksum : AssetObject, expires : Nat,
   stagingKey : BOOLEAN, finalKey : BOOLEAN, op : AssetWorker \cup {"free"}, until : Nat]
Completing == {"stat", "copy", "inspect", "drop", "reject", "ready", "rejected"}
Stages == Completing \cup {"delete", "prune", "deleted", "pruned"}
JobRow == [at : Stages, until : Nat, seen : AssetRow, sum : AssetObject]

AssetsType ==
  /\ asset \in AssetRow
  /\ staging \in AssetObject /\ final \in AssetObject
  /\ job \in [AssetWorker -> JobRow \cup {A!NoJob}]
  /\ tick \in Nat /\ granted \in Nat

(* An operation that has lost its lease is late; the one that holds it     *)
(* finds the row and the objects as it left them.                          *)
JobSound(w) ==
  job[w] # A!NoJob =>
    /\ asset.op # w => job[w].until <= tick
    /\ asset.op = w =>
         /\ job[w].until = asset.until
         /\ job[w].at \in Completing => asset.status = "pending"
         /\ job[w].at \in {"drop", "ready"} => final = job[w].sum /\ job[w].sum \in Good
         /\ job[w].at = "deleted" => final = NoObject

AssetsInv ==
  /\ AssetsType /\ (\A w \in AssetWorker : JobSound(w))
  /\ asset.status = "none" => \A w \in AssetWorker : job[w] = A!NoJob
  /\ asset.status = "deleted" => final = NoObject
  /\ A!ReadyIsInspected

(* What DeletedIsGone says of a step.                                      *)
StaysDeleted == asset.status = "deleted" => asset'.status = "deleted" /\ final' = NoObject

(* The fields of a row and of an operation under way.                      *)
LEMMA AssetFields ==
  /\ \A x \in AssetRow : /\ x.status \in {"none", "pending", "ready", "rejected", "deleted"}
                         /\ x.checksum \in AssetObject /\ x.expires \in Nat /\ x.stagingKey \in BOOLEAN
                         /\ x.finalKey \in BOOLEAN /\ x.op \in AssetWorker \cup {"free"} /\ x.until \in Nat
  /\ \A q \in JobRow : q.at \in Stages /\ q.until \in Nat /\ q.seen \in AssetRow /\ q.sum \in AssetObject
  /\ A!NoJob.at = "none" /\ "none" \notin Stages /\ A!NoJob \notin JobRow
<1>1. A!NoJob.at = "none" BY DEF A!NoJob
<1>2. "none" \notin Stages BY DEF Stages, Completing
<1>3. A!NoJob \notin JobRow BY <1>1, <1>2 DEF JobRow
<1> QED BY <1>1, <1>2, <1>3 DEF AssetRow, JobRow

(* There is no asset at first.                                             *)
LEMMA AssetsStart == Init => AssetsInv
<1> SUFFICES ASSUME A!AssetsInit PROVE AssetsInv
  BY DEF Init
<1>1. A!FreshAsset \in AssetRow /\ A!FreshAsset.status = "none"
  BY DEF A!FreshAsset, AssetRow, AssetObject, A!NoLeaseholder
<1>2. \A w \in AssetWorker : job[w] = A!NoJob BY DEF A!AssetsInit
<1>3. AssetsType BY <1>1 DEF AssetsType, A!AssetsInit, AssetObject
<1> QED BY <1>1, <1>2, <1>3 DEF AssetsInv, JobSound, A!ReadyIsInspected, A!AssetsInit

(* Who works on objects within its lease holds the lease of the row.       *)
LEMMA HoldsLease ==
  ASSUME AssetsInv, ~Overrun, NEW w \in AssetWorker, job[w] # A!NoJob, A!InLease(w)
  PROVE  asset.op = w
<1>1. tick < job[w].until /\ tick \in Nat /\ job[w].until \in Nat
  BY AssetFields DEF A!InLease, AssetsInv, AssetsType
<1> QED BY <1>1 DEF AssetsInv, JobSound

(* The holder of the lease goes on.                                        *)
LEMMA JobGoesOn ==
  ASSUME AssetsInv, NEW w \in AssetWorker, job[w] # A!NoJob, asset.op = w,
         NEW q \in JobRow, job' = [job EXCEPT ![w] = q], q.until = job[w].until,
         UNCHANGED <<asset, tick, granted>>, staging' \in AssetObject, final' \in AssetObject,
         q.at \in Completing => asset.status = "pending",
         q.at \in {"drop", "ready"} => final' = q.sum /\ q.sum \in Good,
         q.at = "deleted" => final' = NoObject,
         final' = final \/ final' = NoObject \/ asset.status = "pending"
  PROVE  AssetsInv' /\ StaysDeleted
<1>0. AssetsType BY DEF AssetsInv
<1>1. \A v \in AssetWorker : job'[v] = IF v = w THEN q ELSE job[v] BY <1>0 DEF AssetsType
<1>2. AssetsType' BY <1>0 DEF AssetsType
<1>3. \A v \in AssetWorker : JobSound(v)'
  <2> SUFFICES ASSUME NEW v \in AssetWorker PROVE JobSound(v)'
    OBVIOUS
  <2>1. CASE v = w
    <3>1. job'[v] = q BY <1>1, <2>1
    <3> QED BY <2>1, <3>1 DEF AssetsInv, JobSound
  <2>2. CASE v # w
    <3>1. job'[v] = job[v] BY <1>1, <2>2
    <3> QED BY <2>2, <3>1 DEF AssetsInv, JobSound
  <2> QED BY <2>1, <2>2
<1>4. asset.status # "none" BY DEF AssetsInv
<1> QED BY <1>2, <1>3, <1>4 DEF AssetsInv, StaysDeleted, A!ReadyIsInspected

(* The job that goes on: only its place changes, or also what it has seen. *)
LEMMA JobAt ==
  ASSUME AssetsType, NEW w \in AssetWorker, job[w] # A!NoJob, NEW s \in Stages,
         job' = [job EXCEPT ![w].at = s]
  PROVE  /\ job'[w] \in JobRow /\ job' = [job EXCEPT ![w] = job'[w]]
         /\ job'[w].at = s /\ job'[w].until = job[w].until /\ job'[w].sum = job[w].sum
<1> DEFINE x == job[w]
           q == [x EXCEPT !.at = s]
<1>0. job \in [AssetWorker -> JobRow \cup {A!NoJob}] /\ x \in JobRow BY DEF AssetsType
<1>1. job' = [job EXCEPT ![w] = q] BY <1>0
<1> HIDE DEF x
<1>2. q \in JobRow /\ q.at = s /\ q.until = x.until /\ q.sum = x.sum BY <1>0 DEF JobRow
<1> HIDE DEF q
<1>3. job'[w] = q BY <1>0, <1>1
<1> QED BY <1>1, <1>2, <1>3 DEF x

(* The stages of a completion, a deletion and a prune.                     *)
LEMMA AssetStagesStep ==
  ASSUME AssetsInv, ~Overrun, NEW w \in AssetWorker,
         A!StatSource(w) \/ A!CopyToFinal(w) \/ A!Inspect(w) \/ A!DropStaging(w) \/ A!DropBoth(w)
           \/ A!DeleteObjects(w)
  PROVE  AssetsInv' /\ StaysDeleted
<1>0. AssetsType /\ JobSound(w) /\ NoObject \in AssetObject /\ NoObject \notin Good
  BY ServicesAssumption DEF AssetsInv, AssetObject, A!AssetsAssumption
<1>1. /\ job[w].at \in {"stat", "copy", "inspect", "drop", "reject", "delete", "prune"} /\ A!InLease(w)
      /\ UNCHANGED <<asset, tick, granted>>
  BY DEF A!StatSource, A!CopyToFinal, A!Inspect, A!DropStaging, A!DropBoth, A!DeleteObjects
<1>2. job[w] # A!NoJob BY <1>1, AssetFields
<1>3. asset.op = w BY <1>1, <1>2, HoldsLease
<1>4. staging \in AssetObject /\ final \in AssetObject /\ job[w].sum \in AssetObject
  BY <1>0, <1>2, AssetFields DEF AssetsType
<1>5. /\ job[w].at \in Completing => asset.status = "pending"
      /\ job[w].at \in {"drop", "ready"} => final = job[w].sum /\ job[w].sum \in Good
  BY <1>0, <1>2, <1>3 DEF JobSound
<1>6. CASE A!StatSource(w)
  <2> DEFINE s == IF staging # NoObject THEN "copy" ELSE IF final # NoObject THEN "inspect" ELSE "reject"
  <2>1. s \in Stages /\ s \in {"copy", "inspect", "reject"} BY DEF Stages, Completing
  <2>2. job[w].at = "stat" /\ job' = [job EXCEPT ![w].at = s] /\ UNCHANGED <<staging, final>>
    BY <1>6 DEF A!StatSource, A!Goes
  <2> HIDE DEF s
  <2>3. /\ job'[w] \in JobRow /\ job' = [job EXCEPT ![w] = job'[w]]
        /\ job'[w].at = s /\ job'[w].until = job[w].until
    BY <1>0, <1>2, <2>1, <2>2, JobAt
  <2>4. asset.status = "pending" BY <1>5, <2>2 DEF Completing
  <2> QED BY <1>1, <1>2, <1>3, <1>4, <2>1, <2>2, <2>3, <2>4, JobGoesOn
<1>7. CASE A!CopyToFinal(w)
  <2>1. job[w].at = "copy" /\ job' = [job EXCEPT ![w].at = "inspect"] /\ staging' = staging /\ final' = staging
    BY <1>7 DEF A!CopyToFinal, A!Goes
  <2>2. "inspect" \in Stages BY DEF Stages, Completing
  <2>3. /\ job'[w] \in JobRow /\ job' = [job EXCEPT ![w] = job'[w]]
        /\ job'[w].at = "inspect" /\ job'[w].until = job[w].until
    BY <1>0, <1>2, <2>1, <2>2, JobAt
  <2>4. asset.status = "pending" BY <1>5, <2>1 DEF Completing
  <2> QED BY <1>1, <1>2, <1>3, <1>4, <2>1, <2>3, <2>4, JobGoesOn
<1>8. CASE A!Inspect(w)
  <2> DEFINE s == IF final \in Good THEN "drop" ELSE "reject"
             found == final
  <2>1. job[w].at = "inspect" /\ job' = [job EXCEPT ![w].at = s, ![w].sum = found]
        /\ UNCHANGED <<staging, final>>
    BY <1>8 DEF A!Inspect
  <2>2. /\ s \in Stages /\ s \in {"drop", "reject"} /\ (s = "drop" => final \in Good)
        /\ found = final /\ found \in AssetObject
    BY <1>4 DEF Stages, Completing
  <2> HIDE DEF s, found
  <2>3. /\ job'[w] \in JobRow /\ job' = [job EXCEPT ![w] = job'[w]]
        /\ job'[w].at = s /\ job'[w].until = job[w].until /\ job'[w].sum = found
    <3> DEFINE x == job[w]
               q == [x EXCEPT !.at = s, !.sum = found]
    <3>0. job \in [AssetWorker -> JobRow \cup {A!NoJob}] /\ x \in JobRow BY <1>0, <1>2 DEF AssetsType
    <3>1. job' = [job EXCEPT ![w] = q] BY <2>1, <3>0
    <3> HIDE DEF x
    <3>2. q \in JobRow BY <2>2, <3>0 DEF JobRow
    <3>3. q.at = s /\ q.until = x.until /\ q.sum = found BY <2>2, <3>0 DEF JobRow
    <3> HIDE DEF q
    <3>4. job'[w] = q BY <3>0, <3>1
    <3> QED BY <3>1, <3>2, <3>3, <3>4 DEF x
  <2>4. asset.status = "pending" BY <1>5, <2>1 DEF Completing
  <2>5. /\ staging' \in AssetObject /\ final' \in AssetObject /\ final' = final
        /\ job'[w].at \in {"drop", "ready"} => final' = job'[w].sum /\ job'[w].sum \in Good
        /\ job'[w].at # "deleted"
    BY <1>4, <2>1, <2>2, <2>3
  <2> QED BY <1>1, <1>2, <1>3, <2>3, <2>4, <2>5, JobGoesOn
<1>9. CASE A!DropStaging(w)
  <2>1. job[w].at = "drop" /\ job' = [job EXCEPT ![w].at = "ready"] /\ staging' \in {staging, NoObject}
        /\ final' = final
    BY <1>9 DEF A!DropStaging, A!Goes
  <2>2. "ready" \in Stages BY DEF Stages, Completing
  <2>3. /\ job'[w] \in JobRow /\ job' = [job EXCEPT ![w] = job'[w]]
        /\ job'[w].at = "ready" /\ job'[w].until = job[w].until /\ job'[w].sum = job[w].sum
    BY <1>0, <1>2, <2>1, <2>2, JobAt
  <2>4. asset.status = "pending" BY <1>5, <2>1 DEF Completing
  <2>5. /\ staging' \in AssetObject /\ final' \in AssetObject /\ final' = final BY <1>0, <1>4, <2>1
  <2>6. final' = job'[w].sum /\ job'[w].sum \in Good /\ job'[w].at # "deleted" BY <1>5, <2>1, <2>3
  <2> QED BY <1>1, <1>2, <1>3, <2>3, <2>4, <2>5, <2>6, JobGoesOn
<1>10. CASE A!DropBoth(w)
  <2>1. job[w].at = "reject" /\ job' = [job EXCEPT ![w].at = "rejected"] /\ staging' \in {staging, NoObject}
        /\ final' \in {final, NoObject}
    BY <1>10 DEF A!DropBoth, A!Goes
  <2>2. "rejected" \in Stages BY DEF Stages, Completing
  <2>3. /\ job'[w] \in JobRow /\ job' = [job EXCEPT ![w] = job'[w]]
        /\ job'[w].at = "rejected" /\ job'[w].until = job[w].until
    BY <1>0, <1>2, <2>1, <2>2, JobAt
  <2>4. asset.status = "pending" BY <1>5, <2>1 DEF Completing
  <2>5. staging' \in AssetObject /\ final' \in AssetObject BY <1>0, <1>4, <2>1
  <2> QED BY <1>1, <1>2, <1>3, <2>1, <2>3, <2>4, <2>5, JobGoesOn
<1>11. CASE A!DeleteObjects(w)
  <2>1. PICK s \in {"deleted", "pruned"} :
          /\ job' = [job EXCEPT ![w].at = s] /\ staging' = NoObject /\ final' \in {final, NoObject}
          /\ s = "deleted" => final' = NoObject
    BY <1>11 DEF A!DeleteObjects, A!Goes
  <2>2. s \in Stages /\ s \notin Completing /\ s \notin {"drop", "ready"} BY DEF Stages, Completing
  <2>3. /\ job'[w] \in JobRow /\ job' = [job EXCEPT ![w] = job'[w]]
        /\ job'[w].at = s /\ job'[w].until = job[w].until
    BY <1>0, <1>2, <2>1, <2>2, JobAt
  <2>4. staging' \in AssetObject /\ final' \in AssetObject BY <1>0, <1>4, <2>1
  <2>5. /\ job'[w].at \notin Completing /\ job'[w].at \notin {"drop", "ready"}
        /\ job'[w].at = "deleted" => final' = NoObject
        /\ final' = final \/ final' = NoObject
    BY <2>1, <2>2, <2>3
  <2> QED BY <1>1, <1>2, <1>3, <2>3, <2>4, <2>5, JobGoesOn
<1> QED BY <1>6, <1>7, <1>8, <1>9, <1>10, <1>11

(* A new grant, an upload, an owner who leaves and the clock touch no      *)
(* operation under way.                                                    *)
LEMMA AssetsAroundStep ==
  ASSUME AssetsInv,
         A!CreateUploadIntent \/ (\E c \in Good \cup Bad : A!Upload(c)) \/ A!OwnerLeaves \/ A!TickPasses
  PROVE  AssetsInv' /\ StaysDeleted
<1>0. AssetsType BY DEF AssetsInv
<1>1. PendingTTL \in Nat /\ GrantTTL \in Nat BY ServicesAssumption DEF A!AssetsAssumption
<1>2. CASE A!CreateUploadIntent
  <2>1. /\ granted' \in Nat /\ UNCHANGED <<staging, final, job, tick>>
        /\ \/ asset.status = "none" /\ asset' = [A!FreshAsset EXCEPT !.status = "pending",
                 !.expires = tick + PendingTTL, !.stagingKey = TRUE, !.finalKey = TRUE]
           \/ asset.status = "pending" /\ asset' = asset
    BY <1>0, <1>1, <1>2 DEF A!CreateUploadIntent, AssetsType
  <2>2. CASE asset' = asset
    BY <1>0, <2>1, <2>2 DEF AssetsInv, AssetsType, JobSound, A!ReadyIsInspected, StaysDeleted
  <2>3. CASE asset' # asset
    <3>1. asset.status = "none" /\ (\A w \in AssetWorker : job[w] = A!NoJob) BY <2>1, <2>3 DEF AssetsInv
    <3>2. tick + PendingTTL \in Nat BY <1>0, <1>1 DEF AssetsType
    <3> DEFINE fresh == A!FreshAsset
               expires == tick + PendingTTL
    <3>3. fresh \in AssetRow BY DEF A!FreshAsset, A!NoLeaseholder, AssetRow, AssetObject
    <3>4. asset' = [fresh EXCEPT !.status = "pending", !.expires = expires, !.stagingKey = TRUE,
                                 !.finalKey = TRUE]
      BY <2>1, <2>3
    <3> HIDE DEF fresh, expires
    <3>5. asset' \in AssetRow /\ asset'.status = "pending" BY <3>2, <3>3, <3>4 DEF AssetRow, expires
    <3> QED BY <1>0, <2>1, <3>1, <3>5 DEF AssetsInv, AssetsType, JobSound, A!ReadyIsInspected, StaysDeleted
  <2> QED BY <2>2, <2>3
<1>3. CASE \E c \in Good \cup Bad : A!Upload(c)
  <2>1. staging' \in AssetObject /\ UNCHANGED <<asset, final, job, tick, granted>>
    BY <1>3 DEF A!Upload, AssetObject
  <2> QED BY <1>0, <2>1 DEF AssetsInv, AssetsType, JobSound, A!ReadyIsInspected, StaysDeleted
<1>4. CASE A!OwnerLeaves
  BY <1>0, <1>4 DEF A!OwnerLeaves, AssetsInv, AssetsType, JobSound, A!ReadyIsInspected, StaysDeleted
<1>5. CASE A!TickPasses
  <2>1. tick' = tick + 1 /\ UNCHANGED <<asset, staging, final, job, granted>> BY <1>5 DEF A!TickPasses
  <2>2. tick' \in Nat /\ tick <= tick' BY <1>0, <2>1 DEF AssetsType
  <2>3. \A w \in AssetWorker : JobSound(w)'
    <3> SUFFICES ASSUME NEW w \in AssetWorker, job[w] # A!NoJob PROVE JobSound(w)'
      BY <2>1 DEF JobSound
    <3>1. job[w].until \in Nat /\ tick \in Nat BY <1>0, AssetFields DEF AssetsType
    <3>2. JobSound(w) BY DEF AssetsInv
    <3> QED BY <2>1, <2>2, <3>1, <3>2 DEF JobSound
  <2>4. AssetsType' BY <1>0, <2>1, <2>2 DEF AssetsType
  <2> QED BY <2>1, <2>3, <2>4 DEF AssetsInv, A!ReadyIsInspected, StaysDeleted
<1> QED BY <1>2, <1>3, <1>4, <1>5

(* claim takes over only when every other operation is late.               *)
LEMMA ClaimStep ==
  ASSUME AssetsInv, NEW w \in AssetWorker,
         A!ClaimCompletion(w) \/ A!ClaimDeletion(w) \/ A!ClaimPrune(w)
  PROVE  AssetsInv' /\ StaysDeleted
<1>0. AssetsType /\ AssetLease \in Nat /\ NoObject \in AssetObject /\ "free" \notin AssetWorker
  BY ServicesAssumption DEF AssetsInv, AssetObject, A!AssetsAssumption
<1>1. PICK kind \in {"stat", "delete", "prune"} :
        A!Claim(w, kind) /\ (kind = "stat" => asset.status = "pending") /\ asset.status # "none"
  BY DEF A!ClaimCompletion, A!ClaimDeletion, A!ClaimPrune
<1> DEFINE old == asset
           end == tick + AssetLease
           new == [old EXCEPT !.op = w, !.until = end]
           q == [at |-> kind, until |-> end, seen |-> old, sum |-> NoObject]
<1>2. /\ asset.op = "free" \/ asset.until <= tick
      /\ asset' = new /\ job' = [job EXCEPT ![w] = q] /\ UNCHANGED <<staging, final, tick, granted>>
  BY <1>1 DEF A!Claim, A!NoLeaseholder
<1>3. old \in AssetRow /\ end \in Nat BY <1>0 DEF AssetsType
<1>4. kind \in Stages /\ kind \notin {"drop", "ready", "deleted"} /\ (kind \in Completing => kind = "stat")
  BY DEF Stages, Completing
<1> HIDE DEF old, end
<1>5. /\ new \in AssetRow /\ new.op = w /\ new.until = end
      /\ new.status = old.status /\ new.checksum = old.checksum
  BY <1>3 DEF AssetRow
<1>6. q \in JobRow /\ q.at = kind /\ q.until = end BY <1>0, <1>3, <1>4 DEF JobRow
<1> HIDE DEF new, q
<1>7. \A v \in AssetWorker : job'[v] = IF v = w THEN q ELSE job[v] BY <1>0, <1>2 DEF AssetsType
<1>8. AssetsType' BY <1>0, <1>2, <1>5, <1>6 DEF AssetsType
<1>9. \A v \in AssetWorker : JobSound(v)'
  <2> SUFFICES ASSUME NEW v \in AssetWorker PROVE JobSound(v)'
    OBVIOUS
  <2>1. CASE v = w
    <3>1. job'[v] = q BY <1>7, <2>1
    <3>2. asset'.status = asset.status /\ asset'.op = w /\ asset'.until = end BY <1>2, <1>5 DEF old
    <3> QED BY <1>1, <1>4, <1>6, <2>1, <3>1, <3>2 DEF JobSound
  <2>2. CASE v # w
    <3>1. job'[v] = job[v] /\ asset'.op # v /\ tick' = tick BY <1>2, <1>5, <1>7, <2>2
    <3>2. job[v] # A!NoJob => job[v].until <= tick
      <4> SUFFICES ASSUME job[v] # A!NoJob PROVE job[v].until <= tick
        OBVIOUS
      <4>1. CASE asset.op = v BY <1>0, <1>2, <4>1 DEF AssetsInv, JobSound
      <4>2. CASE asset.op # v BY <4>2 DEF AssetsInv, JobSound
      <4> QED BY <4>1, <4>2
    <3> QED BY <3>1, <3>2 DEF JobSound
  <2> QED BY <2>1, <2>2
<1>10. asset'.status = asset.status /\ asset'.checksum = asset.checksum BY <1>2, <1>5 DEF old
<1> QED BY <1>1, <1>2, <1>8, <1>9, <1>10 DEF AssetsInv, StaysDeleted, A!ReadyIsInspected

(* An operation that ends leaves the others as they are when the row keeps *)
(* its lease, or loses that of the operation.                              *)
LEMMA JobEnds ==
  ASSUME AssetsInv, NEW w \in AssetWorker, job[w] # A!NoJob, job' = [job EXCEPT ![w] = A!NoJob],
         UNCHANGED <<staging, final, tick, granted>>, asset' \in AssetRow,
         asset' = asset \/ (asset.op = w /\ asset'.op = "free"),
         asset'.status = "ready" /\ final # NoObject => final = asset'.checksum /\ final \in Good,
         asset'.status = "deleted" => final = NoObject,
         asset.status = "deleted" => asset'.status = "deleted",
         asset'.status # "none"
  PROVE  AssetsInv' /\ StaysDeleted
<1>0. AssetsType /\ "free" \notin AssetWorker BY ServicesAssumption DEF AssetsInv, A!AssetsAssumption
<1>1. \A v \in AssetWorker : job'[v] = IF v = w THEN A!NoJob ELSE job[v] BY <1>0 DEF AssetsType
<1>2. AssetsType' BY <1>0 DEF AssetsType
<1>3. \A v \in AssetWorker : JobSound(v)'
  <2> SUFFICES ASSUME NEW v \in AssetWorker, v # w PROVE JobSound(v)'
    BY <1>1 DEF JobSound
  <2>1. job'[v] = job[v] /\ JobSound(v) BY <1>1 DEF AssetsInv
  <2>2. CASE asset' = asset BY <2>1, <2>2 DEF JobSound
  <2>3. CASE asset.op = w /\ asset'.op = "free" BY <1>0, <2>1, <2>3 DEF JobSound
  <2> QED BY <2>2, <2>3
<1> QED BY <1>2, <1>3 DEF AssetsInv, StaysDeleted, A!ReadyIsInspected

(* finish writes only what the holder of the lease found out; an error     *)
(* gives the lease back, and a process that dies keeps it.                 *)
LEMMA FinishStep ==
  ASSUME AssetsInv, NEW w \in AssetWorker, A!Finish(w) \/ A!ReleaseOperation(w) \/ A!WorkerDies(w)
  PROVE  AssetsInv' /\ StaysDeleted
<1>0. AssetsType /\ JobSound(w) /\ A!ReadyIsInspected BY DEF AssetsInv
<1>1. job[w] # A!NoJob
  BY AssetFields DEF A!Finish, A!ReleaseOperation, A!WorkerDies
<1>2. asset.status # "none" /\ (asset.status = "deleted" => final = NoObject) BY <1>1 DEF AssetsInv
<1>3. job' = [job EXCEPT ![w] = A!NoJob] /\ UNCHANGED <<staging, final, tick, granted>>
  BY DEF A!Finish, A!ReleaseOperation, A!WorkerDies, A!Ends
<1>4. CASE asset' = asset
  <2>1. /\ asset' \in AssetRow /\ asset'.status # "none"
        /\ asset'.status = "ready" /\ final # NoObject => final = asset'.checksum /\ final \in Good
        /\ asset'.status = "deleted" => final = NoObject
        /\ asset.status = "deleted" => asset'.status = "deleted"
    BY <1>0, <1>2, <1>4 DEF AssetsType, A!ReadyIsInspected
  <2>2. asset' = asset \/ (asset.op = w /\ asset'.op = "free") BY <1>4
  <2> QED BY <1>1, <1>3, <2>1, <2>2, JobEnds
<1> DEFINE old == asset
           free == A!Released
           done == job[w].at
           sum == job[w].sum
<1>5. old \in AssetRow /\ sum \in AssetObject BY <1>0, <1>1, AssetFields DEF AssetsType
<1>6. free = [old EXCEPT !.op = "free", !.until = 0] BY DEF A!Released, A!NoLeaseholder
<1> HIDE DEF old
<1>7. /\ free \in AssetRow /\ free.op = "free"
      /\ free.status = old.status /\ free.checksum = old.checksum
  BY <1>5, <1>6 DEF AssetRow
<1>8. CASE asset' # asset /\ ~A!Finish(w)
  <2>1. asset.op = w /\ asset' = free BY <1>8 DEF A!ReleaseOperation, A!WorkerDies
  <2> HIDE DEF free
  <2>2. /\ asset' \in AssetRow /\ asset'.op = "free"
        /\ asset'.status = asset.status /\ asset'.checksum = asset.checksum
    BY <1>7, <2>1 DEF old
  <2> QED BY <1>0, <1>1, <1>2, <1>3, <2>1, <2>2, JobEnds DEF A!ReadyIsInspected
<1>9. CASE asset' # asset /\ A!Finish(w)
  <2>1. asset.op = w /\ asset' = A!Finished(w) /\ done \in {"ready", "rejected", "deleted", "pruned"}
    BY <1>9 DEF A!Finish
  <2>2. CASE done = "ready"
    <3>1. asset' = [free EXCEPT !.status = "ready", !.checksum = sum] BY <2>1, <2>2 DEF A!Finished
    <3>2. asset.status = "pending" /\ final = sum /\ sum \in Good
      BY <1>0, <1>1, <2>1, <2>2 DEF JobSound, Completing
    <3> HIDE DEF free, sum, done
    <3>3. /\ asset' \in AssetRow /\ asset'.op = "free"
          /\ asset'.status = "ready" /\ asset'.checksum = sum
      BY <1>5, <1>7, <3>1 DEF AssetRow
    <3> QED BY <1>1, <1>3, <2>1, <3>2, <3>3, JobEnds
  <2>3. CASE done = "rejected"
    <3>1. asset' = [free EXCEPT !.status = "rejected", !.checksum = NoObject] BY <2>1, <2>3 DEF A!Finished
    <3>2. asset.status = "pending" BY <1>0, <1>1, <2>1, <2>3 DEF JobSound, Completing
    <3> HIDE DEF free, sum, done
    <3>3. asset' \in AssetRow /\ asset'.op = "free" /\ asset'.status = "rejected"
      BY <1>5, <1>7, <3>1 DEF AssetRow, AssetObject
    <3> QED BY <1>1, <1>3, <2>1, <3>2, <3>3, JobEnds
  <2>4. CASE done = "deleted"
    <3>1. asset' = [free EXCEPT !.status = "deleted", !.checksum = NoObject] BY <2>1, <2>4 DEF A!Finished
    <3>2. final = NoObject BY <1>0, <1>1, <2>1, <2>4 DEF JobSound
    <3> HIDE DEF free, sum, done
    <3>3. asset' \in AssetRow /\ asset'.op = "free" /\ asset'.status = "deleted"
      BY <1>5, <1>7, <3>1 DEF AssetRow, AssetObject
    <3> QED BY <1>1, <1>3, <2>1, <3>2, <3>3, JobEnds
  <2>5. CASE done = "pruned"
    <3> DEFINE status == IF free.status = "pending" THEN "rejected" ELSE free.status
               kept == IF job[w].seen.status = "ready" THEN free.finalKey ELSE FALSE
    <3>1. asset' = [free EXCEPT !.status = status, !.stagingKey = FALSE, !.finalKey = kept]
      BY <2>1, <2>5 DEF A!Finished
    <3>2. /\ status \in {"none", "pending", "ready", "rejected", "deleted"} /\ kept \in BOOLEAN
          /\ status \in {old.status, "rejected"} /\ (old.status = "deleted" => status = "deleted")
      BY <1>7 DEF AssetRow
    <3> HIDE DEF free, sum, done, status, kept
    <3>3. asset' \in AssetRow /\ asset'.op = "free" /\ asset'.status = status
          /\ asset'.checksum = old.checksum
      BY <1>7, <3>1, <3>2 DEF AssetRow
    <3>4. asset'.status \in {asset.status, "rejected"} /\ asset'.checksum = asset.checksum
          /\ (asset.status = "deleted" => asset'.status = "deleted")
      BY <3>2, <3>3 DEF old
    <3> QED BY <1>0, <1>1, <1>2, <1>3, <2>1, <3>3, <3>4, JobEnds DEF A!ReadyIsInspected
  <2> QED BY <2>1, <2>2, <2>3, <2>4, <2>5
<1> QED BY <1>4, <1>8, <1>9

(* No step of any component breaks the invariant.                          *)
LEMMA AssetsStep ==
  ASSUME AssetsInv, ~Overrun, [Next]_vars
  PROVE  AssetsInv' /\ [StaysDeleted]_(A!assetsVars)
<1>1. CASE UNCHANGED assetsVars
  BY <1>1 DEF assetsVars, A!assetsVars, AssetsInv, AssetsType, JobSound, A!ReadyIsInspected
<1>2. CASE A!AssetsNext
  BY <1>2, AssetsAroundStep, ClaimStep, FinishStep, AssetStagesStep
     DEF A!AssetsNext, A!Complete, A!DeleteAsset, A!PruneAsset
<1> QED BY <1>1, <1>2 DEF Next, vars, UsageScene, SettingsScene, AssetsScene, RatesScene, CommentsScene,
           TagsScene, KnowledgeScene, MigrationsScene, ConfigurationScene

(* An asset that is served was inspected, and one that is deleted stays    *)
(* so, when no operation outlives its lease.                               *)
THEOREM AssetsAreSound == ASSUME ~Overrun PROVE Spec => AssetsSound
<1>1. AssetsInv => A!ReadyIsInspected BY DEF AssetsInv
<1> QED BY <1>1, AssetsStart, AssetsStep, PTL
        DEF Spec, AssetsSound, A!DeletedIsGone, StaysDeleted

(***************************************************************************)
(* Rate limits.                                                            *)
(***************************************************************************)

SharedRow == [hits : Nat, windowEnd : Nat]
LocalEntry == [hits : Nat, resetAt : Nat]
Spending == [until : Nat, count : Nat]
Place == [at : {"idle", "take", "due", "recheck"}, key : Identity \cup {NoBucket}]
CleanerRow == [next : Nat, cleaning : BOOLEAN, running : Nat]
Ended == [at : Nat, full : BOOLEAN]

(* A MemoryStore: the order of recency decides nothing that is proved.     *)
IsStore(s) ==
  /\ s = [entries |-> s.entries, recent |-> s.recent, nextCleanupAt |-> s.nextCleanupAt]
  /\ s.entries \in [Identity -> LocalEntry \cup {NoBucket}]

RatesType ==
  /\ time \in Nat
  /\ bucket \in [Identity -> SharedRow \cup {NoBucket}]
  /\ local = [r \in Replica |-> local[r]] /\ (\A r \in Replica : IsStore(local[r]))
  /\ cleaner \in [Replica -> CleanerRow] /\ cleaned \in [Replica -> Ended]
  /\ customer \in [R!Customer -> Place]
  /\ \A c \in R!Customer : customer[c].at = "take" => customer[c].key \in Identity
  /\ sharedSpent \in [Identity -> Spending]
  /\ localSpent \in [Replica -> [Identity -> Spending]]

(* The admissions counted in a window are within the hits of the bucket    *)
(* that is open as long as the window is.                                  *)
SharedTied(w, row) ==
  /\ w.count <= Quota
  /\ time < w.until => row # NoBucket /\ row.windowEnd = w.until /\ w.count <= row.hits
  /\ row # NoBucket /\ time < row.windowEnd => w.until = row.windowEnd
LocalTied(w, e) ==
  /\ w.count <= Quota
  /\ time < w.until => e # NoBucket /\ e.resetAt = w.until /\ w.count <= e.hits
  /\ e # NoBucket /\ time < e.resetAt => w.until = e.resetAt

(* The flag of a replica is held by one request or by one clean-up.        *)
Rechecks(r) == {c \in R!Customer : R!Serves(c) = r /\ customer[c].at = "recheck"}
CleanerSound(r) ==
  /\ cleaner[r].running > 0 => cleaner[r].cleaning /\ cleaner[r].running = 1 /\ Rechecks(r) = {}
  /\ Rechecks(r) # {} => cleaner[r].cleaning
  /\ \A c, d \in Rechecks(r) : c = d
  /\ ~cleaned[r].full => cleaner[r].next = cleaned[r].at + CleanupEvery

RatesInv ==
  /\ RatesType
  /\ \A k \in Identity : SharedTied(sharedSpent[k], bucket[k])
  /\ \A r \in Replica, k \in Identity : LocalTied(localSpent[r][k], local[r].entries[k])
  /\ \A r \in Replica : CleanerSound(r)

(* What CleanupSpaced says of a step.                                      *)
Spaced == \A r \in Replica : cleaner'[r].running > cleaner[r].running =>
            /\ cleaner[r].running = 0
            /\ cleaned[r].full \/ time >= cleaned[r].at + CleanupEvery

(* What is assumed of the constants.                                       *)
LEMMA RateConstants ==
  /\ Quota \in Nat \ {0} /\ Window \in Nat \ {0} /\ CleanupEvery \in Nat
  /\ NoBucket \notin SharedRow /\ NoBucket \notin LocalEntry
BY ServicesAssumption DEF R!RateLimitAssumption, SharedRow, LocalEntry

(* The fields of rows, entries and places.                                 *)
LEMMA RateFields ==
  /\ \A x \in SharedRow : x.hits \in Nat /\ x.windowEnd \in Nat
  /\ \A x \in LocalEntry : x.hits \in Nat /\ x.resetAt \in Nat
  /\ \A x \in Spending : x.until \in Nat /\ x.count \in Nat
  /\ \A x \in Place : x.at \in {"idle", "take", "due", "recheck"}
  /\ \A x \in CleanerRow : x.next \in Nat /\ x.cleaning \in BOOLEAN /\ x.running \in Nat
  /\ \A x \in Ended : x.at \in Nat /\ x.full \in BOOLEAN
BY DEF SharedRow, LocalEntry, Spending, Place, CleanerRow, Ended

(* No bucket and no clean-up at first.                                     *)
LEMMA RatesStart == Init => RatesInv
<1> SUFFICES ASSUME R!RateInit PROVE RatesInv
  BY DEF Init
<1>0. R!Unspent \in Spending /\ R!Unspent.until = 0 /\ R!Unspent.count = 0
  BY DEF R!Unspent, Spending
<1>1. IsStore(R!EmptyLimiter) /\ R!EmptyLimiter.entries = [k \in Identity |-> NoBucket]
  <2> DEFINE none == [k \in Identity |-> NoBucket]
  <2>1. none \in [Identity -> LocalEntry \cup {NoBucket}] OBVIOUS
  <2> HIDE DEF none
  <2>2. R!EmptyLimiter = [entries |-> none, recent |-> <<>>, nextCleanupAt |-> Window]
    BY DEF R!EmptyLimiter, none
  <2> QED BY <2>1, <2>2 DEF IsStore, none
<1>2. R!NoCustomer \in Place /\ R!NoCustomer.at = "idle" BY DEF R!NoCustomer, R!At, Place
<1>3. /\ time = 0 /\ bucket = [k \in Identity |-> NoBucket] /\ local = [r \in Replica |-> R!EmptyLimiter]
      /\ cleaner = [r \in Replica |-> [next |-> 0, cleaning |-> FALSE, running |-> 0]]
      /\ customer = [c \in R!Customer |-> R!NoCustomer]
      /\ sharedSpent = [k \in Identity |-> R!Unspent]
      /\ localSpent = [r \in Replica |-> [k \in Identity |-> R!Unspent]]
      /\ cleaned = [r \in Replica |-> [at |-> 0, full |-> TRUE]]
  BY DEF R!RateInit
<1>4. RatesType
  BY <1>0, <1>1, <1>2, <1>3 DEF RatesType, CleanerRow, Ended
<1>5. \A k \in Identity : SharedTied(sharedSpent[k], bucket[k])
  BY <1>0, <1>3, RateConstants DEF SharedTied
<1>6. \A r \in Replica, k \in Identity : LocalTied(localSpent[r][k], local[r].entries[k])
  BY <1>0, <1>1, <1>3, RateConstants DEF LocalTied
<1>7. \A r \in Replica : CleanerSound(r)
  BY <1>2, <1>3 DEF CleanerSound, Rechecks
<1> QED BY <1>4, <1>5, <1>6, <1>7 DEF RatesInv

(* The steps of MemoryStore.Take, as far as they change the entries.       *)
LEMMA RemoveEntryKeeps ==
  ASSUME NEW s, IsStore(s), NEW k
  PROVE  /\ IsStore(R!RemoveEntry(s, k))
         /\ \A x \in Identity : R!RemoveEntry(s, k).entries[x] = IF x = k THEN NoBucket ELSE s.entries[x]
<1> DEFINE e == s.entries
           f == [e EXCEPT ![k] = NoBucket]
           rest == R!Remove(s.recent, k)
<1>1. R!RemoveEntry(s, k) = [s EXCEPT !.entries = f, !.recent = rest] BY DEF R!RemoveEntry
<1>2. e \in [Identity -> LocalEntry \cup {NoBucket}] BY DEF IsStore
<1> HIDE DEF e
<1>3. f \in [Identity -> LocalEntry \cup {NoBucket}]
      /\ \A x \in Identity : f[x] = IF x = k THEN NoBucket ELSE e[x]
  BY <1>2
<1> HIDE DEF f, rest
<1>4. R!RemoveEntry(s, k) = [entries |-> f, recent |-> rest, nextCleanupAt |-> s.nextCleanupAt]
  BY <1>1 DEF IsStore
<1> QED BY <1>3, <1>4 DEF IsStore, e

(* Recency leaves the entries alone.                                       *)
LEMMA MostRecentKeeps ==
  ASSUME NEW s, IsStore(s), NEW k
  PROVE  IsStore(R!MostRecent(s, k)) /\ R!MostRecent(s, k).entries = s.entries
<1> DEFINE rest == <<k>> \o R!Remove(s.recent, k)
<1>1. R!MostRecent(s, k) = [s EXCEPT !.recent = rest] BY DEF R!MostRecent
<1> HIDE DEF rest
<1>2. R!MostRecent(s, k) = [entries |-> s.entries, recent |-> rest, nextCleanupAt |-> s.nextCleanupAt]
  BY <1>1 DEF IsStore
<1> QED BY <1>2 DEF IsStore

(* An eviction takes entries away and changes none.                        *)
LEMMA EvictKeeps ==
  ASSUME NEW s, IsStore(s)
  PROVE  /\ IsStore(R!EvictLeastRecentlyUsed(s))
         /\ \A x \in Identity : R!EvictLeastRecentlyUsed(s).entries[x] \in {NoBucket, s.entries[x]}
<1> DEFINE k == R!Last(s.recent)
<1>1. R!EvictLeastRecentlyUsed(s) \in {s, R!RemoveEntry(s, k)} BY DEF R!EvictLeastRecentlyUsed
<1> HIDE DEF k
<1> QED BY <1>1, RemoveEntryKeeps

(* The sweep takes only what is over.                                      *)
LEMMA CleanedUpKeeps ==
  ASSUME NEW s, IsStore(s)
  PROVE  /\ IsStore(R!CleanedUp(s))
         /\ \A x \in Identity : R!CleanedUp(s).entries[x] =
              IF s.entries[x] # NoBucket /\ R!Over(s.entries[x]) /\ R!CleanedUp(s) # s
                THEN NoBucket ELSE s.entries[x]
<1> DEFINE gone == {k \in Identity : s.entries[k] # NoBucket /\ R!Over(s.entries[k])}
           f == [k \in Identity |-> IF k \in gone THEN NoBucket ELSE s.entries[k]]
           rest == R!Without(s.recent, gone)
           at == time + Window
<1>1. CASE R!CleanedUp(s) = s BY <1>1
<1>2. CASE R!CleanedUp(s) # s
  <2>1. R!CleanedUp(s) = [R!RemoveExpired(s) EXCEPT !.nextCleanupAt = at] BY <1>2 DEF R!CleanedUp
  <2>2. R!RemoveExpired(s) = [s EXCEPT !.entries = f, !.recent = rest] BY DEF R!RemoveExpired
  <2>3. f \in [Identity -> LocalEntry \cup {NoBucket}] BY DEF IsStore
  <2>4. \A x \in Identity : f[x] = IF s.entries[x] # NoBucket /\ R!Over(s.entries[x])
                                     THEN NoBucket ELSE s.entries[x]
    OBVIOUS
  <2> HIDE DEF f, rest, at
  <2>5. R!CleanedUp(s) = [entries |-> f, recent |-> rest, nextCleanupAt |-> at] BY <2>1, <2>2 DEF IsStore
  <2> QED BY <1>2, <2>3, <2>4, <2>5 DEF IsStore
<1> QED BY <1>1, <1>2

(* A window that is over is opened anew, one that is open goes on.         *)
LEMMA SpentCounts ==
  ASSUME time \in Nat, NEW w \in Spending, NEW a \in BOOLEAN
  PROVE  /\ R!Spent(w, a) \in Spending
         /\ R!Spent(w, a).until = IF time >= w.until THEN time + Window ELSE w.until
         /\ R!Spent(w, a).count = (IF time >= w.until THEN 0 ELSE w.count) + (IF a THEN 1 ELSE 0)
BY RateConstants, RateFields DEF R!Spent, Spending

(* MemoryStore.Take: a key is admitted as often as its bucket has hits, and *)
(* whoever is evicted starts anew.                                         *)
LEMMA LocalTakeCounts ==
  ASSUME time \in Nat, NEW s0, IsStore(s0), NEW k \in Identity, NEW w \in [Identity -> Spending],
         \A x \in Identity : LocalTied(w[x], s0.entries[x]),
         NEW t, t = R!LocalTake(s0, k)
  PROVE  /\ IsStore(t.store) /\ t.allowed \in BOOLEAN
         /\ \A x \in Identity \ {k} : LocalTied(IF x \in t.evicted THEN R!Unspent ELSE w[x], t.store.entries[x])
         /\ k \notin t.evicted /\ LocalTied(R!Spent(w[k], t.allowed), t.store.entries[k])
<1> DEFINE swept == R!CleanedUp(s0)
           s == IF swept.entries[k] # NoBucket /\ R!Over(swept.entries[k]) THEN R!RemoveEntry(swept, k) ELSE swept
           room == R!EvictLeastRecentlyUsed(s)
<1>0. w[k] \in Spending /\ w[k].until \in Nat /\ w[k].count \in Nat BY RateFields
<1>1. IsStore(swept) /\ (\A x \in Identity : swept.entries[x] \in {NoBucket, s0.entries[x]})
      /\ \A x \in Identity : LocalTied(w[x], swept.entries[x])
  <2> SUFFICES ASSUME NEW x \in Identity PROVE LocalTied(w[x], swept.entries[x])
    BY CleanedUpKeeps
  <2>1. CASE swept.entries[x] = s0.entries[x] BY <2>1
  <2>2. CASE swept.entries[x] # s0.entries[x]
    <3>1. swept.entries[x] = NoBucket /\ s0.entries[x] # NoBucket /\ R!Over(s0.entries[x])
      BY <2>2, CleanedUpKeeps
    <3>2. s0.entries[x] \in LocalEntry /\ w[x] \in Spending BY <3>1 DEF IsStore
    <3>3. s0.entries[x].resetAt \in Nat /\ w[x].until \in Nat BY <3>2, RateFields
    <3>4. ~(time < w[x].until) BY <3>1, <3>3 DEF LocalTied, R!Over
    <3> QED BY <3>1, <3>4 DEF LocalTied
  <2> QED BY <2>1, <2>2
<1> HIDE DEF swept
<1>2. /\ IsStore(s) /\ (\A x \in Identity : LocalTied(w[x], s.entries[x]))
      /\ s.entries[k] # NoBucket => ~R!Over(s.entries[k])
  <2>1. CASE ~(swept.entries[k] # NoBucket /\ R!Over(swept.entries[k])) BY <1>1, <2>1
  <2>2. CASE swept.entries[k] # NoBucket /\ R!Over(swept.entries[k])
    <3>1. s = R!RemoveEntry(swept, k) BY <2>2
    <3> HIDE DEF s
    <3>2. IsStore(s) /\ (\A x \in Identity : s.entries[x] = IF x = k THEN NoBucket ELSE swept.entries[x])
      BY <1>1, <3>1, RemoveEntryKeeps
    <3>3. swept.entries[k].resetAt \in Nat BY <1>1, <2>2, RateFields DEF IsStore
    <3>4. LocalTied(w[k], swept.entries[k]) BY <1>1
    <3>5. LocalTied(w[k], NoBucket) BY <1>0, <2>2, <3>3, <3>4 DEF LocalTied, R!Over
    <3> QED BY <1>1, <3>2, <3>5
  <2> QED BY <2>1, <2>2
<1>3. t = IF s.entries[k] = NoBucket
            THEN [store |-> R!MostRecent([room EXCEPT !.entries[k] = [hits |-> 1, resetAt |-> time + Window]], k),
                  allowed |-> TRUE,
                  evicted |-> {x \in Identity : s.entries[x] # NoBucket /\ room.entries[x] = NoBucket}]
            ELSE [store |-> [R!MostRecent(s, k) EXCEPT !.entries[k].hits = IF @ >= Quota THEN @ ELSE @ + 1],
                  allowed |-> s.entries[k].hits < Quota,
                  evicted |-> {}]
  BY DEF R!LocalTake, swept
<1> HIDE DEF s
<1>4. CASE s.entries[k] = NoBucket
  <2> DEFINE e == [hits |-> 1, resetAt |-> time + Window]
             had == room.entries
             f == [had EXCEPT ![k] = e]
             put == [room EXCEPT !.entries[k] = e]
             gone == {x \in Identity : s.entries[x] # NoBucket /\ room.entries[x] = NoBucket}
  <2>1. t = [store |-> R!MostRecent(put, k), allowed |-> TRUE, evicted |-> gone] BY <1>3, <1>4
  <2>2. put = [room EXCEPT !.entries = f] OBVIOUS
  <2>3. IsStore(room) /\ (\A x \in Identity : room.entries[x] \in {NoBucket, s.entries[x]})
    BY <1>2, EvictKeeps
  <2>4. \A x \in Identity : x \in gone <=> s.entries[x] # NoBucket /\ room.entries[x] = NoBucket OBVIOUS
  <2> HIDE DEF put, gone, room
  <2>5. /\ e \in LocalEntry /\ e # NoBucket /\ e.hits = 1 /\ e.resetAt = time + Window
    BY RateConstants DEF LocalEntry
  <2> HIDE DEF e
  <2>6. had \in [Identity -> LocalEntry \cup {NoBucket}] BY <2>3 DEF IsStore
  <2> HIDE DEF had
  <2>7. f \in [Identity -> LocalEntry \cup {NoBucket}] /\ (\A x \in Identity : f[x] = IF x = k THEN e ELSE had[x])
    BY <2>5, <2>6
  <2> HIDE DEF f
  <2>8. put = [entries |-> f, recent |-> room.recent, nextCleanupAt |-> room.nextCleanupAt]
    BY <2>2, <2>3 DEF IsStore
  <2>9. IsStore(put) /\ put.entries = f BY <2>7, <2>8 DEF IsStore
  <2>10. IsStore(t.store) /\ t.store.entries = f BY <2>1, <2>9, MostRecentKeeps
  <2>11. \A x \in Identity \ {k} : LocalTied(IF x \in t.evicted THEN R!Unspent ELSE w[x], t.store.entries[x])
    <3> SUFFICES ASSUME NEW x \in Identity \ {k}
                 PROVE  LocalTied(IF x \in t.evicted THEN R!Unspent ELSE w[x], t.store.entries[x])
      OBVIOUS
    <3>1. t.store.entries[x] = room.entries[x] /\ t.evicted = gone BY <2>1, <2>7, <2>10 DEF had
    <3>2. CASE x \in gone
      <4>1. LocalTied(R!Unspent, NoBucket) BY RateConstants DEF LocalTied, R!Unspent
      <4> QED BY <2>4, <3>1, <3>2, <4>1
    <3>3. CASE x \notin gone
      <4>1. room.entries[x] = s.entries[x] BY <2>3, <2>4, <3>3
      <4> QED BY <1>2, <3>1, <3>3, <4>1
    <3> QED BY <3>2, <3>3
  <2>12. LocalTied(w[k], NoBucket) BY <1>2, <1>4
  <2>13. time >= w[k].until BY <1>0, <2>12 DEF LocalTied
  <2> DEFINE allowed == t.allowed
  <2>14. allowed \in BOOLEAN /\ allowed = TRUE BY <2>1
  <2> HIDE DEF allowed
  <2>15. R!Spent(w[k], allowed).until = time + Window /\ R!Spent(w[k], allowed).count = 1
    <3>1. (IF allowed THEN 1 ELSE 0) = 1 BY <2>14
    <3>2. R!Spent(w[k], allowed).until = IF time >= w[k].until THEN time + Window ELSE w[k].until
      BY <1>0, <2>14, SpentCounts
    <3>3. R!Spent(w[k], allowed).count = (IF time >= w[k].until THEN 0 ELSE w[k].count) + (IF allowed THEN 1 ELSE 0)
      BY <1>0, <2>14, SpentCounts
    <3> QED BY <2>13, <3>1, <3>2, <3>3
  <2>17. LocalTied(R!Spent(w[k], allowed), e) BY <2>5, <2>15, RateConstants DEF LocalTied
  <2>16. k \notin gone BY <1>4, <2>4
  <2>18. t.store.entries[k] = e BY <2>7, <2>10
  <2>19. t.evicted = gone BY <2>1
  <2>20. LocalTied(R!Spent(w[k], t.allowed), t.store.entries[k]) BY <2>17, <2>18 DEF allowed
  <2>21. t.allowed \in BOOLEAN BY <2>14 DEF allowed
  <2> QED BY <2>10, <2>11, <2>16, <2>19, <2>20, <2>21
<1>5. CASE s.entries[k] # NoBucket
  <2> DEFINE had == s.entries
             old == had[k]
             hits == IF old.hits >= Quota THEN old.hits ELSE old.hits + 1
             e == [old EXCEPT !.hits = hits]
             f == [had EXCEPT ![k] = e]
             moved == R!MostRecent(s, k)
             put == [moved EXCEPT !.entries = f]
  <2>1. IsStore(moved) /\ moved.entries = had BY <1>2, MostRecentKeeps
  <2>2. t = [store |-> put, allowed |-> old.hits < Quota, evicted |-> {}] BY <1>3, <1>5, <2>1
  <2>3. old \in LocalEntry /\ old.hits \in Nat /\ old.resetAt \in Nat BY <1>2, <1>5, RateFields DEF IsStore
  <2>4. LocalTied(w[k], old) /\ ~R!Over(old) BY <1>2, <1>5
  <2>5. had \in [Identity -> LocalEntry \cup {NoBucket}] BY <1>2 DEF IsStore
  <2>6. hits \in Nat /\ hits = old.hits + (IF old.hits < Quota THEN 1 ELSE 0) BY <2>3, RateConstants
  <2> HIDE DEF moved, hits, old
  <2>7. e \in LocalEntry /\ e.hits = hits /\ e.resetAt = old.resetAt BY <2>3, <2>6 DEF LocalEntry
  <2>8. e # NoBucket BY <2>7, RateConstants
  <2> HIDE DEF e, had
  <2>9. f \in [Identity -> LocalEntry \cup {NoBucket}] /\ (\A x \in Identity : f[x] = IF x = k THEN e ELSE had[x])
    BY <2>5, <2>7
  <2> HIDE DEF f
  <2>10. put = [entries |-> f, recent |-> moved.recent, nextCleanupAt |-> moved.nextCleanupAt]
    BY <2>1 DEF IsStore
  <2>11. IsStore(put) /\ put.entries = f BY <2>9, <2>10 DEF IsStore
  <2> HIDE DEF put
  <2>12. \A x \in Identity \ {k} : LocalTied(IF x \in t.evicted THEN R!Unspent ELSE w[x], t.store.entries[x])
    BY <1>2, <2>2, <2>9, <2>11 DEF had
  <2>13. time < old.resetAt /\ w[k].until = old.resetAt /\ w[k].count <= old.hits /\ w[k].count <= Quota
    BY <1>0, <2>3, <2>4, <2>8, <1>5 DEF LocalTied, R!Over, old, had
  <2> DEFINE allowed == old.hits < Quota
  <2>14. allowed \in BOOLEAN /\ t.allowed = allowed /\ (allowed <=> old.hits < Quota) BY <2>2
  <2> HIDE DEF allowed
  <2>15. /\ R!Spent(w[k], allowed).until = old.resetAt
         /\ R!Spent(w[k], allowed).count = w[k].count + (IF old.hits < Quota THEN 1 ELSE 0)
    BY <1>0, <2>3, <2>13, <2>14, SpentCounts
  <2>16. LocalTied(R!Spent(w[k], allowed), e)
    BY <1>0, <2>3, <2>6, <2>7, <2>8, <2>13, <2>15, RateConstants DEF LocalTied
  <2> QED BY <2>2, <2>9, <2>11, <2>12, <2>14, <2>16
<1> QED BY <1>4, <1>5

(* A customer that moves on, neither from nor to the second look at the    *)
(* schedule, leaves the clean-ups alone.                                   *)
LEMMA CustomerMoves ==
  ASSUME RatesType, NEW c \in R!Customer, NEW p \in Place, customer' = [customer EXCEPT ![c] = p],
         p.at = "take" => p.key \in Identity
  PROVE  /\ customer' \in [R!Customer -> Place]
         /\ \A d \in R!Customer : customer'[d] = IF d = c THEN p ELSE customer[d]
         /\ \A d \in R!Customer : customer'[d].at = "take" => customer'[d].key \in Identity
         /\ customer[c].at # "recheck" /\ p.at # "recheck" => \A r \in Replica : Rechecks(r)' = Rechecks(r)
<1>1. customer' \in [R!Customer -> Place] BY DEF RatesType
<1>2. \A d \in R!Customer : customer'[d] = IF d = c THEN p ELSE customer[d] BY DEF RatesType
<1>3. \A d \in R!Customer : customer'[d].at = "take" => customer'[d].key \in Identity BY <1>2 DEF RatesType
<1>4. ASSUME customer[c].at # "recheck", p.at # "recheck", NEW r \in Replica PROVE Rechecks(r)' = Rechecks(r)
  BY <1>2, <1>4 DEF Rechecks, R!Serves
<1> QED BY <1>1, <1>2, <1>3, <1>4

(* Where a request can go.                                                 *)
LEMMA CustomerPlaces ==
  /\ R!NoCustomer \in Place /\ R!NoCustomer.at = "idle"
  /\ R!At("due") \in Place /\ R!At("due").at = "due"
  /\ R!At("recheck") \in Place /\ R!At("recheck").at = "recheck"
  /\ \A k \in Identity : [at |-> "take", key |-> k] \in Place
  /\ \A c \in R!Customer : R!Serves(c) \in Replica
BY DEF R!NoCustomer, R!At, Place, R!Serves, R!Customer

(* A step that touches neither cleaners nor their flags.                   *)
LEMMA CleanersStay ==
  ASSUME RatesInv, UNCHANGED <<cleaner, cleaned>>, \A r \in Replica : Rechecks(r)' = Rechecks(r)
  PROVE  (\A r \in Replica : CleanerSound(r)') /\ Spaced
<1>1. \A r \in Replica : CleanerSound(r)
  BY DEF RatesInv
<1>2. \A r \in Replica : cleaner[r].running \in Nat
  BY RateFields DEF RatesInv, RatesType
<1>3. Spaced BY <1>2 DEF Spaced
<1> QED BY <1>1, <1>3 DEF CleanerSound

(* Take's statement, answered or not.                                      *)
LEMMA TakeBucketTied ==
  ASSUME RatesInv, NEW k \in Identity, NEW a \in BOOLEAN, a => R!TakeBucket(k).hits <= Quota
  PROVE  R!TakeBucket(k) \in SharedRow /\ SharedTied(R!Spent(sharedSpent[k], a), R!TakeBucket(k))
<1> DEFINE row == bucket[k]
           new == R!TakeBucket(k)
           w == sharedSpent[k]
           n == IF a THEN 1 ELSE 0
<1>0. /\ time \in Nat /\ row \in SharedRow \cup {NoBucket} /\ w \in Spending /\ SharedTied(w, row)
      /\ w.until \in Nat /\ w.count \in Nat /\ n \in {0, 1}
  BY RateFields DEF RatesInv, RatesType
<1>1. /\ R!Spent(w, a).until = IF time >= w.until THEN time + Window ELSE w.until
      /\ R!Spent(w, a).count = (IF time >= w.until THEN 0 ELSE w.count) + n
  BY <1>0, SpentCounts
<1>2. n = 1 => new.hits <= Quota OBVIOUS
<1> HIDE DEF w, n
<1>3. CASE row = NoBucket \/ row.windowEnd <= time
  <2>1. new = [hits |-> 1, windowEnd |-> time + Window] BY <1>3 DEF R!TakeBucket
  <2>2. time >= w.until
    <3>1. CASE row = NoBucket BY <1>0, <3>1 DEF SharedTied
    <3>2. CASE row # NoBucket
      <4>1. row.windowEnd \in Nat BY <1>0, <3>2, RateFields
      <4> QED BY <1>0, <1>3, <3>2, <4>1 DEF SharedTied
    <3> QED BY <3>1, <3>2
  <2> HIDE DEF new, row
  <2>3. new \in SharedRow /\ new.hits = 1 /\ new.windowEnd = time + Window
    BY <1>0, <2>1, RateConstants DEF SharedRow
  <2>4. new # NoBucket BY <2>3, RateConstants
  <2>5. SharedTied(R!Spent(w, a), new) BY <1>0, <1>1, <2>2, <2>3, <2>4, RateConstants DEF SharedTied
  <2> QED BY <2>3, <2>5 DEF new, w
<1>4. CASE row # NoBucket /\ ~(row.windowEnd <= time)
  <2> DEFINE hits == R!Saturate(row.hits)
  <2>1. row \in SharedRow /\ row.hits \in Nat /\ row.windowEnd \in Nat BY <1>0, <1>4, RateFields
  <2>2. new = [row EXCEPT !.hits = hits] BY <1>4 DEF R!TakeBucket
  <2>3. hits = (IF row.hits + 1 > Quota + 1 THEN Quota + 1 ELSE row.hits + 1) /\ hits \in Nat
    BY <2>1, RateConstants DEF R!Saturate
  <2> HIDE DEF new, row, hits
  <2>4. new \in SharedRow /\ new.hits = hits /\ new.windowEnd = row.windowEnd BY <2>1, <2>2, <2>3 DEF SharedRow
  <2>5. new # NoBucket BY <2>4, RateConstants
  <2>6. time < row.windowEnd /\ w.until = row.windowEnd /\ w.count <= row.hits /\ w.count <= Quota
    BY <1>0, <1>4, <2>1 DEF SharedTied
  <2>7. R!Spent(w, a).until = row.windowEnd /\ R!Spent(w, a).count = w.count + n BY <1>0, <1>1, <2>1, <2>6
  <2>8. w.count + n <= Quota /\ w.count + n <= hits BY <1>0, <1>2, <2>1, <2>3, <2>4, <2>6, RateConstants
  <2>9. SharedTied(R!Spent(w, a), new) BY <2>4, <2>5, <2>7, <2>8 DEF SharedTied
  <2> QED BY <2>4, <2>9 DEF new, w
<1> QED BY <1>0, <1>3, <1>4

(* The row and the window that counts it move together.                    *)
LEMMA SharedTakeKeeps ==
  ASSUME RatesInv, NEW k \in Identity, NEW a \in BOOLEAN, a => R!TakeBucket(k).hits <= Quota,
         bucket' = [bucket EXCEPT ![k] = R!TakeBucket(k)],
         sharedSpent' = [sharedSpent EXCEPT ![k] = R!Spent(sharedSpent[k], a)], time' = time
  PROVE  /\ bucket' \in [Identity -> SharedRow \cup {NoBucket}] /\ sharedSpent' \in [Identity -> Spending]
         /\ \A x \in Identity : SharedTied(sharedSpent[x], bucket[x])'
<1> DEFINE new == R!TakeBucket(k)
           spent == R!Spent(sharedSpent[k], a)
<1>1. new \in SharedRow /\ SharedTied(spent, new) BY TakeBucketTied
<1>2. spent \in Spending BY SpentCounts DEF RatesInv, RatesType
<1> HIDE DEF new, spent
<1>3. bucket' = [bucket EXCEPT ![k] = new] /\ sharedSpent' = [sharedSpent EXCEPT ![k] = spent]
  BY DEF new, spent
<1>4. /\ bucket' \in [Identity -> SharedRow \cup {NoBucket}] /\ sharedSpent' \in [Identity -> Spending]
      /\ \A x \in Identity : /\ bucket'[x] = IF x = k THEN new ELSE bucket[x]
                             /\ sharedSpent'[x] = IF x = k THEN spent ELSE sharedSpent[x]
  BY <1>1, <1>2, <1>3 DEF RatesInv, RatesType
<1>5. \A x \in Identity : SharedTied(sharedSpent[x], bucket[x])'
  BY <1>1, <1>4 DEF RatesInv, SharedTied
<1> QED BY <1>4, <1>5

(* The statement answers.                                                  *)
LEMMA TakeSharedStep ==
  ASSUME RatesInv, NEW c \in R!Customer, R!TakeShared(c) PROVE RatesInv' /\ Spaced
<1> DEFINE k == customer[c].key
           a == R!TakeBucket(k).hits <= Quota
           p == IF time < cleaner[R!Serves(c)].next THEN R!NoCustomer ELSE R!At("due")
<1>1. /\ customer[c].at = "take" /\ k \in Identity /\ p \in Place /\ p.at \in {"idle", "due"}
      /\ customer' = [customer EXCEPT ![c] = p]
      /\ UNCHANGED <<local, cleaner, time, localSpent, cleaned>>
  BY CustomerPlaces DEF R!TakeShared, RatesInv, RatesType
<1>2. /\ bucket' = [bucket EXCEPT ![k] = R!TakeBucket(k)]
      /\ sharedSpent' = [sharedSpent EXCEPT ![k] = R!Spent(sharedSpent[k], a)]
  BY <1>1 DEF R!TakeShared, RatesInv, RatesType
<1>3. a \in BOOLEAN /\ (a => R!TakeBucket(k).hits <= Quota) OBVIOUS
<1> HIDE DEF k, a, p
<1>4. /\ bucket' \in [Identity -> SharedRow \cup {NoBucket}] /\ sharedSpent' \in [Identity -> Spending]
      /\ \A x \in Identity : SharedTied(sharedSpent[x], bucket[x])'
  BY <1>1, <1>2, <1>3, SharedTakeKeeps
<1>5. /\ customer' \in [R!Customer -> Place]
      /\ \A d \in R!Customer : customer'[d].at = "take" => customer'[d].key \in Identity
      /\ \A r \in Replica : Rechecks(r)' = Rechecks(r)
  BY <1>1, CustomerMoves DEF RatesInv
<1>6. (\A r \in Replica : CleanerSound(r)') /\ Spaced BY <1>1, <1>5, CleanersStay
<1>7. \A r \in Replica, x \in Identity : LocalTied(localSpent[r][x], local[r].entries[x])'
  BY <1>1 DEF RatesInv, LocalTied
<1>8. RatesType' BY <1>1, <1>4, <1>5 DEF RatesInv, RatesType, IsStore
<1> QED BY <1>4, <1>6, <1>7, <1>8 DEF RatesInv

(* Customers that come, and time.                                          *)
LEMMA RatesAroundStep ==
  ASSUME RatesInv, (\E c \in R!Customer, k \in Identity : R!RequestArrives(c, k)) \/ R!TimePasses
  PROVE  RatesInv' /\ Spaced
<1>1. CASE \E c \in R!Customer, k \in Identity : R!RequestArrives(c, k)
  <2>1. PICK c \in R!Customer, k \in Identity : R!RequestArrives(c, k) BY <1>1
  <2> DEFINE p == [at |-> "take", key |-> k]
  <2>2. /\ customer[c].at = "idle" /\ p \in Place /\ p.at = "take" /\ p.key = k
        /\ customer' = [customer EXCEPT ![c] = p]
        /\ UNCHANGED <<bucket, local, cleaner, time, sharedSpent, localSpent, cleaned>>
    BY <2>1, CustomerPlaces DEF R!RequestArrives
  <2> HIDE DEF p
  <2>3. /\ customer' \in [R!Customer -> Place]
        /\ \A d \in R!Customer : customer'[d].at = "take" => customer'[d].key \in Identity
        /\ \A r \in Replica : Rechecks(r)' = Rechecks(r)
    BY <2>2, CustomerMoves DEF RatesInv
  <2>4. (\A r \in Replica : CleanerSound(r)') /\ Spaced BY <2>2, <2>3, CleanersStay
  <2>5. RatesType' BY <2>2, <2>3 DEF RatesInv, RatesType, IsStore
  <2> QED BY <2>2, <2>4, <2>5 DEF RatesInv, SharedTied, LocalTied
<1>2. CASE R!TimePasses
  <2>1. time' = time + 1 /\ UNCHANGED <<bucket, local, cleaner, customer, sharedSpent, localSpent, cleaned>>
    BY <1>2 DEF R!TimePasses
  <2>2. RatesType' BY <2>1 DEF RatesInv, RatesType, IsStore
  <2>3. \A r \in Replica : Rechecks(r)' = Rechecks(r) BY <2>1 DEF Rechecks
  <2>4. (\A r \in Replica : CleanerSound(r)') /\ Spaced BY <2>1, <2>3, CleanersStay
  <2>5. \A k \in Identity : SharedTied(sharedSpent[k], bucket[k])'
    <3> SUFFICES ASSUME NEW k \in Identity PROVE SharedTied(sharedSpent[k], bucket[k])'
      OBVIOUS
    <3>1. /\ SharedTied(sharedSpent[k], bucket[k]) /\ sharedSpent[k].until \in Nat /\ time \in Nat
          /\ bucket[k] # NoBucket => bucket[k].windowEnd \in Nat
      BY RateFields DEF RatesInv, RatesType
    <3> QED BY <2>1, <3>1 DEF SharedTied
  <2>6. \A r \in Replica, k \in Identity : LocalTied(localSpent[r][k], local[r].entries[k])'
    <3> SUFFICES ASSUME NEW r \in Replica, NEW k \in Identity
                 PROVE  LocalTied(localSpent[r][k], local[r].entries[k])'
      OBVIOUS
    <3> DEFINE e == local[r].entries[k]
    <3>1. /\ LocalTied(localSpent[r][k], e) /\ localSpent[r][k].until \in Nat /\ time \in Nat
          /\ e # NoBucket => e.resetAt \in Nat
      BY RateFields DEF RatesInv, RatesType, IsStore
    <3> QED BY <2>1, <3>1 DEF LocalTied
  <2> QED BY <2>2, <2>4, <2>5, <2>6 DEF RatesInv
<1> QED BY <1>1, <1>2

(* The decision fails: the statement may have been applied all the same,   *)
(* and the local store admits or refuses.                                  *)
LEMMA TakeFailsStep ==
  ASSUME RatesInv, NEW c \in R!Customer, NEW done \in BOOLEAN, R!TakeFails(c, done)
  PROVE  RatesInv' /\ Spaced
<1> DEFINE k == customer[c].key
           r == R!Serves(c)
           t == R!LocalTake(local[r], k)
           w == localSpent[r]
           no == FALSE
<1>1. /\ customer[c].at = "take" /\ k \in Identity /\ r \in Replica
      /\ customer' = [customer EXCEPT ![c] = R!NoCustomer]
      /\ UNCHANGED <<cleaner, time, cleaned>>
  BY CustomerPlaces DEF R!TakeFails, RatesInv, RatesType
<1>2. /\ bucket' \in [Identity -> SharedRow \cup {NoBucket}] /\ sharedSpent' \in [Identity -> Spending]
      /\ \A x \in Identity : SharedTied(sharedSpent[x], bucket[x])'
  <2>1. CASE done
    <3>1. /\ bucket' = [bucket EXCEPT ![k] = R!TakeBucket(k)]
          /\ sharedSpent' = [sharedSpent EXCEPT ![k] = R!Spent(sharedSpent[k], no)]
      BY <1>1, <2>1 DEF R!TakeFails, RatesInv, RatesType
    <3>2. no \in BOOLEAN /\ ~no OBVIOUS
    <3> HIDE DEF no, k
    <3> QED BY <1>1, <3>1, <3>2, SharedTakeKeeps
  <2>2. CASE ~done
    <3>1. bucket' = bucket /\ sharedSpent' = sharedSpent BY <2>2 DEF R!TakeFails
    <3> QED BY <1>1, <3>1 DEF RatesInv, RatesType, SharedTied
  <2> QED BY <2>1, <2>2
<1>3. /\ local' = [x \in Replica |-> local'[x]] /\ (\A x \in Replica : IsStore(local'[x]))
      /\ localSpent' \in [Replica -> [Identity -> Spending]]
      /\ \A x \in Replica, y \in Identity : LocalTied(localSpent[x][y], local[x].entries[y])'
  <2>0. /\ local = [x \in Replica |-> local[x]] /\ (\A x \in Replica : IsStore(local[x])) /\ time \in Nat
        /\ localSpent \in [Replica -> [Identity -> Spending]] /\ w \in [Identity -> Spending]
        /\ \A x \in Replica, y \in Identity : LocalTied(localSpent[x][y], local[x].entries[y])
    BY <1>1 DEF RatesInv, RatesType
  <2>1. CASE FailureIs # "local"
    <3>1. local' = local /\ localSpent' = localSpent BY <2>1 DEF R!TakeFails
    <3> QED BY <1>1, <2>0, <3>1 DEF LocalTied, IsStore
  <2>2. CASE FailureIs = "local"
    <3> DEFINE spent == [x \in Identity |-> IF x \in t.evicted THEN R!Unspent
                                            ELSE IF x = k THEN R!Spent(w[x], t.allowed) ELSE w[x]]
               store == t.store
    <3>1. local' = [local EXCEPT ![r] = store] /\ localSpent' = [localSpent EXCEPT ![r] = spent]
      BY <1>1, <2>0, <2>2 DEF R!TakeFails
    <3>2. /\ IsStore(store) /\ t.allowed \in BOOLEAN
          /\ \A x \in Identity \ {k} : LocalTied(IF x \in t.evicted THEN R!Unspent ELSE w[x], store.entries[x])
          /\ k \notin t.evicted /\ LocalTied(R!Spent(w[k], t.allowed), store.entries[k])
      BY <1>1, <2>0, LocalTakeCounts
    <3>3. R!Spent(w[k], t.allowed) \in Spending BY <1>1, <2>0, <3>2, SpentCounts
    <3>4. R!Unspent \in Spending BY DEF R!Unspent, Spending
    <3> HIDE DEF t, store, w
    <3>5. spent \in [Identity -> Spending] /\ (\A x \in Identity : LocalTied(spent[x], store.entries[x]))
      BY <1>1, <2>0, <3>2, <3>3, <3>4
    <3> HIDE DEF spent, r
    <3>6. /\ local' = [x \in Replica |-> local'[x]] /\ localSpent' \in [Replica -> [Identity -> Spending]]
          /\ \A x \in Replica : /\ local'[x] = IF x = r THEN store ELSE local[x]
                                /\ localSpent'[x] = IF x = r THEN spent ELSE localSpent[x]
      BY <1>1, <2>0, <3>1, <3>5
    <3>7. \A x \in Replica : IsStore(local'[x]) BY <2>0, <3>2, <3>6
    <3>8. \A x \in Replica, y \in Identity : LocalTied(localSpent[x][y], local[x].entries[y])'
      <4> SUFFICES ASSUME NEW x \in Replica, NEW y \in Identity
                   PROVE  LocalTied(localSpent[x][y], local[x].entries[y])'
        OBVIOUS
      <4>1. CASE x = r BY <1>1, <3>5, <3>6, <4>1 DEF LocalTied
      <4>2. CASE x # r BY <1>1, <2>0, <3>6, <4>2 DEF LocalTied
      <4> QED BY <4>1, <4>2
    <3> QED BY <3>6, <3>7, <3>8
  <2> QED BY <2>1, <2>2
<1>4. /\ customer' \in [R!Customer -> Place]
      /\ \A d \in R!Customer : customer'[d].at = "take" => customer'[d].key \in Identity
      /\ \A x \in Replica : Rechecks(x)' = Rechecks(x)
  BY <1>1, CustomerMoves, CustomerPlaces DEF RatesInv
<1>5. (\A x \in Replica : CleanerSound(x)') /\ Spaced BY <1>1, <1>4, CleanersStay
<1>6. RatesType' BY <1>1, <1>2, <1>3, <1>4 DEF RatesInv, RatesType, IsStore
<1> QED BY <1>2, <1>3, <1>5, <1>6 DEF RatesInv

(* Reset starts the key anew on both sides, as far as it gets.             *)
LEMMA ResetStep ==
  ASSUME RatesInv, NEW c \in R!Customer, NEW fails \in BOOLEAN, R!Reset(c, fails)
  PROVE  RatesInv' /\ Spaced
<1> DEFINE k == customer[c].key
           r == R!Serves(c)
           store == IF local[r].entries[k] = NoBucket THEN local[r] ELSE R!RemoveEntry(local[r], k)
           w == localSpent[r]
           spent == [w EXCEPT ![k] = R!Unspent]
<1>1. /\ customer[c].at = "take" /\ k \in Identity /\ r \in Replica
      /\ customer' = [customer EXCEPT ![c] = R!NoCustomer]
      /\ UNCHANGED <<cleaner, time, cleaned>>
  BY CustomerPlaces DEF R!Reset, RatesInv, RatesType
<1>2. R!Unspent \in Spending /\ R!Unspent.until = 0 /\ R!Unspent.count = 0 BY DEF R!Unspent, Spending
<1>3. LocalTied(R!Unspent, NoBucket) /\ SharedTied(R!Unspent, NoBucket) /\ time \in Nat
  BY <1>2, RateConstants DEF LocalTied, SharedTied, RatesInv, RatesType
<1>4. /\ bucket' \in [Identity -> SharedRow \cup {NoBucket}] /\ sharedSpent' \in [Identity -> Spending]
      /\ \A x \in Identity : SharedTied(sharedSpent[x], bucket[x])'
  <2>1. CASE fails
    <3>1. bucket' = bucket /\ sharedSpent' = sharedSpent BY <2>1 DEF R!Reset
    <3> QED BY <1>1, <3>1 DEF RatesInv, RatesType, SharedTied
  <2>2. CASE ~fails
    <3>1. bucket' = [bucket EXCEPT ![k] = NoBucket] /\ sharedSpent' = [sharedSpent EXCEPT ![k] = R!Unspent]
      BY <2>2 DEF R!Reset
    <3> HIDE DEF k
    <3>2. /\ bucket' \in [Identity -> SharedRow \cup {NoBucket}] /\ sharedSpent' \in [Identity -> Spending]
          /\ \A x \in Identity : /\ bucket'[x] = IF x = k THEN NoBucket ELSE bucket[x]
                                 /\ sharedSpent'[x] = IF x = k THEN R!Unspent ELSE sharedSpent[x]
      BY <1>1, <1>2, <3>1 DEF RatesInv, RatesType
    <3>3. \A x \in Identity : SharedTied(sharedSpent[x], bucket[x])'
      BY <1>1, <1>3, <3>2 DEF RatesInv, SharedTied
    <3> QED BY <3>2, <3>3
  <2> QED BY <2>1, <2>2
<1>5. /\ local' = [x \in Replica |-> local'[x]] /\ (\A x \in Replica : IsStore(local'[x]))
      /\ localSpent' \in [Replica -> [Identity -> Spending]]
      /\ \A x \in Replica, y \in Identity : LocalTied(localSpent[x][y], local[x].entries[y])'
  <2>0. /\ local = [x \in Replica |-> local[x]] /\ (\A x \in Replica : IsStore(local[x]))
        /\ localSpent \in [Replica -> [Identity -> Spending]] /\ w \in [Identity -> Spending]
        /\ \A x \in Replica, y \in Identity : LocalTied(localSpent[x][y], local[x].entries[y])
    BY <1>1 DEF RatesInv, RatesType
  <2>1. local' = [local EXCEPT ![r] = store] /\ localSpent' = [localSpent EXCEPT ![r] = spent]
    BY <1>1, <2>0 DEF R!Reset
  <2>2. IsStore(store) /\ (\A x \in Identity : store.entries[x] = IF x = k THEN NoBucket ELSE local[r].entries[x])
    BY <1>1, <2>0, RemoveEntryKeeps
  <2> HIDE DEF store, w, k
  <2>3. spent \in [Identity -> Spending] /\ (\A x \in Identity : spent[x] = IF x = k THEN R!Unspent ELSE w[x])
    BY <1>1, <1>2, <2>0
  <2> HIDE DEF spent
  <2>4. \A x \in Identity : LocalTied(spent[x], store.entries[x])
    BY <1>1, <1>3, <2>0, <2>2, <2>3 DEF w
  <2> HIDE DEF r
  <2>5. /\ local' = [x \in Replica |-> local'[x]] /\ localSpent' \in [Replica -> [Identity -> Spending]]
        /\ \A x \in Replica : /\ local'[x] = IF x = r THEN store ELSE local[x]
                              /\ localSpent'[x] = IF x = r THEN spent ELSE localSpent[x]
    BY <1>1, <2>0, <2>1, <2>3
  <2>6. \A x \in Replica : IsStore(local'[x]) BY <2>0, <2>2, <2>5
  <2>7. \A x \in Replica, y \in Identity : LocalTied(localSpent[x][y], local[x].entries[y])'
    <3> SUFFICES ASSUME NEW x \in Replica, NEW y \in Identity
                 PROVE  LocalTied(localSpent[x][y], local[x].entries[y])'
      OBVIOUS
    <3>1. CASE x = r BY <1>1, <2>4, <2>5, <3>1 DEF LocalTied
    <3>2. CASE x # r BY <1>1, <2>0, <2>5, <3>2 DEF LocalTied
    <3> QED BY <3>1, <3>2
  <2> QED BY <2>5, <2>6, <2>7
<1>6. /\ customer' \in [R!Customer -> Place]
      /\ \A d \in R!Customer : customer'[d].at = "take" => customer'[d].key \in Identity
      /\ \A x \in Replica : Rechecks(x)' = Rechecks(x)
  BY <1>1, CustomerMoves, CustomerPlaces DEF RatesInv
<1>7. (\A x \in Replica : CleanerSound(x)') /\ Spaced BY <1>1, <1>6, CleanersStay
<1>8. RatesType' BY <1>1, <1>4, <1>5, <1>6 DEF RatesInv, RatesType, IsStore
<1> QED BY <1>4, <1>5, <1>7, <1>8 DEF RatesInv

(* Pruning takes only rows whose window is over.                           *)
LEMMA PruneKeeps ==
  ASSUME RatesInv, NEW gone \in SUBSET Identity, \A k \in gone : R!Expired(k), R!Prune(gone),
         UNCHANGED <<sharedSpent, time>>
  PROVE  /\ bucket' \in [Identity -> SharedRow \cup {NoBucket}]
         /\ \A k \in Identity : SharedTied(sharedSpent[k], bucket[k])'
<1>1. /\ bucket' \in [Identity -> SharedRow \cup {NoBucket}]
      /\ \A k \in Identity : bucket'[k] = IF k \in gone THEN NoBucket ELSE bucket[k]
  BY DEF R!Prune, RatesInv, RatesType
<1>2. ASSUME NEW k \in Identity PROVE SharedTied(sharedSpent[k], bucket[k])'
  <2>0. SharedTied(sharedSpent[k], bucket[k]) /\ sharedSpent[k].until \in Nat /\ time \in Nat
    BY RateFields DEF RatesInv, RatesType
  <2>1. CASE k \in gone
    <3>1. bucket[k] # NoBucket /\ bucket[k].windowEnd <= time /\ bucket'[k] = NoBucket
      BY <1>1, <2>1 DEF R!Expired
    <3>2. bucket[k].windowEnd \in Nat BY <3>1, RateFields DEF RatesInv, RatesType
    <3>3. ~(time < sharedSpent[k].until) BY <2>0, <3>1, <3>2 DEF SharedTied
    <3> QED BY <2>0, <3>1, <3>3 DEF SharedTied
  <2>2. CASE k \notin gone BY <1>1, <2>0, <2>2 DEF SharedTied
  <2> QED BY <2>1, <2>2
<1> QED BY <1>1, <1>2

(* The operator's command.                                                 *)
LEMMA PruneExpiredBucketsStep ==
  ASSUME RatesInv, R!PruneExpiredBuckets PROVE RatesInv' /\ Spaced
<1>1. UNCHANGED <<local, cleaner, customer, time, sharedSpent, localSpent, cleaned>> BY DEF R!PruneExpiredBuckets
<1>2. PICK gone \in SUBSET Identity : R!PruneBatch(gone) /\ R!Prune(gone) BY DEF R!PruneExpiredBuckets
<1>3. \A k \in gone : R!Expired(k) BY <1>2 DEF R!PruneBatch
<1>4. /\ bucket' \in [Identity -> SharedRow \cup {NoBucket}]
      /\ \A k \in Identity : SharedTied(sharedSpent[k], bucket[k])'
  BY <1>1, <1>2, <1>3, PruneKeeps
<1>5. \A r \in Replica : Rechecks(r)' = Rechecks(r) BY <1>1 DEF Rechecks
<1>6. (\A r \in Replica : CleanerSound(r)') /\ Spaced BY <1>1, <1>5, CleanersStay
<1>7. RatesType' BY <1>1, <1>4 DEF RatesInv, RatesType, IsStore
<1> QED BY <1>1, <1>4, <1>6, <1>7 DEF RatesInv, LocalTied

(* A replica's cleaner changes; the others' are as they were.              *)
LEMMA OneCleaner ==
  ASSUME RatesInv, NEW r \in Replica, NEW q \in CleanerRow, cleaner' = [cleaner EXCEPT ![r] = q],
         \A x \in Replica \ {r} : Rechecks(x)' = Rechecks(x) /\ cleaned'[x] = cleaned[x]
  PROVE  /\ cleaner' \in [Replica -> CleanerRow] /\ cleaner'[r] = q
         /\ \A x \in Replica \ {r} : CleanerSound(x)' /\ ~(cleaner'[x].running > cleaner[x].running)
<1>1. /\ cleaner' \in [Replica -> CleanerRow] /\ cleaner'[r] = q
      /\ \A x \in Replica \ {r} : cleaner'[x] = cleaner[x]
  BY DEF RatesInv, RatesType
<1>2. ASSUME NEW x \in Replica \ {r}
      PROVE  CleanerSound(x)' /\ ~(cleaner'[x].running > cleaner[x].running)
  <2>1. CleanerSound(x) /\ cleaner[x].running \in Nat BY RateFields DEF RatesInv, RatesType
  <2> QED BY <1>1, <2>1 DEF CleanerSound
<1> QED BY <1>1, <1>2

(* The flag is taken by one request at a time.                             *)
LEMMA CleanupSwapStep ==
  ASSUME RatesInv, NEW c \in R!Customer, R!CleanupSwap(c) PROVE RatesInv' /\ Spaced
<1> DEFINE r == R!Serves(c)
           x == cleaner[r]
           q == [x EXCEPT !.cleaning = TRUE]
           p == IF x.cleaning THEN R!NoCustomer ELSE R!At("recheck")
<1>1. /\ r \in Replica /\ customer[c].at = "due" /\ x \in CleanerRow
      /\ UNCHANGED <<bucket, local, time, sharedSpent, localSpent, cleaned>>
  BY CustomerPlaces DEF R!CleanupSwap, RatesInv, RatesType
<1>2. customer' = [customer EXCEPT ![c] = p] /\ cleaner' = [cleaner EXCEPT ![r] = q]
  BY <1>1 DEF R!CleanupSwap, RatesInv, RatesType
<1>3. p \in Place /\ p.at # "take" /\ (p.at = "recheck" <=> ~x.cleaning) BY CustomerPlaces
<1>4. CleanerSound(r) BY <1>1 DEF RatesInv
<1>5. x.running \in Nat /\ x.next \in Nat BY <1>1, RateFields
<1> HIDE DEF p
<1>6. /\ customer' \in [R!Customer -> Place]
      /\ \A d \in R!Customer : customer'[d] = IF d = c THEN p ELSE customer[d]
      /\ \A d \in R!Customer : customer'[d].at = "take" => customer'[d].key \in Identity
  BY <1>2, <1>3, CustomerMoves DEF RatesInv
<1>7. \A y \in Replica \ {r} : Rechecks(y)' = Rechecks(y) BY <1>6 DEF Rechecks, R!Serves
<1>8. Rechecks(r)' = IF x.cleaning THEN Rechecks(r) ELSE Rechecks(r) \cup {c}
  BY <1>1, <1>3, <1>6 DEF Rechecks, R!Serves
<1>9. /\ x.running > 0 => x.cleaning /\ x.running = 1 /\ Rechecks(r) = {}
      /\ Rechecks(r) # {} => x.cleaning
      /\ \A d, e \in Rechecks(r) : d = e
      /\ ~cleaned[r].full => x.next = cleaned[r].at + CleanupEvery
  BY <1>4 DEF CleanerSound
<1> HIDE DEF x, r
<1>10. /\ q \in CleanerRow /\ q.cleaning = TRUE /\ q.running = x.running /\ q.next = x.next
  BY <1>1 DEF CleanerRow
<1> HIDE DEF q
<1>11. /\ cleaner' \in [Replica -> CleanerRow] /\ cleaner'[r] = q
       /\ \A y \in Replica \ {r} : CleanerSound(y)' /\ ~(cleaner'[y].running > cleaner[y].running)
  BY <1>1, <1>2, <1>7, <1>10, OneCleaner
<1>12. CleanerSound(r)'
  <2>1. CASE x.cleaning BY <1>1, <1>8, <1>9, <1>10, <1>11, <2>1 DEF CleanerSound
  <2>2. CASE ~x.cleaning
    <3>1. x.running = 0 /\ Rechecks(r)' = {c} BY <1>5, <1>8, <1>9, <2>2
    <3>2. ~(cleaner'[r].running > 0) BY <1>10, <1>11, <3>1
    <3>3. cleaner'[r].cleaning BY <1>10, <1>11
    <3>4. ~cleaned'[r].full => cleaner'[r].next = cleaned'[r].at + CleanupEvery BY <1>1, <1>9, <1>10, <1>11
    <3> QED BY <3>1, <3>2, <3>3, <3>4 DEF CleanerSound
  <2> QED BY <2>1, <2>2
<1>13. Spaced
  <2> SUFFICES ASSUME NEW y \in Replica PROVE ~(cleaner'[y].running > cleaner[y].running)
    BY DEF Spaced
  <2> QED BY <1>5, <1>10, <1>11 DEF x
<1>14. RatesType' BY <1>1, <1>6, <1>11 DEF RatesInv, RatesType, IsStore
<1>15. \A y \in Replica : CleanerSound(y)' BY <1>11, <1>12
<1> QED BY <1>1, <1>13, <1>14, <1>15 DEF RatesInv, SharedTied, LocalTied

(* The second look at the schedule, under the flag.                        *)
LEMMA CleanupRecheckStep ==
  ASSUME RatesInv, NEW c \in R!Customer, R!CleanupRecheck(c) PROVE RatesInv' /\ Spaced
<1> DEFINE r == R!Serves(c)
           x == cleaner[r]
           q == IF time < x.next THEN [x EXCEPT !.cleaning = FALSE] ELSE [x EXCEPT !.running = x.running + 1]
<1>1. /\ r \in Replica /\ customer[c].at = "recheck" /\ x \in CleanerRow
      /\ customer' = [customer EXCEPT ![c] = R!NoCustomer]
      /\ UNCHANGED <<bucket, local, time, sharedSpent, localSpent, cleaned>>
  BY CustomerPlaces DEF R!CleanupRecheck, RatesInv, RatesType
<1>2. cleaner' = [cleaner EXCEPT ![r] = q]
  <2>1. CASE time < x.next BY <1>1, <2>1 DEF R!CleanupRecheck, RatesInv, RatesType
  <2>2. CASE ~(time < x.next) BY <1>1, <2>2 DEF R!CleanupRecheck, RatesInv, RatesType
  <2> QED BY <2>1, <2>2
<1>3. CleanerSound(r) /\ c \in Rechecks(r) BY <1>1 DEF RatesInv, Rechecks
<1>4. x.running \in Nat /\ x.next \in Nat BY <1>1, RateFields
<1>5. /\ x.running = 0 /\ x.cleaning /\ Rechecks(r) = {c}
      /\ ~cleaned[r].full => x.next = cleaned[r].at + CleanupEvery
  BY <1>3, <1>4 DEF CleanerSound
<1>6. /\ customer' \in [R!Customer -> Place]
      /\ \A d \in R!Customer : customer'[d] = IF d = c THEN R!NoCustomer ELSE customer[d]
      /\ \A d \in R!Customer : customer'[d].at = "take" => customer'[d].key \in Identity
  BY <1>1, CustomerMoves, CustomerPlaces DEF RatesInv
<1>7. \A y \in Replica \ {r} : Rechecks(y)' = Rechecks(y) BY <1>6 DEF Rechecks, R!Serves
<1>8. Rechecks(r)' = {}
  <2>1. Rechecks(r)' \subseteq Rechecks(r) \ {c} BY <1>6, CustomerPlaces DEF Rechecks, R!Serves
  <2> QED BY <1>5, <2>1
<1>9. time \in Nat /\ CleanupEvery \in Nat /\ cleaned[r].at \in Nat
  BY <1>1, RateConstants, RateFields DEF RatesInv, RatesType
<1> HIDE DEF x, r
<1>10. /\ q \in CleanerRow /\ q.next = x.next
       /\ time < x.next => q.running = 0 /\ ~q.cleaning
       /\ ~(time < x.next) => q.running = 1 /\ q.cleaning
  <2>1. CASE time < x.next
    <3>1. q = [x EXCEPT !.cleaning = FALSE] BY <2>1
    <3> HIDE DEF q
    <3> QED BY <1>1, <1>5, <2>1, <3>1 DEF CleanerRow
  <2>2. CASE ~(time < x.next)
    <3>1. q = [x EXCEPT !.running = 1] BY <1>5, <2>2
    <3> HIDE DEF q
    <3> QED BY <1>1, <1>5, <2>2, <3>1 DEF CleanerRow
  <2> QED BY <2>1, <2>2
<1> HIDE DEF q
<1>11. /\ cleaner' \in [Replica -> CleanerRow] /\ cleaner'[r] = q
       /\ \A y \in Replica \ {r} : CleanerSound(y)' /\ ~(cleaner'[y].running > cleaner[y].running)
  BY <1>1, <1>2, <1>7, <1>10, OneCleaner
<1>12. CleanerSound(r)'
  BY <1>1, <1>5, <1>8, <1>10, <1>11 DEF CleanerSound
<1>13. Spaced
  <2> SUFFICES ASSUME NEW y \in Replica, cleaner'[y].running > cleaner[y].running
               PROVE  cleaner[y].running = 0 /\ (cleaned[y].full \/ time >= cleaned[y].at + CleanupEvery)
    BY DEF Spaced
  <2>1. y = r BY <1>11
  <2>2. ~(time < x.next) BY <1>5, <1>10, <1>11, <2>1 DEF x
  <2>3. cleaned[r].full \/ time >= cleaned[r].at + CleanupEvery BY <1>4, <1>5, <1>9, <2>2
  <2> QED BY <1>5, <2>1, <2>3 DEF x
<1>14. RatesType' BY <1>1, <1>6, <1>11 DEF RatesInv, RatesType, IsStore
<1>15. \A y \in Replica : CleanerSound(y)' BY <1>11, <1>12
<1> QED BY <1>1, <1>13, <1>14, <1>15 DEF RatesInv, SharedTied, LocalTied

(* A clean-up ends, with its batch or without.                             *)
LEMMA CleanupOnceStep ==
  ASSUME RatesInv, NEW r \in Replica, NEW fails \in BOOLEAN, R!CleanupOnce(r, fails)
  PROVE  RatesInv' /\ Spaced
<1>1. /\ cleaner[r].running > 0 /\ UNCHANGED <<local, customer, time, sharedSpent, localSpent>>
  BY DEF R!CleanupOnce
<1>2. PICK gone \in SUBSET Identity :
        /\ IF fails THEN gone = {} ELSE R!PruneBatch(gone)
        /\ LET full == ~fails /\ R!Cardinality(gone) >= CleanupBatch
           IN /\ cleaner' = [cleaner EXCEPT ![r] =
                   [next |-> IF full THEN time ELSE time + CleanupEvery,
                    cleaning |-> FALSE, running |-> @.running - 1]]
              /\ cleaned' = [cleaned EXCEPT ![r] = [at |-> time, full |-> full]]
        /\ R!Prune(gone)
  BY DEF R!CleanupOnce
<1> DEFINE full == ~fails /\ R!Cardinality(gone) >= CleanupBatch
           next == IF full THEN time ELSE time + CleanupEvery
           running == cleaner[r].running - 1
           q == [next |-> next, cleaning |-> FALSE, running |-> running]
           e == [at |-> time, full |-> full]
<1>3. cleaner' = [cleaner EXCEPT ![r] = q] /\ cleaned' = [cleaned EXCEPT ![r] = e]
  BY <1>2 DEF RatesInv, RatesType
<1>4. full \in BOOLEAN OBVIOUS
<1>5. \A k \in gone : R!Expired(k) BY <1>2 DEF R!PruneBatch
<1>6. /\ bucket' \in [Identity -> SharedRow \cup {NoBucket}]
      /\ \A k \in Identity : SharedTied(sharedSpent[k], bucket[k])'
  BY <1>1, <1>2, <1>5, PruneKeeps
<1> HIDE DEF full
<1>7. time \in Nat /\ CleanupEvery \in Nat /\ next \in Nat /\ (~full => next = time + CleanupEvery)
  BY RateConstants DEF RatesInv, RatesType
<1>8. cleaner[r].running = 1 /\ Rechecks(r) = {} /\ running = 0
  BY <1>1 DEF RatesInv, CleanerSound
<1> HIDE DEF next, running
<1>9. q \in CleanerRow /\ q.next = next /\ q.running = 0 BY <1>7, <1>8 DEF CleanerRow
<1>10. e \in Ended /\ e.at = time /\ e.full = full BY <1>4, <1>7 DEF Ended
<1> HIDE DEF q, e
<1>11. cleaned' \in [Replica -> Ended] /\ cleaned'[r] = e /\ (\A x \in Replica \ {r} : cleaned'[x] = cleaned[x])
  BY <1>3, <1>10 DEF RatesInv, RatesType
<1>12. \A x \in Replica : Rechecks(x)' = Rechecks(x) BY <1>1 DEF Rechecks
<1>13. /\ cleaner' \in [Replica -> CleanerRow] /\ cleaner'[r] = q
       /\ \A x \in Replica \ {r} : CleanerSound(x)' /\ ~(cleaner'[x].running > cleaner[x].running)
  BY <1>3, <1>9, <1>11, <1>12, OneCleaner
<1>14. CleanerSound(r)'
  BY <1>7, <1>8, <1>9, <1>10, <1>11, <1>12, <1>13 DEF CleanerSound
<1>15. Spaced
  <2> SUFFICES ASSUME NEW x \in Replica PROVE ~(cleaner'[x].running > cleaner[x].running)
    BY DEF Spaced
  <2> QED BY <1>8, <1>9, <1>13
<1>16. RatesType' BY <1>1, <1>6, <1>11, <1>13 DEF RatesInv, RatesType, IsStore
<1>17. \A x \in Replica : CleanerSound(x)' BY <1>13, <1>14
<1> QED BY <1>1, <1>6, <1>15, <1>16, <1>17 DEF RatesInv, LocalTied

(* No step of any component breaks the invariant.                          *)
LEMMA RatesStep ==
  ASSUME RatesInv, [Next]_vars PROVE RatesInv' /\ [Spaced]_(R!rateVars)
<1>1. CASE UNCHANGED ratesVars
  <2>1. \A r \in Replica : Rechecks(r)' = Rechecks(r) BY <1>1 DEF ratesVars, Rechecks
  <2>2. \A r \in Replica : CleanerSound(r)' BY <1>1, <2>1, CleanersStay DEF ratesVars
  <2>3. RatesType' BY <1>1 DEF ratesVars, RatesInv, RatesType, IsStore
  <2> QED BY <1>1, <2>2, <2>3 DEF ratesVars, R!rateVars, RatesInv, SharedTied, LocalTied
<1>2. CASE R!RateNext
  BY <1>2, RatesAroundStep, TakeSharedStep, TakeFailsStep, ResetStep, CleanupSwapStep, CleanupRecheckStep,
     CleanupOnceStep, PruneExpiredBucketsStep
     DEF R!RateNext
<1> QED BY <1>1, <1>2 DEF Next, vars, UsageScene, SettingsScene, AssetsScene, RatesScene, CommentsScene,
           TagsScene, KnowledgeScene, MigrationsScene, ConfigurationScene

(* Nobody is admitted beyond the quota, by as many replicas as there are,  *)
(* with answers that are lost, resets, prunes and evictions; and clean-ups *)
(* of a replica are spaced.                                                *)
THEOREM RatesAreSound == Spec => RatesSound
<1>1. RatesInv => R!QuotaKept BY DEF RatesInv, R!QuotaKept, SharedTied, LocalTied
<1> QED BY <1>1, RatesStart, RatesStep, PTL DEF Spec, RatesSound, R!CleanupSpaced, Spaced

(***************************************************************************)
(* Sets of natural numbers.                                                *)
(***************************************************************************)

(* A set of natural numbers has a least one, and a greatest one if none is *)
(* beyond a bound.                                                         *)
LEMMA LeastExists ==
  ASSUME NEW set \in SUBSET Nat, set # {} PROVE \E x \in set : \A y \in set : x <= y
<1> DEFINE initial == {0 .. x : x \in set}
<1>1. initial \subseteq FiniteSubsetsOf(Nat)
  <2>1. \A x \in set : 0 .. x \subseteq Nat /\ IsFiniteSet(0 .. x) BY FS_Interval
  <2> QED BY <2>1 DEF FiniteSubsetsOf
<1>2. initial # {} OBVIOUS
<1>3. PICK least \in initial : \A other \in initial : <<other, least>> \notin StrictSubsetOrdering(Nat)
  BY <1>1, <1>2, WFMin, FS_StrictSubsetOrderingWellFounded
<1>4. PICK x \in set : least = 0 .. x OBVIOUS
<1>5. ASSUME NEW y \in set, y < x PROVE FALSE
  <2>1. 0 .. y \in SUBSET Nat /\ 0 .. x \in SUBSET Nat /\ 0 .. y \subseteq 0 .. x BY <1>5
  <2>2. x \in 0 .. x /\ x \notin 0 .. y BY <1>5
  <2>3. <<0 .. y, 0 .. x>> \in StrictSubsetOrdering(Nat) BY <2>1, <2>2 DEF StrictSubsetOrdering
  <2> QED BY <1>3, <1>4, <2>3
<1> QED BY <1>5

(* A bounded one has a greatest.                                           *)
LEMMA GreatestExists ==
  ASSUME NEW n \in Nat, NEW set \in SUBSET (1 .. n), set # {} PROVE \E x \in set : \A y \in set : y <= x
<1> DEFINE mirror == {k \in Nat : n - k \in set}
<1>1. PICK s \in set : TRUE OBVIOUS
<1>2. s \in Int /\ n - s \in Nat /\ n - (n - s) = s OBVIOUS
<1>3. n - s \in mirror BY <1>2
<1>4. PICK k \in mirror : \A y \in mirror : k <= y BY <1>3, LeastExists
<1>5. \A y \in set : y <= n - k
  <2> SUFFICES ASSUME NEW y \in set PROVE y <= n - k
    OBVIOUS
  <2>1. y \in Int /\ n - y \in Nat /\ n - (n - y) = y OBVIOUS
  <2>2. n - y \in mirror BY <2>1
  <2>3. k <= n - y BY <1>4, <2>2
  <2> QED BY <1>4, <2>1, <2>3
<1> QED BY <1>4, <1>5

(***************************************************************************)
(* Comments.                                                               *)
(***************************************************************************)

CommentRow ==
  [status : {"none", "live", "deleted"}, resource : Resource \cup {NoComment},
   parent : CommentId \cup {NoComment}, author : Author \cup {Nobody}, body : BOOLEAN,
   mentions : SUBSET Mentionable, version : Nat]
Request ==
  [step : {"idle", "create", "update", "delete", "publish"}, id : CommentId \cup {NoComment},
   resource : Resource \cup {NoComment}, parent : CommentId \cup {NoComment},
   mentions : SUBSET Mentionable, version : Nat, before : SUBSET Mentionable]

CommentsType ==
  /\ comment \in [CommentId -> CommentRow]
  /\ posting \in [Author -> Request]

(* Identities are given in order.                                          *)
StoredInOrder == \A c \in D!Stored : \A d \in CommentId : d < c => d \in D!Stored

(* A request under way is about a comment of its author, which is as the   *)
(* request has read it while the version is the same.                      *)
PostingSound(a) ==
  LET q == posting[a] IN
  /\ q.step \in {"idle", "create"} => q.id = NoComment
  /\ q.step \in {"update", "delete", "publish"} => q.id \in D!Stored
  /\ q.step \in {"update", "publish"} => comment[q.id].author = a
  /\ q.step = "update" =>
       /\ q.version <= comment[q.id].version
       /\ q.version = comment[q.id].version => q.before = comment[q.id].mentions

(* Whoever is mentioned was told, or is about to be.                       *)
Informed(c) ==
  D!IsLive(c) /\ comment[c].author # Nobody =>
    \A m \in comment[c].mentions \ {comment[c].author} :
      \/ <<c, m>> \in told
      \/ \E a \in Author : posting[a].step = "publish" /\ posting[a].id = c /\ m \in posting[a].mentions

CommentsInv ==
  /\ CommentsType /\ StoredInOrder /\ (\A a \in Author : PostingSound(a))
  /\ D!ThreadsSound /\ (\A c \in CommentId : Informed(c))

(* What RepliesOnLiveRoots says of a step.                                 *)
LandsOnRoots == \A c \in CommentId :
  (comment[c].status = "none" /\ comment'[c].status = "live" /\ comment'[c].parent # NoComment)
    => D!IsLive(comment'[c].parent) /\ D!IsRoot(comment'[c].parent)

(* The invariant says what was promised.                                   *)
LEMMA CommentsFollow == CommentsInv => D!CommentsSound
<1> SUFFICES ASSUME CommentsInv, NEW c \in D!Stored, D!IsLive(c), \A a \in Author : posting[a].id # c,
                    NEW m \in comment[c].mentions \ {comment[c].author}
             PROVE  <<c, m>> \in told \/ comment[c].author = Nobody
  BY DEF D!CommentsSound, D!MentionsTold, CommentsInv
<1>1. c \in CommentId BY DEF D!Stored
<1>2. Informed(c) BY <1>1 DEF CommentsInv
<1> QED BY <1>2 DEF Informed

(* Fields.                                                                 *)
LEMMA CommentFields ==
  /\ \A x \in CommentRow :
       /\ x.status \in {"none", "live", "deleted"} /\ x.resource \in Resource \cup {NoComment}
       /\ x.parent \in CommentId \cup {NoComment} /\ x.author \in Author \cup {Nobody}
       /\ x.body \in BOOLEAN /\ x.mentions \in SUBSET Mentionable /\ x.version \in Nat
  /\ \A q \in Request :
       /\ q.step \in {"idle", "create", "update", "delete", "publish"} /\ q.id \in CommentId \cup {NoComment}
       /\ q.resource \in Resource \cup {NoComment} /\ q.parent \in CommentId \cup {NoComment}
       /\ q.mentions \in SUBSET Mentionable /\ q.version \in Nat /\ q.before \in SUBSET Mentionable
BY DEF CommentRow, Request

(* An author without a request.                                            *)
LEMMA RestingFields ==
  D!Resting \in Request /\ D!Resting.step = "idle" /\ D!Resting.id = NoComment
BY DEF D!Resting, Request

(* There is no comment at first.                                           *)
LEMMA CommentsStart == Init => CommentsInv
<1> SUFFICES ASSUME D!CommentsInit PROVE CommentsInv
  BY DEF Init
<1>1. D!NoRow \in CommentRow /\ D!NoRow.status = "none" BY DEF D!NoRow, CommentRow
<1>2. CommentsType BY <1>1, RestingFields DEF CommentsType, D!CommentsInit
<1>3. \A c \in CommentId : comment[c].status = "none" BY <1>1 DEF D!CommentsInit
<1>4. D!Stored = {} BY <1>3 DEF D!Stored
<1>5. \A a \in Author : PostingSound(a) BY RestingFields DEF PostingSound, D!CommentsInit
<1>6. \A c \in CommentId : Informed(c) BY <1>3 DEF Informed, D!IsLive
<1> QED BY <1>2, <1>4, <1>5, <1>6 DEF CommentsInv, StoredInOrder, D!ThreadsSound

(* A request begins, goes on or ends, and no comment changes.              *)
LEMMA PostingMoves ==
  ASSUME CommentsInv, NEW a \in Author, NEW q \in Request, posting' = [posting EXCEPT ![a] = q],
         UNCHANGED comment, told \subseteq told',
         q.step \in {"idle", "create"} => q.id = NoComment,
         q.step \in {"update", "delete", "publish"} => q.id \in D!Stored,
         q.step \in {"update", "publish"} => comment[q.id].author = a,
         q.step = "update" =>
           /\ q.version <= comment[q.id].version
           /\ q.version = comment[q.id].version => q.before = comment[q.id].mentions,
         posting[a].step = "publish" =>
           \A m \in posting[a].mentions \ {a} : <<posting[a].id, m>> \in told'
  PROVE  CommentsInv' /\ LandsOnRoots
<1>0. CommentsType /\ StoredInOrder /\ D!ThreadsSound BY DEF CommentsInv
<1>1. \A b \in Author : posting'[b] = IF b = a THEN q ELSE posting[b] BY <1>0 DEF CommentsType
<1>2. CommentsType' BY <1>0 DEF CommentsType
<1>3. \A b \in Author : PostingSound(b)'
  <2> SUFFICES ASSUME NEW b \in Author PROVE PostingSound(b)'
    OBVIOUS
  <2>1. CASE b = a
    <3>1. posting'[b] = q BY <1>1, <2>1
    <3> QED BY <2>1, <3>1 DEF PostingSound, D!Stored
  <2>2. CASE b # a
    <3>1. posting'[b] = posting[b] BY <1>1, <2>2
    <3> QED BY <3>1 DEF CommentsInv, PostingSound, D!Stored
  <2> QED BY <2>1, <2>2
<1>4. D!ThreadsSound' /\ StoredInOrder'
  BY <1>0 DEF D!ThreadsSound, StoredInOrder, D!Stored, D!IsDeleted, D!IsRoot
<1>5. ASSUME NEW c \in CommentId PROVE Informed(c)'
  <2> SUFFICES ASSUME D!IsLive(c), comment[c].author # Nobody,
                      NEW m \in comment[c].mentions \ {comment[c].author}
               PROVE  \/ <<c, m>> \in told'
                      \/ \E b \in Author : posting'[b].step = "publish" /\ posting'[b].id = c
                                           /\ m \in posting'[b].mentions
    BY DEF Informed, D!IsLive
  <2>1. CASE <<c, m>> \in told BY <2>1
  <2>2. CASE <<c, m>> \notin told
    <3>1. PICK b \in Author : posting[b].step = "publish" /\ posting[b].id = c /\ m \in posting[b].mentions
      BY <2>2 DEF CommentsInv, Informed
    <3>2. CASE b = a
      <4>1. comment[c].author = a BY <3>1, <3>2 DEF CommentsInv, PostingSound
      <4> QED BY <3>1, <3>2, <4>1
    <3>3. CASE b # a BY <1>1, <3>1, <3>3
    <3> QED BY <3>2, <3>3
  <2> QED BY <2>1, <2>2
<1>6. LandsOnRoots BY DEF LandsOnRoots
<1> QED BY <1>2, <1>3, <1>4, <1>5, <1>6 DEF CommentsInv

(* A comment is edited or erased: the requests that have read it are late. *)
LEMMA CommentChanges ==
  ASSUME CommentsInv, NEW a \in Author, NEW c \in D!Stored, NEW row \in CommentRow, NEW q \in Request,
         comment' = [comment EXCEPT ![c] = row], posting' = [posting EXCEPT ![a] = q], UNCHANGED told,
         row.status \in {"live", "deleted"}, D!IsLive(c),
         row.parent = comment[c].parent, row.resource = comment[c].resource,
         row.author = comment[c].author, row.version = comment[c].version + 1,
         row.status = "deleted" => ~row.body /\ row.mentions = {},
         posting[a].step # "publish",
         \/ q.step = "idle" /\ q.id = NoComment
         \/ q.step = "publish" /\ q.id = c /\ comment[c].author = a,
         row.status = "live" => \A m \in row.mentions :
           m \in comment[c].mentions \/ (q.step = "publish" /\ q.id = c /\ m \in q.mentions)
  PROVE  CommentsInv' /\ LandsOnRoots
<1>0. CommentsType /\ StoredInOrder /\ D!ThreadsSound BY DEF CommentsInv
<1>1. c \in CommentId /\ comment[c].version \in Nat BY <1>0, CommentFields DEF CommentsType, D!Stored
<1>2. /\ \A d \in CommentId : comment'[d] = IF d = c THEN row ELSE comment[d]
      /\ \A b \in Author : posting'[b] = IF b = a THEN q ELSE posting[b]
  BY <1>0, <1>1 DEF CommentsType
<1>3. CommentsType' BY <1>0, <1>1 DEF CommentsType
<1>4. D!Stored' = D!Stored BY <1>1, <1>2 DEF D!Stored
<1>5. StoredInOrder' BY <1>0, <1>4 DEF StoredInOrder
<1>6. D!Stored \subseteq CommentId BY DEF D!Stored
<1>7. \A d \in CommentId : /\ comment'[d].parent = comment[d].parent /\ comment'[d].resource = comment[d].resource
                          /\ comment'[d].author = comment[d].author
  BY <1>2
<1>8. \A b \in Author : PostingSound(b)'
  <2> SUFFICES ASSUME NEW b \in Author PROVE PostingSound(b)'
    OBVIOUS
  <2>1. CASE b = a
    <3>1. posting'[b] = q BY <1>2, <2>1
    <3> QED BY <1>1, <1>4, <1>7, <2>1, <3>1 DEF PostingSound
  <2>2. CASE b # a
    <3>1. posting'[b] = posting[b] /\ PostingSound(b) BY <1>2, <2>2 DEF CommentsInv
    <3>2. posting[b].id \in D!Stored => comment'[posting[b].id].author = comment[posting[b].id].author
      BY <1>6, <1>7
    <3>3. posting[b].step = "update" =>
            /\ posting[b].version <= comment'[posting[b].id].version
            /\ posting[b].version = comment'[posting[b].id].version =>
                 posting[b].before = comment'[posting[b].id].mentions
      <4> SUFFICES ASSUME posting[b].step = "update"
                   PROVE  /\ posting[b].version <= comment'[posting[b].id].version
                          /\ posting[b].version = comment'[posting[b].id].version =>
                               posting[b].before = comment'[posting[b].id].mentions
        OBVIOUS
      <4>1. posting[b].id \in CommentId /\ posting[b].version \in Nat
        BY <1>0, <1>6, <3>1, CommentFields DEF PostingSound, CommentsType
      <4>2. posting[b].version <= comment[posting[b].id].version
        BY <3>1 DEF PostingSound
      <4>3. CASE posting[b].id = c
        <5>1. comment'[posting[b].id].version = comment[posting[b].id].version + 1 BY <1>1, <1>2, <4>3
        <5> QED BY <1>1, <4>1, <4>2, <4>3, <5>1
      <4>4. CASE posting[b].id # c BY <1>2, <3>1, <4>1, <4>4 DEF PostingSound
      <4> QED BY <4>3, <4>4
    <3> QED BY <1>4, <3>1, <3>2, <3>3 DEF PostingSound
  <2> QED BY <2>1, <2>2
<1>9. D!ThreadsSound'
  <2> SUFFICES ASSUME NEW d \in D!Stored
               PROVE  (/\ D!IsDeleted(d) => ~comment[d].body /\ comment[d].mentions = {}
                       /\ ~D!IsRoot(d) => /\ comment[d].parent \in D!Stored /\ comment[d].parent < d
                                          /\ D!IsRoot(comment[d].parent)
                                          /\ comment[comment[d].parent].resource = comment[d].resource)'
    BY <1>4 DEF D!ThreadsSound
  <2>1. D!IsDeleted(d)' => ~comment'[d].body /\ comment'[d].mentions = {}
    BY <1>0, <1>2, <1>6 DEF D!ThreadsSound, D!IsDeleted
  <2>2. ~D!IsRoot(d) => /\ comment[d].parent \in D!Stored /\ comment[d].parent < d
                        /\ D!IsRoot(comment[d].parent)
                        /\ comment[comment[d].parent].resource = comment[d].resource
    BY <1>0 DEF D!ThreadsSound
  <2> QED BY <1>4, <1>6, <1>7, <2>1, <2>2 DEF D!IsRoot
<1>10. ASSUME NEW d \in CommentId PROVE Informed(d)'
  <2> SUFFICES ASSUME comment'[d].status = "live", comment'[d].author # Nobody,
                      NEW m \in comment'[d].mentions \ {comment'[d].author}
               PROVE  \/ <<d, m>> \in told
                      \/ \E b \in Author : posting'[b].step = "publish" /\ posting'[b].id = d
                                           /\ m \in posting'[b].mentions
    BY DEF Informed, D!IsLive
  <2>1. comment[d].status = "live" /\ comment[d].author = comment'[d].author
    BY <1>2, <1>7 DEF D!IsLive
  <2>2. CASE m \in comment[d].mentions
    <3>1. \/ <<d, m>> \in told
          \/ \E b \in Author : posting[b].step = "publish" /\ posting[b].id = d /\ m \in posting[b].mentions
      BY <2>1, <2>2 DEF CommentsInv, Informed, D!IsLive
    <3>2. \A b \in Author : posting[b].step = "publish" => posting'[b] = posting[b] BY <1>2
    <3> QED BY <3>1, <3>2
  <2>3. CASE m \notin comment[d].mentions
    <3>1. d = c /\ comment'[d] = row BY <1>2, <2>3
    <3> QED BY <1>2, <2>3, <3>1
  <2> QED BY <2>2, <2>3
<1>11. LandsOnRoots
  <2>1. \A d \in CommentId : comment[d].status = "none" => comment'[d].status = "none"
    BY <1>2 DEF D!IsLive
  <2> QED BY <2>1 DEF LandsOnRoots
<1> QED BY <1>3, <1>5, <1>8, <1>9, <1>10, <1>11 DEF CommentsInv

(* A request is checked.                                                   *)
LEMMA CreateChecksStep ==
  ASSUME CommentsInv, NEW a \in Author, NEW r \in Resource, NEW parent \in D!Stored \cup {NoComment},
         NEW mentions \in SUBSET Mentionable, D!CreateChecks(a, r, parent, mentions)
  PROVE  CommentsInv' /\ LandsOnRoots
<1> DEFINE root == IF parent = NoComment THEN NoComment ELSE D!ThreadRoot(parent)
           q == [D!Resting EXCEPT !.step = "create", !.resource = r, !.mentions = mentions, !.parent = root]
<1>0. CommentsType BY DEF CommentsInv
<1>1. /\ posting[a].step = "idle" /\ posting' = [posting EXCEPT ![a] = q] /\ UNCHANGED <<comment, told>>
  BY DEF D!CreateChecks, D!Begins, D!Free, D!Post
<1>2. root \in CommentId \cup {NoComment}
  BY <1>0, CommentFields DEF D!ThreadRoot, D!Stored, CommentsType
<1> HIDE DEF root
<1>3. q \in Request BY <1>2, RestingFields DEF Request
<1>4. q.step = "create" BY RestingFields DEF Request
<1>5. q.id = NoComment BY RestingFields DEF Request
<1> HIDE DEF q
<1> QED BY <1>1, <1>3, <1>4, <1>5, PostingMoves

(* An update that finds the version it has seen tells the new mentions.    *)
LEMMA UpdateChecksStep ==
  ASSUME CommentsInv, NEW a \in Author, NEW c \in D!Stored, NEW mentions \in SUBSET Mentionable,
         NEW version, D!UpdateChecks(a, c, mentions, version)
  PROVE  CommentsInv' /\ LandsOnRoots
<1> DEFINE before == comment[c].mentions
           q == [D!Resting EXCEPT !.step = "update", !.id = c, !.mentions = mentions, !.version = version,
                                  !.before = before]
<1>0. CommentsType /\ c \in CommentId BY DEF CommentsInv, D!Stored
<1>1. /\ posting[a].step = "idle" /\ posting' = [posting EXCEPT ![a] = q] /\ UNCHANGED <<comment, told>>
      /\ comment[c].author = a /\ version \in 1 .. comment[c].version
  BY DEF D!UpdateChecks, D!Begins, D!Free, D!Post
<1>2. before \in SUBSET Mentionable /\ version \in Nat /\ version <= comment[c].version
  BY <1>0, <1>1, CommentFields DEF CommentsType
<1> HIDE DEF before
<1>3. q \in Request BY <1>0, <1>2, RestingFields DEF Request
<1>4. q.step = "update" BY RestingFields DEF Request
<1>5. q.id = c BY RestingFields DEF Request
<1>6. q.version = version BY RestingFields DEF Request
<1>7. q.before = before BY RestingFields DEF Request
<1> HIDE DEF q
<1> QED BY <1>1, <1>2, <1>3, <1>4, <1>5, <1>6, <1>7, PostingMoves DEF before

(* A deletion is checked, and stored.                                      *)
LEMMA DeleteChecksStep ==
  ASSUME CommentsInv, NEW a \in Author, NEW c \in D!Stored, D!DeleteChecks(a, c)
  PROVE  CommentsInv' /\ LandsOnRoots
<1> DEFINE q == [D!Resting EXCEPT !.step = "delete", !.id = c]
<1>1. /\ posting[a].step = "idle" /\ posting' = [posting EXCEPT ![a] = q] /\ UNCHANGED <<comment, told>>
  BY DEF D!DeleteChecks, D!Begins, D!Free, D!Post
<1>2. q \in Request BY RestingFields DEF Request, D!Stored
<1>3. q.step = "delete" BY RestingFields DEF Request
<1>4. q.id = c BY RestingFields DEF Request
<1> HIDE DEF q
<1> QED BY <1>1, <1>2, <1>3, <1>4, PostingMoves

(* A request ends without a change, after what it had to publish.          *)
LEMMA PostingEnds ==
  ASSUME CommentsInv, NEW a \in Author, posting' = [posting EXCEPT ![a] = D!Resting], UNCHANGED comment,
         told \subseteq told',
         posting[a].step = "publish" =>
           \A m \in posting[a].mentions \ {a} : <<posting[a].id, m>> \in told'
  PROVE  CommentsInv' /\ LandsOnRoots
BY RestingFields, PostingMoves

(* Mentions are told once the comment is stored.                           *)
LEMMA PublishMentionsStep ==
  ASSUME CommentsInv, NEW a \in Author, D!PublishMentions(a) PROVE CommentsInv' /\ LandsOnRoots
<1>1. /\ told' = told \cup {<<posting[a].id, m>> : m \in posting[a].mentions \ {a}}
      /\ posting' = [posting EXCEPT ![a] = D!Resting] /\ UNCHANGED comment
  BY DEF D!PublishMentions, D!Post
<1>2. told \subseteq told' /\ \A m \in posting[a].mentions \ {a} : <<posting[a].id, m>> \in told' BY <1>1
<1> QED BY <1>1, <1>2, PostingEnds

(* The writes.                                                             *)
LEMMA UpdateStoresStep ==
  ASSUME CommentsInv, NEW a \in Author, D!UpdateStores(a) PROVE CommentsInv' /\ LandsOnRoots
<1> DEFINE p == posting[a]
           c == posting[a].id
<1>0. CommentsType /\ PostingSound(a) /\ p \in Request BY DEF CommentsInv, CommentsType
<1>1. p.step = "update" /\ UNCHANGED told BY DEF D!UpdateStores
<1>2. c \in D!Stored /\ c \in CommentId /\ comment[c].author = a
      /\ (p.version = comment[c].version => p.before = comment[c].mentions)
      /\ p.mentions \in SUBSET Mentionable /\ p.before \in SUBSET Mentionable
  BY <1>0, <1>1, CommentFields DEF PostingSound, D!Stored
<1>3. CASE ~D!UpdateMatches(c, p.version)
  <2>1. posting' = [posting EXCEPT ![a] = D!Resting] /\ UNCHANGED comment
    BY <1>3 DEF D!UpdateStores, D!Post
  <2> QED BY <1>1, <2>1, PostingEnds
<1>4. CASE D!UpdateMatches(c, p.version)
  <2> DEFINE x == comment[c]
             row == [status |-> x.status, resource |-> x.resource, parent |-> x.parent, author |-> x.author,
                     body |-> TRUE, mentions |-> p.mentions, version |-> x.version + 1]
             added == p.mentions \ p.before
             q == [D!Resting EXCEPT !.step = "publish", !.id = c, !.mentions = added]
  <2>1. /\ comment' = [comment EXCEPT ![c].mentions = p.mentions, ![c].body = TRUE, ![c].version = @ + 1]
        /\ posting' = [posting EXCEPT ![a] = q]
    BY <1>4 DEF D!UpdateStores, D!Post
  <2>2. p.version = x.version /\ x.status = "live" BY <1>4 DEF D!UpdateMatches, D!IsLive
  <2>3. x \in CommentRow BY <1>0, <1>2 DEF CommentsType
  <2>4. added \in SUBSET Mentionable BY <1>2
  <2> HIDE DEF added
  <2>5. q \in Request BY <1>2, <2>4, RestingFields DEF Request
  <2>6. q.step = "publish" BY RestingFields DEF Request
  <2>7. q.id = c BY RestingFields DEF Request
  <2>8. q.mentions = added BY RestingFields DEF Request
  <2>9. comment' = [comment EXCEPT ![c] = row]
    <3>1. comment \in [CommentId -> CommentRow] BY <1>0 DEF CommentsType
    <3> DEFINE z == [x EXCEPT !.mentions = p.mentions, !.body = TRUE, !.version = x.version + 1]
    <3>2. comment' = [comment EXCEPT ![c] = z] BY <1>2, <2>1, <3>1
    <3>3. z \in CommentRow
      <4>1. x \in CommentRow /\ p.mentions \in SUBSET Mentionable /\ x.version + 1 \in Nat
        BY <1>2, <2>3, CommentFields
      <4> HIDE DEF x, p
      <4> QED BY <4>1 DEF CommentRow
    <3>4. z.status = x.status /\ z.resource = x.resource /\ z.parent = x.parent /\ z.author = x.author
      BY <2>3 DEF CommentRow
    <3>5. z.body = TRUE /\ z.mentions = p.mentions /\ z.version = x.version + 1 BY <2>3 DEF CommentRow
    <3> HIDE DEF z
    <3>6. z = [status |-> z.status, resource |-> z.resource, parent |-> z.parent, author |-> z.author,
               body |-> z.body, mentions |-> z.mentions, version |-> z.version]
      BY <3>3 DEF CommentRow
    <3>7. z = row BY <3>4, <3>5, <3>6
    <3> QED BY <3>2, <3>7
  <2>10. row \in CommentRow BY <1>2, <2>3, CommentFields DEF CommentRow
  <2>11. /\ row.status = "live" /\ row.parent = x.parent /\ row.resource = x.resource
         /\ row.author = x.author /\ row.version = x.version + 1 /\ row.mentions = p.mentions
    BY <2>2
  <2>12. \A m \in p.mentions : m \in comment[c].mentions \/ m \in added BY <1>2, <2>2 DEF added
  <2> HIDE DEF row, q
  <2> QED BY <1>1, <1>2, <2>1, <2>2, <2>5, <2>6, <2>7, <2>8, <2>9, <2>10, <2>11, <2>12, CommentChanges
          DEF D!IsLive
<1> QED BY <1>3, <1>4

(* What is deleted mentions nobody any more.                               *)
LEMMA DeleteStoresStep ==
  ASSUME CommentsInv, NEW a \in Author, D!DeleteStores(a) PROVE CommentsInv' /\ LandsOnRoots
<1> DEFINE c == posting[a].id
<1>0. CommentsType /\ PostingSound(a) BY DEF CommentsInv
<1>1. posting[a].step = "delete" /\ posting' = [posting EXCEPT ![a] = D!Resting] /\ UNCHANGED told
  BY DEF D!DeleteStores, D!Post
<1>2. c \in D!Stored /\ c \in CommentId BY <1>0, <1>1 DEF PostingSound, D!Stored
<1>3. CASE ~D!IsLive(c)
  <2>1. UNCHANGED comment BY <1>3 DEF D!DeleteStores
  <2> QED BY <1>1, <2>1, PostingEnds
<1>4. CASE D!IsLive(c)
  <2> DEFINE x == comment[c]
             z == [x EXCEPT !.status = "deleted", !.body = FALSE, !.mentions = {}, !.version = x.version + 1]
  <2>1. comment' = [comment EXCEPT ![c].status = "deleted", ![c].body = FALSE, ![c].mentions = {},
                                   ![c].version = @ + 1]
    BY <1>4 DEF D!DeleteStores
  <2>2. x \in CommentRow /\ comment \in [CommentId -> CommentRow] BY <1>0, <1>2 DEF CommentsType
  <2>3. comment' = [comment EXCEPT ![c] = z] BY <1>2, <2>1, <2>2
  <2>4. z \in CommentRow
    <3>1. x \in CommentRow /\ x.version + 1 \in Nat BY <2>2, CommentFields
    <3> HIDE DEF x
    <3> QED BY <3>1 DEF CommentRow
  <2>5. z.resource = x.resource /\ z.parent = x.parent /\ z.author = x.author BY <2>2 DEF CommentRow
  <2>6. z.status = "deleted" /\ z.body = FALSE /\ z.mentions = {} /\ z.version = x.version + 1
    BY <2>2 DEF CommentRow
  <2> HIDE DEF z
  <2> QED BY <1>1, <1>2, <1>4, <2>3, <2>4, <2>5, <2>6, RestingFields, CommentChanges
<1> QED BY <1>3, <1>4

(* A comment gets the next identity and lands under its parent.            *)
LEMMA CreateStoresStep ==
  ASSUME CommentsInv, NEW a \in Author, D!CreateStores(a) PROVE CommentsInv' /\ LandsOnRoots
<1> DEFINE p == posting[a]
           free == CommentId \ D!Stored
           new == CHOOSE c \in free : \A d \in free : c <= d
<1>0. /\ CommentsType /\ StoredInOrder /\ D!ThreadsSound /\ PostingSound(a) /\ p \in Request
      /\ p.step = "create" /\ UNCHANGED told
  BY DEF CommentsInv, CommentsType, D!CreateStores
<1>1. CASE p.parent # NoComment /\ ~D!RootStands(p.parent, p.resource)
  <2>1. posting' = [posting EXCEPT ![a] = D!Resting] /\ UNCHANGED comment
    BY <1>1 DEF D!CreateStores, D!Post
  <2> QED BY <1>0, <2>1, PostingEnds
<1>2. CASE ~(p.parent # NoComment /\ ~D!RootStands(p.parent, p.resource))
  <2> DEFINE row == [status |-> "live", resource |-> p.resource, parent |-> p.parent, author |-> a,
                     body |-> TRUE, mentions |-> p.mentions, version |-> 1]
             q == [D!Resting EXCEPT !.step = "publish", !.id = new, !.mentions = p.mentions]
  <2>1. /\ D!Stored # CommentId /\ comment' = [comment EXCEPT ![new] = row]
        /\ posting' = [posting EXCEPT ![a] = q]
    BY <1>2 DEF D!CreateStores, D!Post, D!NextId
  <2>2. D!Stored \subseteq CommentId /\ CommentId \subseteq Nat /\ NoComment \notin CommentId
    BY ServicesAssumption DEF D!Stored, D!CommentsAssumption
  <2>3. free # {} /\ free \in SUBSET Nat BY <2>1, <2>2
  <2>4. \E c \in free : \A d \in free : c <= d BY <2>3, LeastExists
  <2>5. new \in free /\ \A d \in free : new <= d BY <2>4
  <2> HIDE DEF free, new
  <2>6. new \in CommentId /\ new \notin D!Stored /\ comment[new].status = "none" BY <2>5 DEF free, D!Stored
  <2>7. \A d \in CommentId : d < new => d \in D!Stored BY <2>2, <2>5 DEF free
  <2>8. \A d \in D!Stored : d < new
    <3> SUFFICES ASSUME NEW d \in D!Stored, ~(d < new) PROVE FALSE
      OBVIOUS
    <3>1. new < d BY <2>2, <2>6
    <3> QED BY <1>0, <2>6, <3>1 DEF StoredInOrder
  <2>9. /\ p.mentions \in SUBSET Mentionable /\ p.resource \in Resource \cup {NoComment}
        /\ p.parent \in CommentId \cup {NoComment}
    BY <1>0, CommentFields
  <2>10. row \in CommentRow BY <2>9 DEF CommentRow
  <2>11. q \in Request BY <2>6, <2>9, RestingFields DEF Request
  <2>12. q.step = "publish" BY RestingFields DEF Request
  <2>13. q.id = new BY RestingFields DEF Request
  <2>14. q.mentions = p.mentions BY RestingFields DEF Request
  <2>15. row.status = "live" /\ row.resource = p.resource /\ row.parent = p.parent /\ row.author = a
         /\ row.mentions = p.mentions
    OBVIOUS
  <2> HIDE DEF row, q, p
  <2>16. /\ \A d \in CommentId : comment'[d] = IF d = new THEN row ELSE comment[d]
         /\ \A b \in Author : posting'[b] = IF b = a THEN q ELSE posting[b]
    BY <1>0, <2>1, <2>6 DEF CommentsType
  <2>17. CommentsType' BY <1>0, <2>1, <2>10, <2>11 DEF CommentsType
  <2>18. D!Stored' = D!Stored \cup {new} BY <2>6, <2>15, <2>16 DEF D!Stored
  <2>19. StoredInOrder' BY <1>0, <2>7, <2>18 DEF StoredInOrder
  <2>20. \A b \in Author : PostingSound(b)'
    <3> SUFFICES ASSUME NEW b \in Author PROVE PostingSound(b)'
      OBVIOUS
    <3>1. CASE b = a
      <4>1. posting'[b] = q /\ comment'[new] = row BY <2>6, <2>16, <3>1
      <4> QED BY <2>12, <2>13, <2>15, <2>18, <3>1, <4>1 DEF PostingSound
    <3>2. CASE b # a
      <4>1. posting'[b] = posting[b] /\ PostingSound(b) BY <2>16, <3>2 DEF CommentsInv
      <4>2. \A d \in D!Stored : comment'[d] = comment[d] BY <2>2, <2>6, <2>16
      <4> QED BY <2>18, <4>1, <4>2 DEF PostingSound
    <3> QED BY <3>1, <3>2
  <2>21. p.parent # NoComment => /\ p.parent \in D!Stored /\ p.parent < new /\ D!IsLive(p.parent)
                                 /\ D!IsRoot(p.parent) /\ comment[p.parent].resource = p.resource
    <3> SUFFICES ASSUME p.parent # NoComment
                 PROVE  /\ p.parent \in D!Stored /\ p.parent < new /\ D!IsLive(p.parent)
                        /\ D!IsRoot(p.parent) /\ comment[p.parent].resource = p.resource
      OBVIOUS
    <3>1. D!IsLive(p.parent) /\ D!IsRoot(p.parent) /\ comment[p.parent].resource = p.resource
      BY <1>2 DEF D!RootStands
    <3>2. p.parent \in D!Stored BY <2>9, <3>1 DEF D!Stored, D!IsLive
    <3> QED BY <2>8, <3>1, <3>2
  <2>22. D!ThreadsSound'
    <3> SUFFICES ASSUME NEW d \in D!Stored'
                 PROVE  (/\ D!IsDeleted(d) => ~comment[d].body /\ comment[d].mentions = {}
                         /\ ~D!IsRoot(d) => /\ comment[d].parent \in D!Stored /\ comment[d].parent < d
                                            /\ D!IsRoot(comment[d].parent)
                                            /\ comment[comment[d].parent].resource = comment[d].resource)'
      BY DEF D!ThreadsSound
    <3>1. \A e \in D!Stored : comment'[e] = comment[e] BY <2>2, <2>6, <2>16
    <3>2. CASE d = new
      <4>1. comment'[d] = row BY <2>6, <2>16, <3>2
      <4> QED BY <2>15, <2>18, <2>21, <3>1, <3>2, <4>1 DEF D!IsDeleted, D!IsRoot
    <3>3. CASE d # new
      <4>1. d \in D!Stored /\ comment'[d] = comment[d] BY <2>18, <3>1, <3>3
      <4>2. /\ comment[d].status = "deleted" => ~comment[d].body /\ comment[d].mentions = {}
            /\ comment[d].parent # NoComment =>
                 /\ comment[d].parent \in D!Stored /\ comment[d].parent < d
                 /\ comment[comment[d].parent].parent = NoComment
                 /\ comment[comment[d].parent].resource = comment[d].resource
        BY <1>0, <4>1 DEF D!ThreadsSound, D!IsDeleted, D!IsRoot
      <4>3. comment[d].parent \in D!Stored => comment'[comment[d].parent] = comment[comment[d].parent]
        BY <3>1
      <4> QED BY <2>18, <4>1, <4>2, <4>3 DEF D!IsDeleted, D!IsRoot
    <3> QED BY <3>2, <3>3
  <2>23. ASSUME NEW d \in CommentId PROVE Informed(d)'
    <3> SUFFICES ASSUME comment'[d].status = "live", comment'[d].author # Nobody,
                        NEW m \in comment'[d].mentions \ {comment'[d].author}
                 PROVE  \/ <<d, m>> \in told
                        \/ \E b \in Author : posting'[b].step = "publish" /\ posting'[b].id = d
                                             /\ m \in posting'[b].mentions
      BY <1>0 DEF Informed, D!IsLive
    <3>1. CASE d = new
      <4>1. m \in q.mentions BY <2>14, <2>15, <2>16, <3>1
      <4> QED BY <2>12, <2>13, <2>16, <3>1, <4>1
    <3>2. CASE d # new
      <4>1. comment'[d] = comment[d] BY <2>16, <3>2
      <4>2. \/ <<d, m>> \in told
            \/ \E b \in Author : posting[b].step = "publish" /\ posting[b].id = d /\ m \in posting[b].mentions
        BY <4>1 DEF CommentsInv, Informed, D!IsLive
      <4>3. \A b \in Author : posting[b].step = "publish" => posting'[b] = posting[b]
        BY <1>0, <2>16 DEF p
      <4> QED BY <4>2, <4>3
    <3> QED BY <3>1, <3>2
  <2>24. LandsOnRoots
    <3>1. \A d \in CommentId : comment[d].status = "none" /\ comment'[d].status = "live" => d = new
      BY <2>16
    <3>2. comment'[new] = row BY <2>6, <2>16
    <3> QED BY <2>15, <2>21, <3>1, <3>2 DEF LandsOnRoots
  <2> QED BY <2>17, <2>19, <2>20, <2>22, <2>23, <2>24 DEF CommentsInv
<1> QED BY <1>1, <1>2

(* An account is deleted: its comments stay, without an author.            *)
LEMMA AuthorLeavesStep ==
  ASSUME CommentsInv, NEW a \in Author, D!AuthorLeaves(a) PROVE CommentsInv' /\ LandsOnRoots
<1>0. CommentsType /\ StoredInOrder /\ D!ThreadsSound BY DEF CommentsInv
<1>1. /\ posting[a].step = "idle" /\ UNCHANGED <<posting, told>>
      /\ comment' = [c \in CommentId |-> IF comment[c].author = a THEN [comment[c] EXCEPT !.author = Nobody]
                                         ELSE comment[c]]
  BY DEF D!AuthorLeaves, D!Free
<1>2. ASSUME NEW c \in CommentId
      PROVE  /\ comment'[c] \in CommentRow
             /\ comment'[c].status = comment[c].status /\ comment'[c].resource = comment[c].resource
             /\ comment'[c].parent = comment[c].parent /\ comment'[c].body = comment[c].body
             /\ comment'[c].mentions = comment[c].mentions /\ comment'[c].version = comment[c].version
             /\ comment'[c].author = IF comment[c].author = a THEN Nobody ELSE comment[c].author
  <2> DEFINE x == comment[c]
             z == [x EXCEPT !.author = Nobody]
  <2>1. x \in CommentRow /\ comment'[c] = IF x.author = a THEN z ELSE x BY <1>0, <1>1 DEF CommentsType
  <2> HIDE DEF x
  <2>2. z \in CommentRow BY <2>1 DEF CommentRow
  <2>3. /\ z.status = x.status /\ z.resource = x.resource /\ z.parent = x.parent /\ z.body = x.body
        /\ z.mentions = x.mentions /\ z.version = x.version /\ z.author = Nobody
    BY <2>1 DEF CommentRow
  <2> HIDE DEF z
  <2> QED BY <2>1, <2>2, <2>3 DEF x
<1>3. comment' = [c \in CommentId |-> comment'[c]] BY <1>1
<1>4. CommentsType' BY <1>0, <1>1, <1>2, <1>3 DEF CommentsType
<1>5. D!Stored' = D!Stored /\ D!Stored \subseteq CommentId BY <1>2 DEF D!Stored
<1>6. StoredInOrder' BY <1>0, <1>5 DEF StoredInOrder
<1>7. \A b \in Author : PostingSound(b)'
  <2> SUFFICES ASSUME NEW b \in Author PROVE PostingSound(b)'
    OBVIOUS
  <2>1. posting'[b] = posting[b] /\ PostingSound(b) BY <1>1 DEF CommentsInv
  <2>2. posting[b].step \in {"update", "publish"} => b # a BY <1>1
  <2>3. posting[b].step \in {"update", "publish"} => posting[b].id \in CommentId BY <1>5, <2>1 DEF PostingSound
  <2> QED BY <1>2, <1>5, <2>1, <2>2, <2>3 DEF PostingSound
<1>8. D!ThreadsSound'
  <2> SUFFICES ASSUME NEW d \in D!Stored
               PROVE  (/\ D!IsDeleted(d) => ~comment[d].body /\ comment[d].mentions = {}
                       /\ ~D!IsRoot(d) => /\ comment[d].parent \in D!Stored /\ comment[d].parent < d
                                          /\ D!IsRoot(comment[d].parent)
                                          /\ comment[comment[d].parent].resource = comment[d].resource)'
    BY <1>5 DEF D!ThreadsSound
  <2>1. /\ D!IsDeleted(d) => ~comment[d].body /\ comment[d].mentions = {}
        /\ ~D!IsRoot(d) => /\ comment[d].parent \in D!Stored /\ comment[d].parent < d
                           /\ D!IsRoot(comment[d].parent)
                           /\ comment[comment[d].parent].resource = comment[d].resource
    BY <1>0 DEF D!ThreadsSound
  <2> QED BY <1>2, <1>5, <2>1 DEF D!IsRoot, D!IsDeleted
<1>9. ASSUME NEW d \in CommentId PROVE Informed(d)'
  <2>1. comment'[d].author # Nobody => comment'[d].author = comment[d].author BY <1>2
  <2>2. Informed(d) BY DEF CommentsInv
  <2> QED BY <1>1, <1>2, <2>1, <2>2 DEF Informed, D!IsLive
<1>10. LandsOnRoots BY <1>2 DEF LandsOnRoots
<1> QED BY <1>4, <1>6, <1>7, <1>8, <1>9, <1>10 DEF CommentsInv

(* Every step.                                                             *)
LEMMA CommentsStep == CommentsInv /\ [Next]_vars => CommentsInv' /\ [LandsOnRoots]_(D!commentsVars)
<1> SUFFICES ASSUME CommentsInv, [Next]_vars PROVE CommentsInv' /\ [LandsOnRoots]_(D!commentsVars)
  OBVIOUS
<1>1. CASE UNCHANGED commentsVars
  <2>1. UNCHANGED <<comment, posting, told, posts>> BY <1>1 DEF commentsVars
  <2>2. CommentsType' /\ StoredInOrder' /\ D!ThreadsSound'
    BY <2>1 DEF CommentsInv, CommentsType, StoredInOrder, D!ThreadsSound, D!Stored, D!IsDeleted, D!IsRoot
  <2>3. \A a \in Author : PostingSound(a)' BY <2>1 DEF CommentsInv, PostingSound, D!Stored
  <2>4. \A c \in CommentId : Informed(c)' BY <2>1 DEF CommentsInv, Informed, D!IsLive
  <2> QED BY <2>1, <2>2, <2>3, <2>4 DEF CommentsInv, D!commentsVars
<1>2. CASE D!CommentsNext
  <2>1. PICK a \in Author :
          \/ D!CreateStores(a) \/ D!UpdateStores(a) \/ D!DeleteStores(a) \/ D!PublishMentions(a) \/ D!AuthorLeaves(a)
          \/ \E r \in Resource, parent \in D!Stored \cup {NoComment}, m \in SUBSET Mentionable :
               D!CreateChecks(a, r, parent, m)
          \/ \E c \in D!Stored : D!DeleteChecks(a, c) \/ \E m \in SUBSET Mentionable, v \in 1 .. MaxPosts :
               D!UpdateChecks(a, c, m, v)
    BY <1>2 DEF D!CommentsNext
  <2>2. CASE \/ D!CreateStores(a) \/ D!UpdateStores(a) \/ D!DeleteStores(a) \/ D!PublishMentions(a)
             \/ D!AuthorLeaves(a)
    BY <2>2, CreateStoresStep, UpdateStoresStep, DeleteStoresStep, PublishMentionsStep, AuthorLeavesStep
  <2>3. CASE \E r \in Resource, parent \in D!Stored \cup {NoComment}, m \in SUBSET Mentionable :
               D!CreateChecks(a, r, parent, m)
    BY <2>3, CreateChecksStep
  <2>4. CASE \E c \in D!Stored : D!DeleteChecks(a, c) \/ \E m \in SUBSET Mentionable, v \in 1 .. MaxPosts :
               D!UpdateChecks(a, c, m, v)
    BY <2>4, DeleteChecksStep, UpdateChecksStep
  <2> QED BY <2>1, <2>2, <2>3, <2>4
<1> QED BY <1>1, <1>2 DEF Next, vars, UsageScene, SettingsScene, AssetsScene, RatesScene, CommentsScene,
             TagsScene, KnowledgeScene, MigrationsScene, ConfigurationScene

(***************************************************************************)
(* Tags.                                                                   *)
(***************************************************************************)

TagRow == [version : Nat, name : TagName \cup {"none", "deleted"}]
Tagging == [step : {"idle", "replace", "locked", "shared", "read", "cleared"},
            resource : Tagged \cup {"none"}, want : SUBSET Tag, previous : SUBSET Tag, stale : SUBSET Tag]

TagsType ==
  /\ tag \in [Tag -> TagRow]
  /\ assigned \subseteq Tagged \X Tag
  /\ tagging \in [Tagger -> Tagging]

(* A replacement under way: the tags it shares exist, what it has read of  *)
(* those it wants is still so, and once it has cleared, what else is there *)
(* is exactly what it deletes.                                             *)
ReplacementSound(w) ==
  /\ tagging[w].step # "idle" => tagging[w].resource \in Tagged
  /\ Cardinality(tagging[w].want) <= MaxTagIds
  /\ tagging[w].step \in {"shared", "read", "cleared"} => \A t \in tagging[w].want : G!Exists(t)
  /\ tagging[w].step \in {"read", "cleared"} => \A t \in tagging[w].want :
       t \in tagging[w].previous <=> <<tagging[w].resource, t>> \in assigned
  /\ tagging[w].step = "cleared" => \A t \in Tag :
       t \in tagging[w].stale <=> (<<tagging[w].resource, t>> \in assigned /\ t \notin tagging[w].want)

(* The advisory lock on a resource.                                        *)
ResourcesApart == \A v, w \in Tagger :
  v # w /\ G!InTransaction(v) /\ G!InTransaction(w) => tagging[v].resource # tagging[w].resource

TagsInv ==
  TagsType /\ (\A w \in Tagger : ReplacementSound(w)) /\ ResourcesApart /\ G!AssignmentsSound

(* What ReplacementIsExact says of a step.                                 *)
Exactly == \A w \in Tagger : G!ReplaceCommits(w) =>
  {t \in Tag : <<tagging[w].resource, t>> \in assigned'} = tagging[w].want

(* The cardinality of the model is that of the library.                    *)
LEMMA TagCardinality == \A set : G!Cardinality(set) = Cardinality(set)
BY DEF G!Cardinality, Cardinality

(* There are finitely many tags.                                           *)
LEMMA TagsAreFinite == IsFiniteSet(Tag)
BY ServicesAssumption DEF G!TagsAssumption, G!IsFiniteSet, IsFiniteSet

(* Nothing is tagged at first.                                             *)
LEMMA TagsStart == Init => TagsInv
<1> SUFFICES ASSUME G!TagsInit PROVE TagsInv
  BY DEF Init
<1>1. \A w \in Tagger : tagging[w] = G!NoTagging BY DEF G!TagsInit
<1>2. /\ G!NoTagging \in Tagging /\ G!NoTagging.step = "idle" /\ G!NoTagging.want = {}
  BY DEF G!NoTagging, Tagging
<1>3. TagsType BY <1>2 DEF TagsType, G!TagsInit, TagRow, G!NoTag
<1>4. Cardinality({}) = 0 /\ MaxTagIds \in Nat BY FS_EmptySet, ServicesAssumption DEF G!TagsAssumption
<1>5. \A w \in Tagger : ReplacementSound(w) BY <1>1, <1>2, <1>4 DEF ReplacementSound
<1>6. ResourcesApart BY <1>1, <1>2 DEF ResourcesApart, G!InTransaction
<1>7. assigned = {} /\ \A r \in Tagged : G!Carried(r) = {} BY DEF G!TagsInit, G!Carried
<1>8. G!AssignmentsSound BY <1>4, <1>7, TagCardinality DEF G!AssignmentsSound
<1> QED BY <1>3, <1>5, <1>6, <1>8 DEF TagsInv

(* A step of one replacement that leaves the tags and the assignments.     *)
LEMMA TaggerMoves ==
  ASSUME TagsInv, NEW w \in Tagger, NEW q \in Tagging, tagging' = [tagging EXCEPT ![w] = q],
         UNCHANGED <<tag, assigned>>,
         q.step # "idle" => q.resource \in Tagged,
         Cardinality(q.want) <= MaxTagIds,
         q.step \in {"shared", "read", "cleared"} => \A t \in q.want : G!Exists(t),
         q.step \in {"read", "cleared"} => \A t \in q.want :
           t \in q.previous <=> <<q.resource, t>> \in assigned,
         q.step = "cleared" => \A t \in Tag :
           t \in q.stale <=> (<<q.resource, t>> \in assigned /\ t \notin q.want),
         q.step \in {"locked", "shared", "read", "cleared"} =>
           \A v \in Tagger \ {w} : G!InTransaction(v) => tagging[v].resource # q.resource
  PROVE  TagsInv'
<1>0. TagsType /\ ResourcesApart /\ G!AssignmentsSound BY DEF TagsInv
<1>1. \A v \in Tagger : tagging'[v] = IF v = w THEN q ELSE tagging[v] BY <1>0 DEF TagsType
<1>2. TagsType' BY <1>0 DEF TagsType
<1>3. \A v \in Tagger : ReplacementSound(v)'
  <2> SUFFICES ASSUME NEW v \in Tagger PROVE ReplacementSound(v)'
    OBVIOUS
  <2>1. CASE v = w
    <3>1. tagging'[v] = q BY <1>1, <2>1
    <3> QED BY <3>1 DEF ReplacementSound, G!Exists
  <2>2. CASE v # w
    <3>1. tagging'[v] = tagging[v] BY <1>1, <2>2
    <3> QED BY <3>1 DEF TagsInv, ReplacementSound, G!Exists
  <2> QED BY <2>1, <2>2
<1>4. ResourcesApart' BY <1>0, <1>1 DEF ResourcesApart, G!InTransaction
<1>5. G!AssignmentsSound' BY <1>0 DEF G!AssignmentsSound, G!Exists, G!Carried
<1> QED BY <1>2, <1>3, <1>4, <1>5 DEF TagsInv

(* Fields of the replacement under way.                                    *)
LEMMA TaggingFields ==
  ASSUME NEW q \in Tagging
  PROVE  /\ q.step \in {"idle", "replace", "locked", "shared", "read", "cleared"}
         /\ q.resource \in Tagged \cup {"none"}
         /\ q.want \in SUBSET Tag /\ q.previous \in SUBSET Tag /\ q.stale \in SUBSET Tag
         /\ q = [step |-> q.step, resource |-> q.resource, want |-> q.want, previous |-> q.previous,
                 stale |-> q.stale]
BY DEF Tagging

(* A replacement is under way no more: it failed, or one did not begin.    *)
LEMMA TaggerRests ==
  ASSUME TagsInv, NEW w \in Tagger, tagging' = [tagging EXCEPT ![w] = G!NoTagging],
         UNCHANGED <<tag, assigned>>
  PROVE  TagsInv'
<1>1. G!NoTagging \in Tagging /\ G!NoTagging.step = "idle" /\ G!NoTagging.want = {}
  BY DEF G!NoTagging, Tagging
<1>2. Cardinality({}) <= MaxTagIds BY FS_EmptySet, ServicesAssumption DEF G!TagsAssumption
<1> HIDE DEF G!NoTagging
<1> QED BY <1>1, <1>2, TaggerMoves

(* A replacement with other fields, as EXCEPT writes it.                   *)
LEMMA TaggingExcept ==
  ASSUME NEW q \in Tagging, NEW s \in {"replace", "locked", "shared", "read", "cleared"},
         NEW set \in SUBSET Tag
  PROVE  /\ [q EXCEPT !.step = s] =
              [step |-> s, resource |-> q.resource, want |-> q.want, previous |-> q.previous, stale |-> q.stale]
         /\ [q EXCEPT !.step = s, !.previous = set] =
              [step |-> s, resource |-> q.resource, want |-> q.want, previous |-> set, stale |-> q.stale]
         /\ [q EXCEPT !.step = s, !.stale = set] =
              [step |-> s, resource |-> q.resource, want |-> q.want, previous |-> q.previous, stale |-> set]
<1>1. [q EXCEPT !.step = s] =
        [step |-> s, resource |-> q.resource, want |-> q.want, previous |-> q.previous, stale |-> q.stale]
  <2> DEFINE e == [q EXCEPT !.step = s]
  <2>1. e \in Tagging BY DEF Tagging
  <2>2. e.step = s /\ e.resource = q.resource /\ e.want = q.want /\ e.previous = q.previous /\ e.stale = q.stale
    BY DEF Tagging
  <2> HIDE DEF e
  <2>3. e = [step |-> e.step, resource |-> e.resource, want |-> e.want, previous |-> e.previous, stale |-> e.stale]
    BY <2>1, TaggingFields
  <2>4. e = [step |-> s, resource |-> q.resource, want |-> q.want, previous |-> q.previous, stale |-> q.stale]
    BY <2>2, <2>3
  <2> QED BY <2>4 DEF e
<1>2. [q EXCEPT !.step = s, !.previous = set] =
        [step |-> s, resource |-> q.resource, want |-> q.want, previous |-> set, stale |-> q.stale]
  <2> DEFINE e == [q EXCEPT !.step = s, !.previous = set]
  <2>1. e \in Tagging BY DEF Tagging
  <2>2. e.step = s /\ e.resource = q.resource /\ e.want = q.want /\ e.previous = set /\ e.stale = q.stale
    BY DEF Tagging
  <2> HIDE DEF e
  <2>3. e = [step |-> e.step, resource |-> e.resource, want |-> e.want, previous |-> e.previous, stale |-> e.stale]
    BY <2>1, TaggingFields
  <2>4. e = [step |-> s, resource |-> q.resource, want |-> q.want, previous |-> set, stale |-> q.stale]
    BY <2>2, <2>3
  <2> QED BY <2>4 DEF e
<1>3. [q EXCEPT !.step = s, !.stale = set] =
        [step |-> s, resource |-> q.resource, want |-> q.want, previous |-> q.previous, stale |-> set]
  <2> DEFINE e == [q EXCEPT !.step = s, !.stale = set]
  <2>1. e \in Tagging BY DEF Tagging
  <2>2. e.step = s /\ e.resource = q.resource /\ e.want = q.want /\ e.previous = q.previous /\ e.stale = set
    BY DEF Tagging
  <2> HIDE DEF e
  <2>3. e = [step |-> e.step, resource |-> e.resource, want |-> e.want, previous |-> e.previous, stale |-> e.stale]
    BY <2>1, TaggingFields
  <2>4. e = [step |-> s, resource |-> q.resource, want |-> q.want, previous |-> q.previous, stale |-> set]
    BY <2>2, <2>3
  <2> QED BY <2>4 DEF e
<1> QED BY <1>1, <1>2, <1>3

(* A replacement that is asked for.                                        *)
LEMMA TaggingBegun ==
  ASSUME NEW q \in Tagging, NEW s \in {"replace"}, NEW r \in Tagged, NEW set \in SUBSET Tag
  PROVE  [q EXCEPT !.step = s, !.resource = r, !.want = set] =
           [step |-> s, resource |-> r, want |-> set, previous |-> q.previous, stale |-> q.stale]
<1> DEFINE e == [q EXCEPT !.step = s, !.resource = r, !.want = set]
<1>1. e \in Tagging BY DEF Tagging
<1>2. e.step = s /\ e.resource = r /\ e.want = set /\ e.previous = q.previous /\ e.stale = q.stale
  BY DEF Tagging
<1> HIDE DEF e
<1>3. e = [step |-> e.step, resource |-> e.resource, want |-> e.want, previous |-> e.previous, stale |-> e.stale]
  BY <1>1, TaggingFields
<1>4. e = [step |-> s, resource |-> r, want |-> set, previous |-> q.previous, stale |-> q.stale]
  BY <1>2, <1>3
<1> QED BY <1>4 DEF e

(* A replacement that moves on changes its own record only.                *)
LEMMA TaggingFieldExcept ==
  ASSUME tagging \in [Tagger -> Tagging], NEW w \in Tagger, NEW s, NEW set
  PROVE  /\ [tagging EXCEPT ![w].step = s] = [tagging EXCEPT ![w] = [tagging[w] EXCEPT !.step = s]]
         /\ [tagging EXCEPT ![w].step = s, ![w].previous = set] =
              [tagging EXCEPT ![w] = [tagging[w] EXCEPT !.step = s, !.previous = set]]
         /\ [tagging EXCEPT ![w].step = s, ![w].stale = set] =
              [tagging EXCEPT ![w] = [tagging[w] EXCEPT !.step = s, !.stale = set]]
<1>1. [tagging EXCEPT ![w].step = s] = [tagging EXCEPT ![w] = [tagging[w] EXCEPT !.step = s]]
  OBVIOUS
<1>2. [tagging EXCEPT ![w].step = s, ![w].previous = set] =
        [tagging EXCEPT ![w] = [tagging[w] EXCEPT !.step = s, !.previous = set]]
  OBVIOUS
<1>3. [tagging EXCEPT ![w].step = s, ![w].stale = set] =
        [tagging EXCEPT ![w] = [tagging[w] EXCEPT !.step = s, !.stale = set]]
  OBVIOUS
<1> QED BY <1>1, <1>2, <1>3

(* A replacement goes on to its next step.                                 *)
LEMMA TaggerProceeds ==
  ASSUME TagsInv, NEW w \in Tagger, NEW s \in {"locked", "shared", "read", "cleared"},
         NEW previous \in SUBSET Tag, NEW stale \in SUBSET Tag,
         tagging[w].step # "idle",
         tagging' = [tagging EXCEPT ![w] =
           [step |-> s, resource |-> tagging[w].resource, want |-> tagging[w].want,
            previous |-> previous, stale |-> stale]],
         UNCHANGED <<tag, assigned>>,
         s # "locked" => \A t \in tagging[w].want : G!Exists(t),
         s \in {"read", "cleared"} => \A t \in tagging[w].want :
           t \in previous <=> <<tagging[w].resource, t>> \in assigned,
         s = "cleared" => \A t \in Tag :
           t \in stale <=> (<<tagging[w].resource, t>> \in assigned /\ t \notin tagging[w].want),
         \/ G!InTransaction(w)
         \/ \A v \in Tagger : G!InTransaction(v) => tagging[v].resource # tagging[w].resource
  PROVE  TagsInv'
<1> DEFINE q == [step |-> s, resource |-> tagging[w].resource, want |-> tagging[w].want,
                 previous |-> previous, stale |-> stale]
<1>0. TagsType /\ ReplacementSound(w) /\ tagging[w] \in Tagging BY DEF TagsInv, TagsType
<1>1. /\ tagging[w].resource \in Tagged /\ tagging[w].want \in SUBSET Tag
      /\ Cardinality(tagging[w].want) <= MaxTagIds
  BY <1>0, TaggingFields DEF ReplacementSound
<1>2. q \in Tagging BY <1>1 DEF Tagging
<1>3. /\ q.step = s /\ q.resource = tagging[w].resource /\ q.want = tagging[w].want
      /\ q.previous = previous /\ q.stale = stale
  OBVIOUS
<1>4. tagging' = [tagging EXCEPT ![w] = q] OBVIOUS
<1> HIDE DEF q
<1>5. \A v \in Tagger \ {w} : G!InTransaction(v) => tagging[v].resource # q.resource
  BY <1>3 DEF TagsInv, ResourcesApart
<1>6. q.step \in {"shared", "read", "cleared"} => \A t \in q.want : G!Exists(t) BY <1>3
<1>7. q.step \in {"read", "cleared"} => \A t \in q.want :
        t \in q.previous <=> <<q.resource, t>> \in assigned
  BY <1>3
<1>8. q.step = "cleared" => \A t \in Tag :
        t \in q.stale <=> (<<q.resource, t>> \in assigned /\ t \notin q.want)
  BY <1>3
<1> QED BY <1>1, <1>2, <1>3, <1>4, <1>5, <1>6, <1>7, <1>8, TaggerMoves

(* The steps of a replacement before it commits.                           *)
LEMMA ReplaceBeginsStep ==
  ASSUME TagsInv, NEW w \in Tagger, NEW r \in Tagged, NEW ids \in SUBSET Tag, G!ReplaceBegins(w, r, ids)
  PROVE  TagsInv'
<1> DEFINE q == [step |-> "replace", resource |-> r, want |-> ids, previous |-> {}, stale |-> {}]
<1>0. G!NoTagging \in Tagging /\ G!NoTagging.previous = {} /\ G!NoTagging.stale = {}
  BY DEF G!NoTagging, Tagging
<1>1. [G!NoTagging EXCEPT !.step = "replace", !.resource = r, !.want = ids] = q
  <2>1. [G!NoTagging EXCEPT !.step = "replace", !.resource = r, !.want = ids] =
          [step |-> "replace", resource |-> r, want |-> ids, previous |-> G!NoTagging.previous,
           stale |-> G!NoTagging.stale]
    BY <1>0, TaggingBegun
  <2> QED BY <1>0, <2>1
<1>2. tagging' = [tagging EXCEPT ![w] = q] /\ UNCHANGED <<tag, assigned>>
      /\ Cardinality(ids) <= MaxTagIds
  BY <1>1, TagCardinality DEF G!ReplaceBegins
<1>3. q \in Tagging /\ q.step = "replace" /\ q.resource = r /\ q.want = ids BY DEF Tagging
<1> HIDE DEF q
<1> QED BY <1>2, <1>3, TaggerMoves

(* The stages of a replacement before it commits.                          *)
LEMMA ReplaceProceeds ==
  ASSUME TagsInv, NEW w \in Tagger,
         G!ReplaceLocks(w) \/ G!ReplaceShares(w) \/ G!ReplaceReads(w) \/ G!ReplaceClears(w) \/ G!ReplaceFails(w)
  PROVE  TagsInv'
<1>0. TagsType /\ ReplacementSound(w) /\ tagging[w] \in Tagging BY DEF TagsInv, TagsType
<1>1. /\ tagging[w].want \in SUBSET Tag /\ tagging[w].previous \in SUBSET Tag
      /\ tagging[w].stale \in SUBSET Tag
  BY <1>0, TaggingFields
<1>2. G!InTransaction(w) <=> tagging[w].step \in {"locked", "shared", "read", "cleared"}
  BY DEF G!InTransaction
<1>3. G!Carried(tagging[w].resource) \in SUBSET Tag
      /\ \A t \in Tag : t \in G!Carried(tagging[w].resource) <=> <<tagging[w].resource, t>> \in assigned
  BY DEF G!Carried
<1>4. CASE G!ReplaceLocks(w)
  <2>1. tagging[w].step = "replace" /\ UNCHANGED <<tag, assigned>>
        /\ tagging' = [tagging EXCEPT ![w].step = "locked"]
    BY <1>4 DEF G!ReplaceLocks, G!Step
  <2>2. \A v \in Tagger : G!InTransaction(v) => tagging[v].resource # tagging[w].resource
    BY <1>4 DEF G!ReplaceLocks, G!LockResource, G!ResourceFree
  <2>3. tagging' = [tagging EXCEPT ![w] =
           [step |-> "locked", resource |-> tagging[w].resource, want |-> tagging[w].want,
            previous |-> tagging[w].previous, stale |-> tagging[w].stale]]
    BY <1>0, <2>1, TaggingFieldExcept, TaggingExcept DEF TagsType
  <2> QED BY <1>1, <2>1, <2>2, <2>3, TaggerProceeds
<1>5. CASE G!ReplaceShares(w)
  <2>1. CASE \A t \in tagging[w].want : G!Exists(t)
    <3>1. tagging[w].step = "locked" /\ UNCHANGED <<tag, assigned>>
          /\ tagging' = [tagging EXCEPT ![w].step = "shared"]
      BY <1>5, <2>1 DEF G!ReplaceShares, G!Step
    <3>2. tagging' = [tagging EXCEPT ![w] =
             [step |-> "shared", resource |-> tagging[w].resource, want |-> tagging[w].want,
              previous |-> tagging[w].previous, stale |-> tagging[w].stale]]
      BY <1>0, <3>1, TaggingFieldExcept, TaggingExcept DEF TagsType
    <3> QED BY <1>1, <1>2, <2>1, <3>1, <3>2, TaggerProceeds
  <2>2. CASE ~(\A t \in tagging[w].want : G!Exists(t)) BY <1>5, <2>2, TaggerRests DEF G!ReplaceShares
  <2> QED BY <2>1, <2>2
<1>6. CASE G!ReplaceReads(w)
  <2>1. tagging[w].step = "shared" /\ UNCHANGED <<tag, assigned>>
        /\ tagging' = [tagging EXCEPT ![w].step = "read", ![w].previous = G!Carried(tagging[w].resource)]
    BY <1>6 DEF G!ReplaceReads
  <2>2. tagging' = [tagging EXCEPT ![w] =
           [step |-> "read", resource |-> tagging[w].resource, want |-> tagging[w].want,
            previous |-> G!Carried(tagging[w].resource), stale |-> tagging[w].stale]]
    <3> DEFINE previous == G!Carried(tagging[w].resource)
    <3>1. previous \in SUBSET Tag BY <1>3
    <3> HIDE DEF previous
    <3>2. [tagging[w] EXCEPT !.step = "read", !.previous = previous] =
            [step |-> "read", resource |-> tagging[w].resource, want |-> tagging[w].want,
             previous |-> previous, stale |-> tagging[w].stale]
      BY <1>0, <3>1, TaggingExcept
    <3>3. [tagging EXCEPT ![w].step = "read", ![w].previous = previous] =
            [tagging EXCEPT ![w] = [tagging[w] EXCEPT !.step = "read", !.previous = previous]]
      BY <1>0, TaggingFieldExcept DEF TagsType
    <3>4. tagging' = [tagging EXCEPT ![w].step = "read", ![w].previous = previous] BY <2>1 DEF previous
    <3> QED BY <3>2, <3>3, <3>4 DEF previous
  <2>3. \A t \in tagging[w].want : G!Exists(t) BY <1>0, <2>1 DEF ReplacementSound
  <2> QED BY <1>1, <1>2, <1>3, <2>1, <2>2, <2>3, TaggerProceeds
<1>7. CASE G!ReplaceClears(w)
  <2> DEFINE stale == G!Carried(tagging[w].resource) \ tagging[w].want
  <2>1. tagging[w].step = "read" /\ UNCHANGED <<tag, assigned>>
        /\ tagging' = [tagging EXCEPT ![w].step = "cleared", ![w].stale = stale]
    BY <1>7 DEF G!ReplaceClears
  <2>2. /\ stale \in SUBSET Tag
        /\ \A t \in Tag :
             t \in stale <=> (<<tagging[w].resource, t>> \in assigned /\ t \notin tagging[w].want)
    BY <1>3
  <2> HIDE DEF stale
  <2>3. tagging' = [tagging EXCEPT ![w] =
           [step |-> "cleared", resource |-> tagging[w].resource, want |-> tagging[w].want,
            previous |-> tagging[w].previous, stale |-> stale]]
    <3>1. [tagging[w] EXCEPT !.step = "cleared", !.stale = stale] =
            [step |-> "cleared", resource |-> tagging[w].resource, want |-> tagging[w].want,
             previous |-> tagging[w].previous, stale |-> stale]
      BY <1>0, <2>2, TaggingExcept
    <3>2. [tagging EXCEPT ![w].step = "cleared", ![w].stale = stale] =
            [tagging EXCEPT ![w] = [tagging[w] EXCEPT !.step = "cleared", !.stale = stale]]
      BY <1>0, TaggingFieldExcept DEF TagsType
    <3> QED BY <2>1, <3>1, <3>2
  <2>4. /\ \A t \in tagging[w].want : G!Exists(t)
        /\ \A t \in tagging[w].want : t \in tagging[w].previous <=> <<tagging[w].resource, t>> \in assigned
    BY <1>0, <2>1 DEF ReplacementSound
  <2> QED BY <1>1, <1>2, <2>1, <2>2, <2>3, <2>4, TaggerProceeds
<1>8. CASE G!ReplaceFails(w) BY <1>8, TaggerRests DEF G!ReplaceFails
<1> QED BY <1>4, <1>5, <1>6, <1>7, <1>8

(* A replacement commits: the resource carries exactly what was asked for. *)
LEMMA ReplaceCommitsStep ==
  ASSUME TagsInv, NEW w \in Tagger, G!ReplaceCommits(w)
  PROVE  /\ TagsInv'
         /\ {t \in Tag : <<tagging[w].resource, t>> \in assigned'} = tagging[w].want
<1> DEFINE r == tagging[w].resource
           want == tagging[w].want
           stale == tagging[w].stale
           previous == tagging[w].previous
<1>0. TagsType /\ ResourcesApart /\ G!AssignmentsSound /\ ReplacementSound(w) /\ tagging[w] \in Tagging
  BY DEF TagsInv, TagsType
<1>1. /\ tagging[w].step = "cleared"
      /\ assigned' = {x \in assigned : ~(x[1] = r /\ x[2] \in stale)} \cup {<<r, t>> : t \in want \ previous}
      /\ tagging' = [tagging EXCEPT ![w] = G!NoTagging] /\ UNCHANGED tag
  BY DEF G!ReplaceCommits
<1>2. /\ r \in Tagged /\ want \in SUBSET Tag /\ stale \in SUBSET Tag /\ previous \in SUBSET Tag
      /\ Cardinality(want) <= MaxTagIds
      /\ \A t \in want : G!Exists(t) /\ (t \in previous <=> <<r, t>> \in assigned)
      /\ \A t \in Tag : t \in stale <=> (<<r, t>> \in assigned /\ t \notin want)
  BY <1>0, <1>1, TaggingFields DEF ReplacementSound
<1>3. G!InTransaction(w) BY <1>1 DEF G!InTransaction
<1> HIDE DEF r, want, stale, previous
<1>4. \A s \in Tagged, t \in Tag : <<s, t>> \in assigned' <=>
        (<<s, t>> \in assigned /\ ~(s = r /\ t \in stale)) \/ (s = r /\ t \in want \ previous)
  BY <1>1
<1>5. \A t \in Tag : <<r, t>> \in assigned' <=> t \in want BY <1>2, <1>4
<1>6. {t \in Tag : <<r, t>> \in assigned'} = want BY <1>2, <1>5
<1>7. TagsType'
  <2>1. assigned' \subseteq Tagged \X Tag BY <1>0, <1>1, <1>2 DEF TagsType
  <2>2. G!NoTagging \in Tagging BY DEF G!NoTagging, Tagging
  <2> QED BY <1>0, <1>1, <2>1, <2>2 DEF TagsType
<1>8. \A v \in Tagger : tagging'[v] = IF v = w THEN G!NoTagging ELSE tagging[v] BY <1>0, <1>1 DEF TagsType
<1>9. G!NoTagging.step = "idle" /\ G!NoTagging.want = {} /\ Cardinality({}) <= MaxTagIds
  BY FS_EmptySet, ServicesAssumption DEF G!TagsAssumption, G!NoTagging
<1>10. ResourcesApart' BY <1>0, <1>8, <1>9 DEF ResourcesApart, G!InTransaction
<1>11. \A v \in Tagger : ReplacementSound(v)'
  <2> SUFFICES ASSUME NEW v \in Tagger PROVE ReplacementSound(v)'
    OBVIOUS
  <2>1. CASE v = w
    <3>1. tagging'[v] = G!NoTagging BY <1>8, <2>1
    <3> QED BY <1>9, <3>1 DEF ReplacementSound
  <2>2. CASE v # w
    <3>1. tagging'[v] = tagging[v] /\ ReplacementSound(v) /\ tagging[v] \in Tagging
      BY <1>0, <1>8, <2>2 DEF TagsInv, TagsType
    <3>2. tagging[v].want \in SUBSET Tag BY <3>1, TaggingFields
    <3>3. G!InTransaction(v) => tagging[v].resource # r
      BY <1>0, <1>3, <2>2 DEF ResourcesApart, r
    <3>4. G!InTransaction(v) => \A t \in Tag : <<tagging[v].resource, t>> \in assigned'
                                                <=> <<tagging[v].resource, t>> \in assigned
      BY <1>4, <3>1, <3>3 DEF ReplacementSound, G!InTransaction
    <3> QED BY <1>1, <3>1, <3>2, <3>4 DEF ReplacementSound, G!InTransaction, G!Exists
  <2> QED BY <2>1, <2>2
<1>12. G!AssignmentsSound'
  <2>1. ASSUME NEW x \in assigned' PROVE G!Exists(x[2])'
    <3>1. x \in assigned \/ \E t \in want : x = <<r, t>> BY <1>1, <2>1
    <3>2. x \in assigned => G!Exists(x[2]) BY <1>0 DEF G!AssignmentsSound
    <3>3. \A t \in want : x = <<r, t>> => G!Exists(x[2]) BY <1>2
    <3> QED BY <1>1, <3>1, <3>2, <3>3 DEF G!Exists
  <2>2. ASSUME NEW s \in Tagged PROVE (Cardinality(G!Carried(s)) <= MaxTagIds)'
    <3>1. CASE s = r
      <4>1. G!Carried(s)' = want BY <1>6, <3>1 DEF G!Carried
      <4> QED BY <1>2, <4>1
    <3>2. CASE s # r
      <4>1. G!Carried(s)' = G!Carried(s) BY <1>4, <3>2 DEF G!Carried
      <4> QED BY <1>0, <4>1, TagCardinality DEF G!AssignmentsSound
    <3> QED BY <3>1, <3>2
  <2> QED BY <2>1, <2>2, TagCardinality DEF G!AssignmentsSound
<1> QED BY <1>6, <1>7, <1>10, <1>11, <1>12 DEF TagsInv, r, want

(* A resource carries fewer tags after assignments are deleted.            *)
LEMMA FewerCarried ==
  ASSUME TagsInv, assigned' \subseteq assigned, NEW r \in Tagged
  PROVE  Cardinality({t \in Tag : <<r, t>> \in assigned'}) <= MaxTagIds
<1> DEFINE fewer == {t \in Tag : <<r, t>> \in assigned'}
           carried == G!Carried(r)
<1>1. carried \in SUBSET Tag /\ fewer \in SUBSET carried /\ Cardinality(carried) <= MaxTagIds
  BY TagCardinality DEF TagsInv, G!AssignmentsSound, G!Carried
<1> HIDE DEF fewer, carried
<1>2. IsFiniteSet(carried) BY <1>1, FS_Subset, TagsAreFinite
<1>3. IsFiniteSet(fewer) /\ Cardinality(fewer) <= Cardinality(carried) BY <1>1, <1>2, FS_Subset
<1>4. Cardinality(fewer) \in Nat /\ Cardinality(carried) \in Nat /\ MaxTagIds \in Nat
  BY <1>2, <1>3, FS_CardinalityType, ServicesAssumption DEF G!TagsAssumption
<1>5. Cardinality(fewer) <= MaxTagIds BY <1>1, <1>3, <1>4
<1> QED BY <1>5 DEF fewer

(* A resource's assignments are deleted, or a tag with its assignments: no *)
(* replacement under way has read them.                                    *)
LEMMA DetachResourceStep ==
  ASSUME TagsInv, NEW r \in Tagged, G!DetachResource(r) PROVE TagsInv'
<1>0. TagsType /\ ResourcesApart /\ G!AssignmentsSound BY DEF TagsInv
<1>1. /\ \A w \in Tagger : ~(G!InTransaction(w) /\ tagging[w].resource = r)
      /\ assigned' = {x \in assigned : x[1] # r} /\ UNCHANGED <<tag, tagging>>
  BY DEF G!DetachResource, G!LockResource, G!ResourceFree
<1>2. TagsType' BY <1>0, <1>1 DEF TagsType
<1>3. ResourcesApart' BY <1>0, <1>1 DEF ResourcesApart, G!InTransaction
<1>4. \A s, t : s # r => (<<s, t>> \in assigned' <=> <<s, t>> \in assigned) BY <1>1
<1>5. \A w \in Tagger : ReplacementSound(w)'
  <2> SUFFICES ASSUME NEW w \in Tagger PROVE ReplacementSound(w)'
    OBVIOUS
  <2>1. ReplacementSound(w) /\ tagging'[w] = tagging[w] BY <1>1 DEF TagsInv
  <2>2. tagging[w].step \in {"read", "cleared"} => tagging[w].resource # r BY <1>1 DEF G!InTransaction
  <2> QED BY <1>1, <1>4, <2>1, <2>2 DEF ReplacementSound, G!Exists
<1>6. G!AssignmentsSound'
  <2>1. \A x \in assigned' : G!Exists(x[2])' BY <1>0, <1>1 DEF G!AssignmentsSound, G!Exists
  <2>2. \A s \in Tagged : (Cardinality(G!Carried(s)) <= MaxTagIds)'
    BY <1>1, FewerCarried DEF G!Carried
  <2> QED BY <2>1, <2>2, TagCardinality DEF G!AssignmentsSound
<1> QED BY <1>2, <1>3, <1>5, <1>6 DEF TagsInv

(* A tag that is deleted is assigned to nothing.                           *)
LEMMA DeleteTagStep ==
  ASSUME TagsInv, NEW t \in Tag, NEW v, G!DeleteTag(t, v) PROVE TagsInv'
<1>0. TagsType /\ ResourcesApart /\ G!AssignmentsSound BY DEF TagsInv
<1>1. /\ tag' = [tag EXCEPT ![t] = G!DeletedTag] /\ assigned' = {x \in assigned : x[2] # t}
      /\ \A w \in Tagger : tagging[w].step \in {"shared", "read", "cleared"} => t \notin tagging[w].want
      /\ \A w \in Tagger : tagging[w].step = "cleared" => t \notin tagging[w].stale
      /\ UNCHANGED tagging
  BY DEF G!DeleteTag, G!DeleteRow, G!HeldShared, G!HeldStale
<1>2. G!DeletedTag \in TagRow BY DEF G!DeletedTag, TagRow
<1>3. TagsType' BY <1>0, <1>1, <1>2 DEF TagsType
<1>4. ResourcesApart' BY <1>0, <1>1 DEF ResourcesApart, G!InTransaction
<1>5. \A s, u : u # t => (<<s, u>> \in assigned' <=> <<s, u>> \in assigned) BY <1>1
<1>6. \A s : <<s, t>> \notin assigned' BY <1>1
<1>7. \A u \in Tag : u # t => tag'[u] = tag[u] BY <1>0, <1>1 DEF TagsType
<1>8. \A w \in Tagger : ReplacementSound(w)'
  <2> SUFFICES ASSUME NEW w \in Tagger PROVE ReplacementSound(w)'
    OBVIOUS
  <2>1. ReplacementSound(w) /\ tagging'[w] = tagging[w] /\ tagging[w] \in Tagging
    BY <1>0, <1>1 DEF TagsInv, TagsType
  <2>2. tagging[w].want \in SUBSET Tag /\ tagging[w].stale \in SUBSET Tag BY <2>1, TaggingFields
  <2>3. tagging[w].step \in {"shared", "read", "cleared"} => \A u \in tagging[w].want : G!Exists(u)'
    BY <1>1, <1>7, <2>1, <2>2 DEF ReplacementSound, G!Exists
  <2>4. tagging[w].step \in {"read", "cleared"} => \A u \in tagging[w].want :
          u \in tagging[w].previous <=> <<tagging[w].resource, u>> \in assigned'
    BY <1>1, <1>5, <2>1 DEF ReplacementSound
  <2>5. tagging[w].step = "cleared" => \A u \in Tag :
          u \in tagging[w].stale <=> (<<tagging[w].resource, u>> \in assigned' /\ u \notin tagging[w].want)
    BY <1>1, <1>5, <1>6, <2>1 DEF ReplacementSound
  <2> QED BY <2>1, <2>3, <2>4, <2>5 DEF ReplacementSound, G!Exists
<1>9. G!AssignmentsSound'
  <2>1. ASSUME NEW x \in assigned' PROVE G!Exists(x[2])'
    <3>1. x \in assigned /\ x[2] # t /\ x[2] \in Tag BY <1>0, <1>1 DEF TagsType
    <3> QED BY <1>0, <1>7, <3>1 DEF G!AssignmentsSound, G!Exists
  <2>2. \A s \in Tagged : (Cardinality(G!Carried(s)) <= MaxTagIds)'
    BY <1>1, FewerCarried DEF G!Carried
  <2> QED BY <2>1, <2>2, TagCardinality DEF G!AssignmentsSound
<1> QED BY <1>3, <1>4, <1>8, <1>9 DEF TagsInv

(* A tag is created or changed: none that existed is gone.                 *)
LEMMA TagWrittenStep ==
  ASSUME TagsInv, NEW t \in Tag, NEW n \in TagName, NEW v \in Nat,
         G!CreateTag(t, n) \/ G!UpdateTag(t, v, n)
  PROVE  TagsInv'
<1>0. TagsType /\ ResourcesApart /\ G!AssignmentsSound BY DEF TagsInv
<1> DEFINE row == IF G!CreateTag(t, n) THEN [version |-> 1, name |-> n] ELSE [version |-> v + 1, name |-> n]
<1>1. row \in TagRow /\ row.version > 0 BY DEF TagRow
<1>2. tag' = [tag EXCEPT ![t] = row] /\ UNCHANGED <<assigned, tagging>>
  BY DEF G!CreateTag, G!UpdateTag, G!CreateRow, G!UpdateRow
<1> HIDE DEF row
<1>3. \A u \in Tag : G!Exists(u) => G!Exists(u)' BY <1>0, <1>1, <1>2 DEF TagsType, G!Exists
<1>4. TagsType' BY <1>0, <1>1, <1>2 DEF TagsType
<1>5. ResourcesApart' BY <1>0, <1>2 DEF ResourcesApart, G!InTransaction
<1>6. \A w \in Tagger : ReplacementSound(w)'
  <2> SUFFICES ASSUME NEW w \in Tagger PROVE ReplacementSound(w)'
    OBVIOUS
  <2>1. ReplacementSound(w) /\ tagging'[w] = tagging[w] /\ tagging[w] \in Tagging
    BY <1>0, <1>2 DEF TagsInv, TagsType
  <2>2. tagging[w].want \in SUBSET Tag BY <2>1, TaggingFields
  <2>3. tagging[w].step \in {"shared", "read", "cleared"} => \A u \in tagging[w].want : G!Exists(u)'
    BY <1>3, <2>1, <2>2 DEF ReplacementSound
  <2> QED BY <1>2, <2>1, <2>3 DEF ReplacementSound
<1>7. G!AssignmentsSound'
  <2>1. ASSUME NEW x \in assigned' PROVE G!Exists(x[2])'
    <3>1. x \in assigned /\ x[2] \in Tag BY <1>0, <1>2 DEF TagsType
    <3> QED BY <1>0, <1>3, <3>1 DEF G!AssignmentsSound
  <2> QED BY <1>0, <1>2, <2>1 DEF G!AssignmentsSound, G!Carried
<1> QED BY <1>4, <1>5, <1>6, <1>7 DEF TagsInv

(* Every step.                                                             *)
LEMMA TagsStep == TagsInv /\ [Next]_vars => TagsInv' /\ [Exactly]_(G!tagsVars)
<1> SUFFICES ASSUME TagsInv, [Next]_vars PROVE TagsInv' /\ [Exactly]_(G!tagsVars)
  OBVIOUS
<1>1. \A w \in Tagger : G!ReplaceCommits(w) =>
        {t \in Tag : <<tagging[w].resource, t>> \in assigned'} = tagging[w].want
  BY ReplaceCommitsStep
<1>2. Exactly BY <1>1 DEF Exactly
<1>3. CASE UNCHANGED tagsVars \/ UNCHANGED <<tag, assigned, tagging>>
  <2>1. UNCHANGED <<tag, assigned, tagging>> BY <1>3 DEF tagsVars
  <2> QED BY <1>2, <2>1 DEF TagsInv, TagsType, ReplacementSound, ResourcesApart, G!InTransaction,
                             G!AssignmentsSound, G!Exists, G!Carried
<1>4. CASE G!TagsNext
  <2>1. CASE \E t \in Tag : G!ReadTag(t) BY <1>3, <2>1 DEF G!ReadTag
  <2>2. ASSUME NEW t \in Tag, NEW n \in TagName, G!CreateTag(t, n) PROVE TagsInv'
    <3>1. 0 \in Nat OBVIOUS
    <3> QED BY <2>2, <3>1, TagWrittenStep
  <2>3. ASSUME NEW t \in Tag, NEW n \in TagName, NEW v \in 1 .. MaxTagVersion, G!UpdateTag(t, v, n) PROVE TagsInv'
    <3>1. v \in Nat OBVIOUS
    <3> QED BY <2>3, <3>1, TagWrittenStep
  <2>4. ASSUME NEW t \in Tag, NEW v \in 1 .. MaxTagVersion, G!DeleteTag(t, v) PROVE TagsInv'
    BY <2>4, DeleteTagStep
  <2>5. ASSUME NEW w \in Tagger, G!ReplaceCommits(w) PROVE TagsInv' BY <2>5, ReplaceCommitsStep
  <2>6. ASSUME NEW w \in Tagger, G!ReplaceLocks(w) \/ G!ReplaceShares(w) \/ G!ReplaceReads(w)
                                  \/ G!ReplaceClears(w) \/ G!ReplaceFails(w)
        PROVE  TagsInv'
    BY <2>6, ReplaceProceeds
  <2>7. ASSUME NEW w \in Tagger, NEW r \in Tagged, NEW ids \in SUBSET Tag, G!ReplaceBegins(w, r, ids)
        PROVE  TagsInv'
    BY <2>7, ReplaceBeginsStep
  <2>8. ASSUME NEW r \in Tagged, G!DetachResource(r) PROVE TagsInv' BY <2>8, DetachResourceStep
  <2> QED BY <1>2, <1>4, <2>1, <2>2, <2>3, <2>4, <2>5, <2>6, <2>7, <2>8 DEF G!TagsNext
<1> QED BY <1>2, <1>3, <1>4 DEF Next, vars, UsageScene, SettingsScene, AssetsScene, RatesScene, CommentsScene,
             TagsScene, KnowledgeScene, MigrationsScene, ConfigurationScene

(***************************************************************************)
(* Knowledge base.                                                         *)
(***************************************************************************)

ArticleRow == [status : {"none", "live", "gone"}, version : Nat, revision : Nat]
ArticleCopy == [id : ArticleId \cup {0}, version : Nat, revision : Nat]
Reading == [reading : BOOLEAN, after : ArticleId \cup {0}, seen : SUBSET ArticleId, stable : SUBSET ArticleId]

KnowledgeType ==
  /\ article \in [ArticleId -> ArticleRow]
  /\ copy \in [Manager -> ArticleCopy]
  /\ revisions \in Nat
  /\ page \in Reading

(* What a manager has read is not ahead of the article, and is its text    *)
(* while the version is the same.                                          *)
CopiesSound == \A m \in Manager : copy[m].id # 0 =>
  /\ article[copy[m].id].status # "none"
  /\ copy[m].version <= article[copy[m].id].version
  /\ copy[m].version = article[copy[m].id].version => copy[m].revision = article[copy[m].id].revision

(* What was there throughout is there, and is below the cursor if the      *)
(* reader has not seen it.                                                 *)
PagesSound ==
  /\ page.stable \subseteq W!Articles
  /\ page.reading => \A i \in page.stable \ page.seen : page.after = 0 \/ i < page.after
  /\ W!ArticlesAllListed

KnowledgeInv == KnowledgeType /\ CopiesSound /\ PagesSound

(* What NoLostArticle says of a step.                                      *)
NothingLost == \A m \in Manager :
  (W!UpdateArticle(m) \/ W!DeleteArticle(m)) => article[copy[m].id].revision = copy[m].revision

(* Identities are the first natural numbers.                               *)
LEMMA ArticlesNumbered ==
  /\ \E n \in Nat : ArticleId = 1 .. n
  /\ ArticleId \subseteq Nat \ {0} /\ IsFiniteSet(ArticleId)
<1>1. IsFiniteSet(ArticleId) /\ ArticleId = 1 .. Cardinality(ArticleId)
  BY ServicesAssumption DEF W!KnowledgeAssumption, W!IsFiniteSet, IsFiniteSet, W!Cardinality, Cardinality
<1>2. Cardinality(ArticleId) \in Nat BY <1>1, FS_CardinalityType
<1> QED BY <1>1, <1>2

(* No article at first.                                                    *)
LEMMA KnowledgeStart == Init => KnowledgeInv
<1> SUFFICES ASSUME W!KnowledgeInit PROVE KnowledgeInv
  BY DEF Init
<1>1. KnowledgeType
  BY DEF W!KnowledgeInit, KnowledgeType, W!NoArticle, W!NoCopy, W!NotReading, ArticleRow, ArticleCopy, Reading
<1>2. CopiesSound BY DEF W!KnowledgeInit, CopiesSound, W!NoCopy
<1>3. PagesSound BY DEF W!KnowledgeInit, PagesSound, W!NotReading, W!ArticlesAllListed
<1> QED BY <1>1, <1>2, <1>3 DEF KnowledgeInv

(* The fields of an article, of a manager's copy and of a page.            *)
LEMMA ArticleFields ==
  /\ \A a \in ArticleRow : a.status \in {"none", "live", "gone"} /\ a.version \in Nat /\ a.revision \in Nat
  /\ \A c \in ArticleCopy : c.id \in ArticleId \cup {0} /\ c.version \in Nat /\ c.revision \in Nat
  /\ \A p \in Reading : p.reading \in BOOLEAN /\ p.after \in ArticleId \cup {0}
                        /\ p.seen \in SUBSET ArticleId /\ p.stable \in SUBSET ArticleId
BY DEF ArticleRow, ArticleCopy, Reading

(* An article is written: it is a new one, or one that is there moves to   *)
(* its next version.                                                       *)
LEMMA ArticleMoves ==
  ASSUME KnowledgeInv, NEW i \in ArticleId, NEW row \in ArticleRow, row.status = "live",
         article[i].status = "none" \/ (article[i].status = "live" /\ row.version = article[i].version + 1),
         article' = [article EXCEPT ![i] = row], UNCHANGED page, revisions' \in Nat,
         \/ UNCHANGED copy
         \/ \E m \in Manager : copy' = [copy EXCEPT ![m] = W!NoCopy]
  PROVE  KnowledgeInv'
<1>0. KnowledgeType /\ CopiesSound /\ PagesSound BY DEF KnowledgeInv
<1>1. \A k \in ArticleId : article'[k] = IF k = i THEN row ELSE article[k] BY <1>0 DEF KnowledgeType
<1>2. W!NoCopy \in ArticleCopy /\ W!NoCopy.id = 0 BY DEF W!NoCopy, ArticleCopy
<1>3. KnowledgeType' BY <1>0, <1>2 DEF KnowledgeType
<1>4. \A m \in Manager : copy'[m] = copy[m] \/ copy'[m].id = 0 BY <1>0, <1>2 DEF KnowledgeType
<1>5. CopiesSound'
  <2> SUFFICES ASSUME NEW m \in Manager, copy'[m] = copy[m], copy[m].id # 0
               PROVE  /\ article'[copy[m].id].status # "none"
                      /\ copy[m].version <= article'[copy[m].id].version
                      /\ copy[m].version = article'[copy[m].id].version =>
                           copy[m].revision = article'[copy[m].id].revision
    BY <1>4 DEF CopiesSound
  <2>1. copy[m].id \in ArticleId /\ copy[m].version \in Nat /\ article[copy[m].id].version \in Nat
    BY <1>0, ArticleFields DEF KnowledgeType
  <2>2. /\ article[copy[m].id].status # "none"
        /\ copy[m].version <= article[copy[m].id].version
        /\ copy[m].version = article[copy[m].id].version => copy[m].revision = article[copy[m].id].revision
    BY <1>0 DEF CopiesSound
  <2>3. CASE copy[m].id = i
    <3>1. article'[i] = row /\ row.version = article[i].version + 1 BY <1>1, <2>2, <2>3
    <3> QED BY <2>1, <2>2, <2>3, <3>1
  <2>4. CASE copy[m].id # i BY <1>1, <2>1, <2>2, <2>4
  <2> QED BY <2>3, <2>4
<1>6. PagesSound'
  <2>1. W!Articles \subseteq W!Articles' BY <1>1 DEF W!Articles
  <2> QED BY <1>0, <2>1 DEF PagesSound, W!ArticlesAllListed
<1> QED BY <1>3, <1>5, <1>6 DEF KnowledgeInv

(* A new article comes after all that were listed.                         *)
LEMMA CreateArticleStep == ASSUME KnowledgeInv, W!CreateArticle PROVE KnowledgeInv'
<1> DEFINE free == ArticleId \ W!Written
           i == CHOOSE k \in free : \A l \in free : k <= l
           row == [status |-> "live", version |-> 1, revision |-> 0]
<1>0. KnowledgeType BY DEF KnowledgeInv
<1>1. article' = [article EXCEPT ![i] = row] /\ UNCHANGED <<copy, revisions, page>> /\ W!Written # ArticleId
  BY DEF W!CreateArticle, W!InsertArticle
<1>2. free # {} /\ free \in SUBSET Nat BY <1>1, ArticlesNumbered DEF W!Written
<1>3. \E k \in free : \A l \in free : k <= l BY <1>2, LeastExists
<1>4. i \in free BY <1>3
<1>5. i \in ArticleId /\ article[i].status = "none" BY <1>4 DEF W!Written
<1>6. row \in ArticleRow /\ row.status = "live" BY DEF ArticleRow
<1>7. revisions' \in Nat BY <1>0, <1>1 DEF KnowledgeType
<1> HIDE DEF row, i
<1> QED BY <1>1, <1>5, <1>6, <1>7, ArticleMoves

(* An update is of the revision that its manager has seen.                 *)
LEMMA UpdateArticleStep ==
  ASSUME KnowledgeInv, NEW m \in Manager, W!UpdateArticle(m)
  PROVE  KnowledgeInv' /\ article[copy[m].id].revision = copy[m].revision
<1> DEFINE i == copy[m].id
           row == [article[i] EXCEPT !.version = @ + 1, !.revision = revisions + 1]
<1>0. KnowledgeType /\ CopiesSound BY DEF KnowledgeInv
<1>1. /\ i # 0 /\ i \in W!Articles /\ article[i].version = copy[m].version
      /\ article' = [article EXCEPT ![i].version = @ + 1, ![i].revision = revisions + 1]
      /\ copy' = [copy EXCEPT ![m] = W!NoCopy] /\ revisions' = revisions + 1 /\ UNCHANGED page
  BY DEF W!UpdateArticle, W!SaveArticle, W!Matches
<1>2. i \in ArticleId /\ article[i].status = "live" /\ article[i] \in ArticleRow /\ article[i].version \in Nat
      /\ revisions + 1 \in Nat
  BY <1>0, <1>1, ArticleFields DEF W!Articles, KnowledgeType
<1>3. article \in [ArticleId -> ArticleRow] BY <1>0 DEF KnowledgeType
<1> HIDE DEF i
<1>4. article' = [article EXCEPT ![i] = row] BY <1>1, <1>3
<1>5. row \in ArticleRow /\ row.status = "live" /\ row.version = article[i].version + 1
  <2> DEFINE a == article[i]
  <2>1. a \in ArticleRow /\ a.status = "live" /\ a.version + 1 \in Nat /\ revisions + 1 \in Nat BY <1>2
  <2>2. row = [a EXCEPT !.version = a.version + 1, !.revision = revisions + 1] OBVIOUS
  <2> HIDE DEF a, row
  <2>3. row \in ArticleRow BY <2>1, <2>2 DEF ArticleRow
  <2>4. row.status = "live" BY <2>1, <2>2 DEF ArticleRow
  <2>5. row.version = a.version + 1 BY <2>1, <2>2 DEF ArticleRow
  <2> QED BY <2>3, <2>4, <2>5 DEF a
<1> HIDE DEF row
<1>6. KnowledgeInv' BY <1>1, <1>2, <1>4, <1>5, ArticleMoves
<1>7. article[i].revision = copy[m].revision BY <1>0, <1>1 DEF CopiesSound, i
<1> QED BY <1>6, <1>7 DEF i

(* A deletion: what is deleted was not there throughout.                   *)
LEMMA DeleteArticleStep ==
  ASSUME KnowledgeInv, NEW m \in Manager, W!DeleteArticle(m)
  PROVE  KnowledgeInv' /\ article[copy[m].id].revision = copy[m].revision
<1> DEFINE i == copy[m].id
           row == [article[i] EXCEPT !.status = "gone"]
           rest == [page EXCEPT !.stable = page.stable \ {i}]
<1>0. KnowledgeType /\ CopiesSound /\ PagesSound BY DEF KnowledgeInv
<1>1. /\ i # 0 /\ i \in W!Articles /\ article[i].version = copy[m].version
      /\ article' = [article EXCEPT ![i].status = "gone"]
      /\ copy' = [copy EXCEPT ![m] = W!NoCopy] /\ page' = rest /\ UNCHANGED revisions
  BY DEF W!DeleteArticle, W!EraseArticle, W!Matches
<1>2. i \in ArticleId /\ article[i] \in ArticleRow /\ page \in Reading
  BY <1>0, <1>1 DEF W!Articles, KnowledgeType
<1>3. article \in [ArticleId -> ArticleRow] /\ copy \in [Manager -> ArticleCopy] BY <1>0 DEF KnowledgeType
<1>4. /\ rest \in Reading /\ rest.reading = page.reading /\ rest.after = page.after /\ rest.seen = page.seen
      /\ rest.stable = page.stable \ {i}
  BY <1>2 DEF Reading
<1> HIDE DEF i, rest
<1>5. article' = [article EXCEPT ![i] = row] BY <1>1, <1>3
<1>6. row \in ArticleRow /\ row.status = "gone" /\ row.version = article[i].version /\ row.revision = article[i].revision
  BY <1>2 DEF ArticleRow
<1> HIDE DEF row
<1>7. W!NoCopy \in ArticleCopy /\ W!NoCopy.id = 0 BY DEF W!NoCopy, ArticleCopy
<1>8. /\ \A k \in ArticleId : article'[k] = IF k = i THEN row ELSE article[k]
      /\ \A x \in Manager : copy'[x] = IF x = m THEN W!NoCopy ELSE copy[x]
  BY <1>1, <1>3, <1>5
<1>9. KnowledgeType' BY <1>0, <1>1, <1>4, <1>5, <1>6, <1>7 DEF KnowledgeType
<1>10. CopiesSound'
  <2> SUFFICES ASSUME NEW x \in Manager, copy'[x] = copy[x], copy[x].id # 0
               PROVE  /\ article'[copy[x].id].status # "none"
                      /\ copy[x].version <= article'[copy[x].id].version
                      /\ copy[x].version = article'[copy[x].id].version =>
                           copy[x].revision = article'[copy[x].id].revision
    BY <1>7, <1>8 DEF CopiesSound
  <2>1. copy[x].id \in ArticleId BY <1>3, ArticleFields
  <2> QED BY <1>0, <1>6, <1>8, <2>1 DEF CopiesSound
<1>11. PagesSound'
  <2>1. page'.stable \subseteq W!Articles' BY <1>0, <1>1, <1>4, <1>8 DEF PagesSound, W!Articles
  <2> QED BY <1>0, <1>1, <1>4, <2>1 DEF PagesSound, W!ArticlesAllListed
<1>12. article[i].revision = copy[m].revision BY <1>0, <1>1 DEF CopiesSound, i
<1> QED BY <1>9, <1>10, <1>11, <1>12 DEF KnowledgeInv, i

(* A manager reads, or gives its copy up.                                  *)
LEMMA CopyStep ==
  ASSUME KnowledgeInv, NEW m \in Manager, W!Conflict(m) \/ \E i \in ArticleId : W!GetArticle(m, i)
  PROVE  KnowledgeInv'
<1>0. KnowledgeType /\ CopiesSound /\ PagesSound BY DEF KnowledgeInv
<1>1. PICK c \in ArticleCopy :
        /\ copy' = [copy EXCEPT ![m] = c] /\ UNCHANGED <<article, revisions, page>>
        /\ c.id # 0 => article[c.id].status # "none" /\ c.version = article[c.id].version
                       /\ c.revision = article[c.id].revision
  <2>1. CASE W!Conflict(m)
    <3>1. W!NoCopy \in ArticleCopy /\ W!NoCopy.id = 0 BY DEF W!NoCopy, ArticleCopy
    <3> QED BY <2>1, <3>1 DEF W!Conflict
  <2>2. ASSUME NEW i \in ArticleId, W!GetArticle(m, i) PROVE \E c \in ArticleCopy :
        /\ copy' = [copy EXCEPT ![m] = c] /\ UNCHANGED <<article, revisions, page>>
        /\ c.id # 0 => article[c.id].status # "none" /\ c.version = article[c.id].version
                       /\ c.revision = article[c.id].revision
    <3> DEFINE c == [id |-> i, version |-> article[i].version, revision |-> article[i].revision]
    <3>1. c \in ArticleCopy BY <1>0, ArticleFields DEF ArticleCopy, KnowledgeType
    <3>2. c.id = i /\ c.version = article[i].version /\ c.revision = article[i].revision OBVIOUS
    <3>3. article[i].status # "none" /\ copy' = [copy EXCEPT ![m] = c] /\ UNCHANGED <<article, revisions, page>>
      BY <2>2 DEF W!GetArticle, W!Articles
    <3> HIDE DEF c
    <3> QED BY <3>1, <3>2, <3>3
  <2> QED BY <2>1, <2>2
<1>2. \A x \in Manager : copy'[x] = IF x = m THEN c ELSE copy[x] BY <1>0, <1>1 DEF KnowledgeType
<1>3. KnowledgeType' BY <1>0, <1>1 DEF KnowledgeType
<1>4. CopiesSound'
  <2>1. c.version \in Nat BY ArticleFields
  <2> QED BY <1>0, <1>1, <1>2, <2>1 DEF CopiesSound
<1>5. PagesSound' BY <1>0, <1>1 DEF PagesSound, W!Articles, W!ArticlesAllListed
<1> QED BY <1>3, <1>4, <1>5 DEF KnowledgeInv

(* A page is the newest rows, all of them if there is no next one.         *)
LEMMA PageCovers ==
  ASSUME NEW set \in SUBSET ArticleId
  PROVE  /\ W!NextCursor(set) = 0 => set \subseteq W!Newest(set, ArticlePage)
         /\ W!NextCursor(set) # 0 => /\ W!NextCursor(set) \in ArticleId
                                     /\ \A i \in set \ W!Newest(set, ArticlePage) : i < W!NextCursor(set)
<1> DEFINE later(i) == {j \in set : j > i}
           newest == W!Newest(set, ArticlePage)
<1>1. \A x : W!Cardinality(x) = Cardinality(x) BY DEF W!Cardinality, Cardinality
<1>2. IsFiniteSet(set) /\ set \subseteq Nat \ {0} BY ArticlesNumbered, FS_Subset
<1>3. Cardinality(set) \in Nat /\ ArticlePage \in Nat \ {0}
  BY <1>2, FS_CardinalityType, ServicesAssumption DEF W!KnowledgeAssumption
<1>4. \A i \in set : IsFiniteSet(later(i)) /\ Cardinality(later(i)) \in Nat
  <2> SUFFICES ASSUME NEW i \in set PROVE IsFiniteSet(later(i)) /\ Cardinality(later(i)) \in Nat
    OBVIOUS
  <2>1. later(i) \in SUBSET set OBVIOUS
  <2> HIDE DEF later
  <2>2. IsFiniteSet(later(i)) BY <1>2, <2>1, FS_Subset
  <2> QED BY <2>2, FS_CardinalityType
<1>5. newest = {i \in set : Cardinality(later(i)) < ArticlePage} BY <1>1 DEF W!Newest
<1>6. W!NextCursor(set) = IF Cardinality(set) > ArticlePage
                          THEN CHOOSE i \in newest : \A j \in newest : i <= j ELSE 0
  BY <1>1 DEF W!NextCursor
<1>7. CASE Cardinality(set) <= ArticlePage
  <2>1. W!NextCursor(set) = 0 BY <1>3, <1>6, <1>7
  <2>2. ASSUME NEW i \in set PROVE i \in newest
    <3>1. later(i) \in SUBSET (set \ {i}) BY <1>2
    <3>2. IsFiniteSet(set \ {i}) /\ Cardinality(set \ {i}) = Cardinality(set) - 1
      BY <1>2, FS_RemoveElement
    <3> HIDE DEF later
    <3>3. Cardinality(later(i)) <= Cardinality(set \ {i}) BY <3>1, <3>2, FS_Subset
    <3>4. Cardinality(later(i)) < ArticlePage BY <1>3, <1>4, <1>7, <3>2, <3>3
    <3> QED BY <1>5, <3>4
  <2> QED BY <2>1, <2>2
<1>8. CASE Cardinality(set) > ArticlePage
  <2>1. set # {} BY <1>3, <1>8, FS_EmptySet
  <2>2. PICK n \in Nat : ArticleId = 1 .. n BY ArticlesNumbered
  <2>3. PICK top \in set : \A y \in set : y <= top BY <2>1, <2>2, GreatestExists
  <2>4. later(top) = {}
    <3>1. \A y \in set : y \in Int /\ y <= top /\ top \in Int BY <1>2, <2>3
    <3>2. \A y \in set : ~(y > top) BY <3>1
    <3> QED BY <3>2
  <2>5. top \in newest
    <3>1. Cardinality(later(top)) = 0 BY <2>4, FS_EmptySet
    <3> HIDE DEF later
    <3> QED BY <1>3, <1>5, <3>1
  <2>6. newest \in SUBSET Nat /\ newest \subseteq set BY <1>2, <1>5
  <2>7. PICK least \in newest : \A j \in newest : least <= j BY <2>5, <2>6, LeastExists
  <2> DEFINE cursor == CHOOSE i \in newest : \A j \in newest : i <= j
  <2>8. cursor \in newest /\ \A j \in newest : cursor <= j BY <2>7
  <2>9. W!NextCursor(set) = cursor BY <1>6, <1>8
  <2> HIDE DEF cursor
  <2>10. ASSUME NEW i \in set \ newest PROVE i < cursor
    <3> SUFFICES ASSUME ~(i < cursor) PROVE FALSE
      OBVIOUS
    <3>0. i \in Int /\ cursor \in Int /\ cursor <= i /\ \A y \in set : y \in Int BY <1>2, <2>6, <2>8
    <3>6. \A y \in set : y > i => y > cursor BY <3>0
    <3>1. later(i) \in SUBSET later(cursor) BY <3>6
    <3>2. cursor \in set BY <2>6, <2>8
    <3>3. Cardinality(later(cursor)) < ArticlePage BY <1>5, <2>8
    <3> HIDE DEF later
    <3>4. Cardinality(later(i)) <= Cardinality(later(cursor)) BY <1>4, <3>1, <3>2, FS_Subset
    <3>5. Cardinality(later(i)) < ArticlePage BY <1>3, <1>4, <3>2, <3>3, <3>4
    <3> QED BY <1>5, <3>5
  <2> QED BY <2>6, <2>8, <2>9, <2>10, <1>2
<1> QED BY <1>3, <1>7, <1>8

(* A page goes on where the one before it ended.                           *)
LEMMA ReadPageStep ==
  ASSUME KnowledgeInv, W!StartReading \/ W!ReadPage PROVE KnowledgeInv'
<1>0. KnowledgeType /\ CopiesSound /\ PagesSound BY DEF KnowledgeInv
<1>1. UNCHANGED <<article, copy, revisions>> BY DEF W!StartReading, W!ReadPage
<1>2. CopiesSound' BY <1>0, <1>1 DEF CopiesSound
<1>3. W!Articles \subseteq ArticleId BY DEF W!Articles
<1>4. CASE W!StartReading
  <2> DEFINE p == [reading |-> TRUE, after |-> 0, seen |-> {}, stable |-> W!Articles]
  <2>1. page' = p BY <1>4 DEF W!StartReading
  <2>2. p \in Reading /\ p.reading = TRUE /\ p.after = 0 /\ p.stable = W!Articles BY <1>3 DEF Reading
  <2> HIDE DEF p
  <2>3. KnowledgeType' BY <1>0, <1>1, <2>1, <2>2 DEF KnowledgeType
  <2>4. PagesSound' BY <1>1, <2>1, <2>2 DEF PagesSound, W!Articles, W!ArticlesAllListed
  <2> QED BY <1>2, <2>3, <2>4 DEF KnowledgeInv
<1>5. CASE W!ReadPage
  <2> DEFINE rows == W!Below(page.after)
             newest == W!Newest(rows, ArticlePage)
             cursor == W!NextCursor(rows)
             p == [page EXCEPT !.seen = page.seen \cup newest, !.after = cursor, !.reading = (cursor # 0)]
  <2>1. page' = p /\ page.reading BY <1>5 DEF W!ReadPage
  <2>2. rows \in SUBSET ArticleId /\ \A i \in W!Articles : (page.after = 0 \/ i < page.after) => i \in rows
    BY <1>3 DEF W!Below
  <2>3. newest \subseteq rows BY DEF W!Newest
  <2> HIDE DEF rows
  <2>4. /\ cursor = 0 => rows \subseteq newest
        /\ cursor # 0 => cursor \in ArticleId /\ \A i \in rows \ newest : i < cursor
    BY <2>2, PageCovers
  <2>5. page \in Reading /\ page.seen \in SUBSET ArticleId BY <1>0, ArticleFields DEF KnowledgeType
  <2> HIDE DEF newest, cursor
  <2>6. /\ p \in Reading /\ p.seen = page.seen \cup newest /\ p.after = cursor
        /\ p.reading = (cursor # 0) /\ p.stable = page.stable
    BY <2>2, <2>3, <2>4, <2>5 DEF Reading
  <2> HIDE DEF p
  <2>7. KnowledgeType' BY <1>0, <1>1, <2>1, <2>6 DEF KnowledgeType
  <2>8. \A i \in page.stable \ page.seen : i \in rows BY <1>0, <2>1, <2>2 DEF PagesSound
  <2>9. page'.stable \subseteq W!Articles' BY <1>0, <1>1, <2>1, <2>6 DEF PagesSound, W!Articles
  <2>10. page'.reading => \A i \in page'.stable \ page'.seen : page'.after = 0 \/ i < page'.after
    BY <2>1, <2>4, <2>6, <2>8
  <2>11. ~page'.reading => page'.stable \subseteq page'.seen BY <2>1, <2>4, <2>6, <2>8
  <2>12. PagesSound' BY <2>9, <2>10, <2>11 DEF PagesSound, W!ArticlesAllListed
  <2> QED BY <1>2, <2>7, <2>12 DEF KnowledgeInv
<1> QED BY <1>4, <1>5

(* Every step.                                                             *)
LEMMA KnowledgeStep == KnowledgeInv /\ [Next]_vars => KnowledgeInv' /\ [NothingLost]_(W!knowledgeVars)
<1> SUFFICES ASSUME KnowledgeInv, [Next]_vars PROVE KnowledgeInv' /\ [NothingLost]_(W!knowledgeVars)
  OBVIOUS
<1>1. NothingLost BY UpdateArticleStep, DeleteArticleStep DEF NothingLost
<1>2. CASE UNCHANGED knowledgeVars
  BY <1>1, <1>2 DEF knowledgeVars, KnowledgeInv, KnowledgeType, CopiesSound, PagesSound, W!Articles,
     W!ArticlesAllListed
<1>3. CASE W!KnowledgeNext
  BY <1>1, <1>3, CreateArticleStep, UpdateArticleStep, DeleteArticleStep, CopyStep, ReadPageStep
     DEF W!KnowledgeNext
<1> QED BY <1>1, <1>2, <1>3 DEF Next, vars, UsageScene, SettingsScene, AssetsScene, RatesScene, CommentsScene,
             TagsScene, KnowledgeScene, MigrationsScene, ConfigurationScene

(***************************************************************************)
(* The content plugins together.                                           *)
(***************************************************************************)

(* Threads are sound, whoever is mentioned is told and replies land on     *)
(* live roots; assignments are of tags that exist and exactly the set      *)
(* asked for; no article's update is lost and pages miss none: for any     *)
(* number of authors, requests, tags and articles, and any length of a     *)
(* page.                                                                   *)
THEOREM ContentIsSound == Spec => ContentSound
<1>1. TagsInv => G!AssignmentsSound BY DEF TagsInv
<1>2. KnowledgeInv => W!ArticlesAllListed BY DEF KnowledgeInv, PagesSound
<1>3. CommentsInv => (scene = "comments" => D!CommentsSound) BY CommentsFollow
<1> QED BY <1>1, <1>2, <1>3, CommentsStart, CommentsStep, TagsStart, TagsStep, KnowledgeStart, KnowledgeStep, PTL
        DEF Spec, ContentSound, D!RepliesOnLiveRoots, G!ReplacementIsExact, W!NoLostArticle,
            LandsOnRoots, Exactly, NothingLost
=============================================================================
