-------------------------------- MODULE Usage --------------------------------
(* Metered usage of one subject and one metric (api/internal/modules/usage): *)
(* events are applied once per key, in a transaction that reserves the key, *)
(* locks the owner's row, and moves the counter of the event's period.      *)
EXTENDS Integers

CONSTANTS
  EventId,       \* (source, event id) pairs
  Amount,        \* amounts callers ask for
  Meter,         \* processes that apply events
  MaxSafe,       \* maxSafeUsageInteger
  DefaultLimit,  \* the catalog's limit, or NoLimit
  NoLimit,
  MaxEventAge,   \* usageMaxEventAge
  FutureSkew,    \* usageMaxFutureSkew
  Retention,     \* usageReceiptRetention
  Period,        \* length of a period
  MaxMoment,     \* bound: the clock stops here
  MaxQuotas      \* bound: versions of the quota

UsageAssumption ==
  /\ Amount \subseteq Nat \ {0} /\ MaxSafe \in Nat /\ DefaultLimit \in (0 .. MaxSafe) \cup {NoLimit}
  /\ MaxEventAge \in Nat /\ FutureSkew \in Nat /\ Retention \in Nat /\ Period \in Nat \ {0}
  /\ MaxEventAge + FutureSkew <= Retention

VARIABLES
  receipt,   \* rows of usage_events
  counter,   \* rows of usage_counters: value and version per period
  quota,     \* the row of usage_quotas
  owner,     \* the subject: "live", "deleting" or "deleted"
  meter,     \* transactions under way
  moment,    \* the time
  total,     \* history: quantities that took effect, per period
  recorded,  \* history: records that took effect
  recounted  \* history: a record took effect twice

usageVars == <<receipt, counter, quota, owner, meter, moment, total, recorded, recounted>>

NoReceipt == [known |-> FALSE]
NoCounter == [value |-> 0, version |-> 0]
NoQuota == [version |-> 0, limit |-> NoLimit, overridden |-> FALSE]
Idle == [phase |-> "idle"]

(* usagePeriodWindow *)
PeriodOf(t) == t \div Period
Periods == 0 .. PeriodOf(MaxMoment + FutureSkew)

UsageInit ==
  /\ receipt = [k \in EventId |-> NoReceipt]
  /\ counter = [d \in Periods |-> NoCounter]
  /\ quota = NoQuota
  /\ owner = "live"
  /\ meter = [p \in Meter |-> Idle]
  /\ moment = 0
  /\ total = [d \in Periods |-> 0]
  /\ recorded = {}
  /\ recounted = FALSE

-----------------------------------------------------------------------------
(* Requests.                                                               *)

(* normalizeRecord: any sign, an instant near the present. *)
RecordRequests ==
  [op : {"record"}, key : EventId, qty : Amount \cup {-a : a \in Amount},
   at : {t \in 0 .. moment + FutureSkew : t >= moment - MaxEventAge}]

(* normalizeConsumption: a positive amount, at the time of the server. *)
ConsumeRequests ==
  [op : {"consume"}, key : EventId, qty : Amount, at : {moment}]

(* addSafeUsageQuantity *)
SafeSum(current, qty) == current + qty \in 0 .. MaxSafe

(* effectiveUsageQuota, and the limit Apply reads *)
EffectiveLimit(q) == IF q.overridden THEN q.limit ELSE DefaultLimit

-----------------------------------------------------------------------------
(* Row locks on the owner, as PostgreSQL conflicts them.                   *)
LockConflict(a, b) ==
  {a, b} \in {{"KEY SHARE", "UPDATE"}, {"NO KEY UPDATE", "UPDATE"}, {"NO KEY UPDATE"}, {"UPDATE"}}

(* ownerLockQuery *)
OwnerLock == "NO KEY UPDATE"

(* The receipt's foreign key holds KEY SHARE. *)
OwnerLocks(p) ==
  CASE meter[p].phase = "reserved" -> {"KEY SHARE"}
    [] meter[p].phase = "read" -> {"KEY SHARE", OwnerLock}
    [] OTHER -> {}

(* Beside the transactions of own, the lock conflicts with none that is held. *)
Grantable(mode, own) ==
  /\ owner # "deleting"
  /\ \A q \in Meter \ own : \A held \in OwnerLocks(q) : ~LockConflict(mode, held)

-----------------------------------------------------------------------------
(* Apply. A key that is known is answered with its receipt, or refused if  *)
(* the fingerprint of its content differs: nothing changes either way, so  *)
(* the fingerprint is left out. A key under way is waited for. The request *)
(* is checked and its pending receipt is inserted in one moment: the code's *)
(* retention (90 days) leaves far more room than an INSERT takes.          *)
Reserve(p, m) ==
  /\ meter[p] = Idle
  /\ ~receipt[m.key].known
  /\ \A q \in Meter : meter[q] # Idle => meter[q].m.key # m.key
  /\ Grantable("KEY SHARE", {p})
  /\ meter' = [meter EXCEPT ![p] = [phase |-> "reserved", m |-> m, created |-> moment]]
  /\ UNCHANGED <<receipt, counter, quota, owner, moment, total, recorded, recounted>>

(* lockUsageOwner, then the quota and the counter are read. *)
LockOwner(p) ==
  /\ meter[p].phase = "reserved"
  /\ Grantable(OwnerLock, {p})
  /\ meter' = [meter EXCEPT ![p] =
       IF owner = "deleted" THEN Idle
       ELSE [phase |-> "read", m |-> @.m, created |-> @.created,
             limit |-> EffectiveLimit(quota), before |-> counter[PeriodOf(@.m.at)]]]
  /\ UNCHANGED <<receipt, counter, quota, owner, moment, total, recorded, recounted>>

Denied(tx) ==
  tx.m.op = "consume" /\ tx.limit # NoLimit /\ tx.before.value + tx.m.qty > tx.limit

(* The counter moves unless the event is denied, and the receipt is final. *)
(* The row must still have the version that was read (or not be there).    *)
Settle(p) ==
  LET tx == meter[p] m == tx.m d == PeriodOf(m.at) IN
  /\ tx.phase = "read"
  /\ SafeSum(tx.before.value, m.qty)
  /\ receipt' = [receipt EXCEPT ![m.key] =
       [known |-> TRUE, created |-> tx.created,
        decision |-> IF Denied(tx) THEN "denied" ELSE "accepted"]]
  /\ \/ Denied(tx) /\ UNCHANGED <<counter, total, recorded, recounted>>
     \/ /\ ~Denied(tx)
        /\ counter[d].version = tx.before.version
        /\ counter' = [counter EXCEPT ![d] = [value |-> tx.before.value + m.qty,
                                             version |-> tx.before.version + 1]]
        /\ total' = [total EXCEPT ![d] = @ + m.qty]
        /\ recorded' = recorded \cup IF m.op = "record" THEN {m} ELSE {}
        /\ recounted' = (recounted \/ m \in recorded)
  /\ meter' = [meter EXCEPT ![p] = Idle]
  /\ UNCHANGED <<quota, owner, moment>>

(* The transaction is rolled back: an unsafe sum, a counter of another     *)
(* version, an error, a lost server.                                       *)
RollBack(p) ==
  /\ meter[p] # Idle
  /\ meter' = [meter EXCEPT ![p] = Idle]
  /\ UNCHANGED <<receipt, counter, quota, owner, moment, total, recorded, recounted>>

-----------------------------------------------------------------------------
(* Quotas and maintenance.                                                 *)

(* SetQuota: the version must be the one the caller saw. *)
SetQuota(limit, expected) ==
  /\ owner = "live" /\ Grantable(OwnerLock, {})
  /\ quota.version = expected /\ expected < MaxQuotas
  /\ ~(quota.overridden /\ quota.limit = limit)
  /\ quota' = [version |-> expected + 1, limit |-> limit, overridden |-> TRUE]
  /\ UNCHANGED <<receipt, counter, owner, meter, moment, total, recorded, recounted>>

ResetQuota(expected) ==
  /\ owner = "live" /\ Grantable(OwnerLock, {})
  /\ quota.version = expected /\ expected < MaxQuotas /\ quota.overridden
  /\ quota' = [version |-> expected + 1, limit |-> NoLimit, overridden |-> FALSE]
  /\ UNCHANGED <<receipt, counter, owner, meter, moment, total, recorded, recounted>>

(* Mutant of PruneReceipts: the cutoff is not held back. *)
PruneAnyReceipts(cutoff) ==
  /\ cutoff <= moment
  /\ receipt' = [k \in EventId |->
       IF receipt[k].known /\ receipt[k].created < cutoff THEN NoReceipt ELSE receipt[k]]
  /\ UNCHANGED <<counter, quota, owner, meter, moment, total, recorded, recounted>>

(* PruneUsageReceipts: never younger than the retention. *)
PruneReceipts(cutoff) ==
  /\ cutoff <= moment - Retention
  /\ receipt' = [k \in EventId |->
       IF receipt[k].known /\ receipt[k].created < cutoff THEN NoReceipt ELSE receipt[k]]
  /\ UNCHANGED <<counter, quota, owner, meter, moment, total, recorded, recounted>>

(* DeleteAccount locks the user's row, runs the cleaners (that of usage is *)
(* DeleteForUser), and marks the row deleted: it stays, so that a receipt  *)
(* can still refer to it, but is not found any more.                       *)
LockDeleted ==
  /\ owner = "live" /\ Grantable("UPDATE", {})
  /\ owner' = "deleting"
  /\ UNCHANGED <<receipt, counter, quota, meter, moment, total, recorded, recounted>>

(* A cleaner or the deletion itself fails, and all of it is rolled back.   *)
DeletionRollBack ==
  /\ owner = "deleting" /\ owner' = "live"
  /\ UNCHANGED <<receipt, counter, quota, meter, moment, total, recorded, recounted>>

DeleteForUser ==
  /\ owner = "deleting" /\ owner' = "deleted"
  /\ receipt' = [k \in EventId |-> NoReceipt]
  /\ counter' = [d \in Periods |-> NoCounter]
  /\ quota' = NoQuota
  /\ total' = [d \in Periods |-> 0]
  /\ UNCHANGED <<meter, moment, recorded, recounted>>

UsageTick ==
  /\ moment < MaxMoment /\ moment' = moment + 1
  /\ UNCHANGED <<receipt, counter, quota, owner, meter, total, recorded, recounted>>

-----------------------------------------------------------------------------
RecordUsage(p) == \E m \in RecordRequests : Reserve(p, m)
ConsumeUsage(p) == \E m \in ConsumeRequests : Reserve(p, m)
Apply(p) == LockOwner(p) \/ Settle(p) \/ RollBack(p)

QuotaRequest ==
  \E expected \in 0 .. MaxQuotas : \/ \E limit \in 0 .. MaxSafe : SetQuota(limit, expected)
                                   \/ ResetQuota(expected)

UsageNext ==
  \/ \E p \in Meter : RecordUsage(p) \/ ConsumeUsage(p) \/ Apply(p)
  \/ QuotaRequest
  \/ \E cutoff \in 0 .. MaxMoment : PruneReceipts(cutoff)
  \/ LockDeleted \/ DeleteForUser \/ DeletionRollBack
  \/ UsageTick

UsageSpec == UsageInit /\ [][UsageNext]_usageVars

-----------------------------------------------------------------------------
(* A counter is the sum of what took effect: no update of two transactions *)
(* on one owner is lost.                                                   *)
CounterExact == \A d \in Periods : counter[d].value = total[d]

(* A recorded fact counts once, however often it is sent again and however *)
(* its receipts are pruned: the retention outlasts the age of an event.    *)
RecordedOnce == ~recounted

(* No data of a deleted user is left or comes back. *)
NothingAfterDeletion ==
  owner = "deleted" => /\ \A k \in EventId : ~receipt[k].known
                       /\ \A d \in Periods : counter[d] = NoCounter
                       /\ quota = NoQuota

(* No two transactions wait for each other's lock on the owner. *)
Waits(p, q) ==
  /\ meter[p].phase = "reserved"
  /\ \E held \in OwnerLocks(q) : LockConflict(OwnerLock, held)
NoLockCycle == \A p, q \in Meter : p # q => ~(Waits(p, q) /\ Waits(q, p))

(* A step that adds to a counter and is not a recorded fact stays within   *)
(* the limit in force, whatever quota changes run beside it.               *)
ConsumedWithin(d) ==
  (counter'[d].value > counter[d].value /\ recorded' = recorded /\ ~recounted')
    => EffectiveLimit(quota) = NoLimit \/ counter'[d].value <= EffectiveLimit(quota)
QuotaHeld == [][\A d \in Periods : ConsumedWithin(d)]_usageVars
=============================================================================
