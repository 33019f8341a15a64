---------------------------- MODULE RateLimiter ----------------------------
(***************************************************************************)
(* internal/infra/ratelimit: fixed-window quotas.  Replicas share the      *)
(* buckets of a PostgreSQL table (PostgresStore); a decision that fails or *)
(* times out falls back on the failure policy, and under the "local" one   *)
(* on a bounded process-local store (MemoryStore).  Each replica clears    *)
(* expired buckets now and then, at most one clean-up at a time            *)
(* (maybeCleanup).                                                         *)
(*                                                                         *)
(* sharedSpent and localSpent count admissions in windows of their own,    *)
(* which the first request opens, also one that is never answered, and     *)
(* which no row, pruning or eviction is consulted for.                     *)
(***************************************************************************)
EXTENDS Integers, Sequences, SequencesExt, FiniteSets

CONSTANTS Identity, Replica, Desks, NoBucket,
          Quota, Window, MaxBuckets, CleanupEvery, CleanupBatch, FailureIs, MaxTime

RateLimitAssumption ==
  /\ Desks \in Nat /\ CleanupEvery \in Nat
  /\ Quota \in Nat \ {0} /\ Window \in Nat \ {0} /\ MaxBuckets \in Nat \ {0}
  /\ NoBucket \notin [hits : Nat, windowEnd : Nat] \cup [hits : Nat, resetAt : Nat]
  /\ FailureIs \in {"local", "open", "closed"}

VARIABLES
  bucket,       \* the rows of rate_limit_buckets
  local,        \* each replica's MemoryStore: buckets, recency and nextCleanupAt
  cleaner,      \* each replica's nextCleanup and cleaning, and the clean-up under way
  customer,     \* where each request is
  time,
  sharedSpent,  \* admissions per identity in the window that its first request opened
  localSpent,   \* the same for what each replica's local store admitted
  cleaned       \* the last clean-up of each replica: when it ended, and if its batch was full

rateVars == <<bucket, local, cleaner, customer, time, sharedSpent, localSpent, cleaned>>

\* The requests that are handled at once: so many on every replica.
Customer == Replica \X (1 .. Desks)
Serves(c) == c[1]

At(place) == [at |-> place, key |-> NoBucket]
NoCustomer == At("idle")

Unspent == [until |-> 0, count |-> 0]
Spent(w, admitted) ==
  LET n == IF admitted THEN 1 ELSE 0
  IN IF time >= w.until THEN [until |-> time + Window, count |-> n]
     ELSE [until |-> w.until, count |-> w.count + n]
-----------------------------------------------------------------------------
(* MemoryStore. *)

EmptyLimiter == [entries |-> [k \in Identity |-> NoBucket], recent |-> <<>>,
                 nextCleanupAt |-> Window]
Over(e) == time >= e.resetAt
RemoveEntry(s, k) == [s EXCEPT !.entries[k] = NoBucket, !.recent = Remove(@, k)]

Without(recent, gone) == SelectSeq(recent, LAMBDA k : k \notin gone)
RemoveExpired(s) ==
  LET gone == {k \in Identity : s.entries[k] # NoBucket /\ Over(s.entries[k])}
  IN [s EXCEPT !.entries = [k \in Identity |-> IF k \in gone THEN NoBucket ELSE @[k]],
               !.recent = Without(@, gone)]

CleanedUp(s) == IF time < s.nextCleanupAt THEN s
                ELSE [RemoveExpired(s) EXCEPT !.nextCleanupAt = time + Window]

\* addMostRecent and moveToMostRecent: the key is the most recent one.
MostRecent(s, k) == [s EXCEPT !.recent = <<k>> \o Remove(@, k)]

EvictLeastRecentlyUsed(s) ==
  IF Len(s.recent) < MaxBuckets THEN s ELSE RemoveEntry(s, Last(s.recent))

\* MemoryStore.Take: the store it leaves, whether the request is admitted, and who was evicted.
LocalTake(s0, k) ==
  LET swept == CleanedUp(s0)
      s == IF swept.entries[k] # NoBucket /\ Over(swept.entries[k])
             THEN RemoveEntry(swept, k) ELSE swept
      room == EvictLeastRecentlyUsed(s)
  IN IF s.entries[k] = NoBucket
       THEN [store |-> MostRecent([room EXCEPT !.entries[k] =
                                     [hits |-> 1, resetAt |-> time + Window]], k),
             allowed |-> TRUE,
             evicted |-> {x \in Identity : s.entries[x] # NoBucket /\ room.entries[x] = NoBucket}]
       ELSE [store |-> [MostRecent(s, k) EXCEPT !.entries[k].hits =
                          IF @ >= Quota THEN @ ELSE @ + 1],
             allowed |-> s.entries[k].hits < Quota,
             evicted |-> {}]
-----------------------------------------------------------------------------
(* PostgresStore. *)

\* LEAST(hits + 1, max + 1).
Saturate(hits) == IF hits + 1 > Quota + 1 THEN Quota + 1 ELSE hits + 1

\* takeBucketSQL: one atomic upsert.
TakeBucket(k) ==
  IF bucket[k] = NoBucket \/ bucket[k].windowEnd <= time
    THEN [hits |-> 1, windowEnd |-> time + Window]
  ELSE [bucket[k] EXCEPT !.hits = Saturate(@)]

\* The statement answers: admitted while the counter is within the quota.  The request then
\* looks whether a clean-up is due.
TakeShared(c) ==
  LET k == customer[c].key
      row == TakeBucket(k)
      allowed == row.hits <= Quota
  IN /\ customer[c].at = "take"
     /\ bucket' = [bucket EXCEPT ![k] = row]
     /\ sharedSpent' = [sharedSpent EXCEPT ![k] = Spent(@, allowed)]
     /\ customer' = [customer EXCEPT ![c] =
                       IF time < cleaner[Serves(c)].next THEN NoCustomer ELSE At("due")]
     /\ UNCHANGED <<local, cleaner, time, localSpent, cleaned>>

\* The statement fails or times out, maybe after it was applied: fallback decides.
TakeFails(c, applied) ==
  LET k == customer[c].key
      r == Serves(c)
      got == LocalTake(local[r], k)
  IN /\ customer[c].at = "take"
     /\ bucket' = IF applied THEN [bucket EXCEPT ![k] = TakeBucket(k)] ELSE bucket
     /\ sharedSpent' = IF applied THEN [sharedSpent EXCEPT ![k] = Spent(@, FALSE)] ELSE sharedSpent
     /\ customer' = [customer EXCEPT ![c] = NoCustomer]
     /\ IF FailureIs = "local"
          THEN /\ local' = [local EXCEPT ![r] = got.store]
               /\ localSpent' = [localSpent EXCEPT ![r] =
                    [x \in Identity |-> IF x \in got.evicted THEN Unspent
                                        ELSE IF x = k THEN Spent(@[x], got.allowed) ELSE @[x]]]
          ELSE UNCHANGED <<local, localSpent>>
     /\ UNCHANGED <<cleaner, time, cleaned>>

\* Reset: the local bucket first, then the shared row, whose deletion may fail.
Reset(c, fails) ==
  LET k == customer[c].key
      r == Serves(c)
  IN /\ customer[c].at = "take"
     /\ local' = [local EXCEPT ![r] = IF @.entries[k] = NoBucket THEN @ ELSE RemoveEntry(@, k)]
     /\ localSpent' = [localSpent EXCEPT ![r][k] = Unspent]
     /\ bucket' = IF fails THEN bucket ELSE [bucket EXCEPT ![k] = NoBucket]
     /\ sharedSpent' = IF fails THEN sharedSpent ELSE [sharedSpent EXCEPT ![k] = Unspent]
     /\ customer' = [customer EXCEPT ![c] = NoCustomer]
     /\ UNCHANGED <<cleaner, time, cleaned>>

\* Middleware: a request that is not skipped takes from its identity's bucket.
RequestArrives(c, k) ==
  /\ customer[c].at = "idle"
  /\ customer' = [customer EXCEPT ![c] = [at |-> "take", key |-> k]]
  /\ UNCHANGED <<bucket, local, cleaner, time, sharedSpent, localSpent, cleaned>>
-----------------------------------------------------------------------------
(* maybeCleanup and cleanupOnce. *)

\* cleaning.CompareAndSwap(false, true).
CleanupSwap(c) ==
  LET r == Serves(c)
  IN /\ customer[c].at = "due"
     /\ customer' = [customer EXCEPT ![c] = IF cleaner[r].cleaning THEN NoCustomer ELSE At("recheck")]
     /\ cleaner' = [cleaner EXCEPT ![r].cleaning = TRUE]
     /\ UNCHANGED <<bucket, local, time, sharedSpent, localSpent, cleaned>>

\* A mutant: the schedule is not read again once the flag is taken.
CleanupStartsAnyway(c) ==
  /\ customer[c].at = "recheck"
  /\ customer' = [customer EXCEPT ![c] = NoCustomer]
  /\ cleaner' = [cleaner EXCEPT ![Serves(c)].running = @ + 1]
  /\ UNCHANGED <<bucket, local, time, sharedSpent, localSpent, cleaned>>

\* The schedule is read again under the flag; a clean-up that is due runs in the background.
CleanupRecheck(c) ==
  LET r == Serves(c)
  IN /\ customer[c].at = "recheck"
     /\ customer' = [customer EXCEPT ![c] = NoCustomer]
     /\ cleaner' = [cleaner EXCEPT ![r] =
          IF time < @.next THEN [@ EXCEPT !.cleaning = FALSE]
          ELSE [@ EXCEPT !.running = cleaner[r].running + 1]]
     /\ UNCHANGED <<bucket, local, time, sharedSpent, localSpent, cleaned>>

Expired(k) == bucket[k] # NoBucket /\ bucket[k].windowEnd <= time

\* pruneExpired: one bounded batch, the earliest windows first.
PruneBatch(gone) ==
  /\ gone \subseteq {k \in Identity : Expired(k)}
  /\ Cardinality(gone) <= CleanupBatch
  /\ \A k \in Identity \ gone : Expired(k) =>
       /\ Cardinality(gone) = CleanupBatch
       /\ \A g \in gone : bucket[g].windowEnd <= bucket[k].windowEnd

Prune(gone) == bucket' = [k \in Identity |-> IF k \in gone THEN NoBucket ELSE bucket[k]]

\* cleanupOnce: the batch, or nothing when it fails; a full batch makes the next one due at once.
CleanupOnce(r, fails) ==
  /\ cleaner[r].running > 0
  /\ \E gone \in SUBSET Identity :
       /\ IF fails THEN gone = {} ELSE PruneBatch(gone)
       /\ LET full == ~fails /\ Cardinality(gone) >= CleanupBatch
          IN /\ cleaner' = [cleaner EXCEPT ![r] =
                  [next |-> IF full THEN time ELSE time + CleanupEvery,
                   cleaning |-> FALSE, running |-> @.running - 1]]
             /\ cleaned' = [cleaned EXCEPT ![r] = [at |-> time, full |-> full]]
       /\ Prune(gone)
  /\ UNCHANGED <<local, customer, time, sharedSpent, localSpent>>

\* PruneExpiredBuckets, one batch of the operator's command.
PruneExpiredBuckets ==
  /\ \E gone \in (SUBSET Identity) \ {{}} : PruneBatch(gone) /\ Prune(gone)
  /\ UNCHANGED <<local, cleaner, customer, time, sharedSpent, localSpent, cleaned>>

TimePasses == /\ time < MaxTime /\ time' = time + 1
              /\ UNCHANGED <<bucket, local, cleaner, customer, sharedSpent, localSpent, cleaned>>
-----------------------------------------------------------------------------
RateInit ==
  /\ bucket = [k \in Identity |-> NoBucket]
  /\ local = [r \in Replica |-> EmptyLimiter]
  /\ cleaner = [r \in Replica |-> [next |-> 0, cleaning |-> FALSE, running |-> 0]]
  /\ customer = [c \in Customer |-> NoCustomer]
  /\ time = 0
  /\ sharedSpent = [k \in Identity |-> Unspent]
  /\ localSpent = [r \in Replica |-> [k \in Identity |-> Unspent]]
  /\ cleaned = [r \in Replica |-> [at |-> 0, full |-> TRUE]]

RateNext ==
  \/ \E c \in Customer :
       \/ \E k \in Identity : RequestArrives(c, k)
       \/ TakeShared(c) \/ CleanupSwap(c) \/ CleanupRecheck(c)
       \/ \E b \in BOOLEAN : TakeFails(c, b) \/ Reset(c, b)
  \/ \E r \in Replica, b \in BOOLEAN : CleanupOnce(r, b)
  \/ PruneExpiredBuckets \/ TimePasses

RateSpec == RateInit /\ [][RateNext]_rateVars
-----------------------------------------------------------------------------
(* Within the window its first request opens, an identity is admitted at most Quota times by the  *)
(* shared store, however many replicas ask, and whatever is pruned or left unanswered in between; *)
(* and at most Quota times by each replica's local store, unless the bucket was evicted           *)
(* (takeBucketSQL, pruneBucketsSQL, MemoryStore.Take).                                            *)
QuotaKept ==
  /\ \A k \in Identity : sharedSpent[k].count <= Quota
  /\ \A r \in Replica, k \in Identity : localSpent[r][k].count <= Quota

(* A replica starts a clean-up only while it has none under way, and not before the interval is   *)
(* over, unless the last batch was full ("at most one bounded expired-bucket deletion per         *)
(* interval per process"), also when a request read the schedule before the last one ended.       *)
CleanupSpaced ==
  [][\A r \in Replica : cleaner'[r].running > cleaner[r].running =>
       /\ cleaner[r].running = 0
       /\ cleaned[r].full \/ time >= cleaned[r].at + CleanupEvery]_rateVars
=============================================================================
