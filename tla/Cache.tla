------------------------------- MODULE Cache -------------------------------
(***************************************************************************)
(* internal/infra/cache: the bounded in-process LRU store (MemoryStore),   *)
(* whose recency list is a chain of newer/older pointers kept beside the   *)
(* entries map, and Loader.Remember, which shares one load among the       *)
(* callers that miss a key at the same time.                               *)
(*                                                                         *)
(* Every method of the store holds its mutex throughout and is one step.   *)
(* A key weighs one byte, a value weighs its number.  The order of use     *)
(* (recency) is bookkeeping of the model.                                  *)
(***************************************************************************)
EXTENDS Integers, Sequences, SequencesExt, FiniteSetsExt

CONSTANTS CacheKey, Shared, Rememberer, Nil,
          MaxEntries, MaxBytes, MaxItemBytes, CacheTTL, MaxSecond

VARIABLES
  lru,       \* the store: entries, newest, oldest and payloadBytes
  recency,   \* keys of the store, the last used first
  second,    \* the clock
  flight,    \* the load under way for the shared key, if any
  remember   \* each caller of Remember

cacheVars == <<lru, recency, second, flight, remember>>

\* The zero value of a bounded store: NewMemoryStore.
EmptyStore == [entries |-> [k \in CacheKey |-> Nil], newest |-> Nil, oldest |-> Nil,
               payloadBytes |-> 0]

\* NewMemoryStore refuses a capacity of nothing and an item that cannot fit.
CapacityAssumption == /\ MaxEntries > 0 /\ MaxItemBytes > 0
                             /\ MaxItemBytes <= MaxBytes

CacheValue == 1 .. MaxItemBytes + 1
Weight(v) == 1 + v
Kept(s) == {k \in CacheKey : s.entries[k] # Nil}
ExpiredEntry(e) == e.expiresAt # 0 /\ second >= e.expiresAt
Live(s, k) == s.entries[k] # Nil /\ ~ExpiredEntry(s.entries[k])
Fits(v) == v <= MaxItemBytes /\ Weight(v) <= MaxBytes
-----------------------------------------------------------------------------
(* The list, pointer by pointer. *)

Link(f, k, field, to) == IF k = Nil THEN f ELSE [f EXCEPT ![k][field] = to]

RemoveLocked(s, k) ==
  LET e == s.entries[k]
      linked == Link(Link(s.entries, e.newer, "older", e.older), e.older, "newer", e.newer)
  IN [entries |-> [linked EXCEPT ![k] = Nil],
      newest |-> IF e.newer = Nil THEN e.older ELSE s.newest,
      oldest |-> IF e.older = Nil THEN e.newer ELSE s.oldest,
      payloadBytes |-> s.payloadBytes - Weight(e.value)]

InsertNewestLocked(s, k, v, expires, byLoad) ==
  [entries |-> Link([s.entries EXCEPT ![k] = [value |-> v, expiresAt |-> expires, loaded |-> byLoad,
                                              newer |-> Nil, older |-> s.newest]],
                    s.newest, "newer", k),
   newest |-> k,
   oldest |-> IF s.newest = Nil THEN k ELSE s.oldest,
   payloadBytes |-> s.payloadBytes + Weight(v)]

\* A mutant: the entry that was the oldest is still taken for it after it was used.
MoveKeepsOldest(s, k) ==
  LET e == s.entries[k]
      linked == Link(Link(s.entries, e.newer, "older", e.older), e.older, "newer", e.newer)
      moved == [linked EXCEPT ![k].newer = Nil, ![k].older = s.newest]
  IN IF k = s.newest THEN s
     ELSE [s EXCEPT !.entries = Link(moved, s.newest, "newer", k), !.newest = k]

MoveToNewestLocked(s, k) ==
  LET e == s.entries[k]
      linked == Link(Link(s.entries, e.newer, "older", e.older), e.older, "newer", e.newer)
      moved == [linked EXCEPT ![k].newer = Nil, ![k].older = s.newest]
  IN IF k = s.newest THEN s
     ELSE [s EXCEPT !.entries = Link(moved, s.newest, "newer", k), !.newest = k,
                    !.oldest = IF e.older = Nil THEN e.newer ELSE s.oldest]

RECURSIVE MakeRoomLocked(_, _)
MakeRoomLocked(s, weight) ==
  IF Cardinality(Kept(s)) < MaxEntries /\ s.payloadBytes + weight <= MaxBytes THEN s
  ELSE MakeRoomLocked(RemoveLocked(s, s.oldest), weight)

Without(s, k) == IF s.entries[k] = Nil THEN s ELSE RemoveLocked(s, k)

Put(s, k, v, expires, byLoad) ==
  InsertNewestLocked(MakeRoomLocked(Without(s, k), Weight(v)), k, v, expires, byLoad)

\* What the keys' order of use becomes: the used one first, the evicted ones cut off.
UsedNow(s, k) == SelectSeq(<<k>> \o Remove(recency, k), LAMBDA x : s.entries[x] # Nil)
Store1(s, k) == lru' = s /\ recency' = UsedNow(s, k)
-----------------------------------------------------------------------------
(* The store's methods, called by anyone. *)

\* Get: an expired entry is removed where it is met; a live one is used.
AfterGet(k) == IF Live(lru, k) THEN MoveToNewestLocked(lru, k) ELSE Without(lru, k)
Get(k) == Store1(AfterGet(k), k) /\ UNCHANGED <<second, flight, remember>>

\* Set and SetForever.
Set(k, v, ttl) ==
  /\ Fits(v)
  /\ Store1(Put(lru, k, v, IF ttl = 0 THEN 0 ELSE second + ttl, FALSE), k)
  /\ UNCHANGED <<second, flight, remember>>

\* Add: only when no live value exists; what is there is used all the same.
Add(k, v) ==
  /\ Fits(v)
  /\ Store1(IF Live(lru, k) THEN MoveToNewestLocked(lru, k)
            ELSE Put(lru, k, v, second + CacheTTL, FALSE), k)
  /\ UNCHANGED <<second, flight, remember>>

\* Take and Delete: the entry is gone, expired or not.
TakeAway(k) ==
  /\ lru.entries[k] # Nil
  /\ Store1(RemoveLocked(lru, k), k)
  /\ UNCHANGED <<second, flight, remember>>

Clear ==
  /\ lru' = EmptyStore /\ recency' = <<>>
  /\ UNCHANGED <<second, flight, remember>>

\* Stats and Len sweep the expired entries out first.
Stats ==
  LET gone == {k \in Kept(lru) : ExpiredEntry(lru.entries[k])}
  IN /\ lru' = FoldSet(LAMBDA k, s : RemoveLocked(s, k), lru, gone)
     /\ recency' = SelectSeq(recency, LAMBDA k : k \notin gone)
     /\ UNCHANGED <<second, flight, remember>>

Tick == second < MaxSecond /\ second' = second + 1 /\ UNCHANGED <<lru, recency, flight, remember>>
-----------------------------------------------------------------------------
(* Loader.Remember of the shared key. *)

\* The first look-up: a hit returns, a miss goes on to the shared flight.
RememberLooks(c) ==
  /\ remember[c].at = "idle" /\ remember[c].live
  /\ Store1(AfterGet(Shared), Shared)
  /\ remember' = [remember EXCEPT ![c].at = IF Live(lru, Shared) THEN "idle" ELSE "missed"]
  /\ UNCHANGED <<second, flight>>

\* DoChan: the caller joins the flight of the key, or starts it with its own context.
RememberJoins(c) ==
  /\ remember[c].at = "missed"
  /\ remember' = [remember EXCEPT ![c].at = "waiting"]
  /\ flight' = IF flight = Nil THEN [leader |-> c, at |-> "check", live |-> remember[c].live] ELSE flight
  /\ UNCHANGED <<lru, recency, second>>

\* The flight ends and every caller that waits for it is answered.
FlightEnds ==
  /\ flight' = Nil
  /\ remember' = [c \in Rememberer |->
                    IF remember[c].at = "waiting" THEN [remember[c] EXCEPT !.at = "answered"]
                    ELSE remember[c]]

\* Inside the flight the store is asked again: another flight may have filled it since.
FlightChecks ==
  /\ flight # Nil /\ flight.at = "check"
  /\ \/ /\ flight.live /\ ~Live(lru, Shared)
        /\ flight' = [flight EXCEPT !.at = "load"]
        /\ Store1(AfterGet(Shared), Shared) /\ UNCHANGED remember
     \/ /\ flight.live /\ Live(lru, Shared)
        /\ Store1(AfterGet(Shared), Shared) /\ FlightEnds
     \/ ~flight.live /\ FlightEnds /\ UNCHANGED <<lru, recency>>
  /\ UNCHANGED second

\* load(ctx) returns a value, or an error that every caller gets.
FlightLoads ==
  /\ flight # Nil /\ flight.at = "load"
  /\ \/ flight' = [flight EXCEPT !.at = "set"] /\ UNCHANGED remember
     \/ FlightEnds
  /\ UNCHANGED <<lru, recency, second>>

\* store.Set under the leader's context, which may be canceled, with a value that may be too large.
FlightStores ==
  /\ flight # Nil /\ flight.at = "set"
  /\ FlightEnds
  /\ \/ \E v \in CacheValue : /\ flight.live /\ Fits(v)
                              /\ Store1(Put(lru, Shared, v, second + CacheTTL, TRUE), Shared)
     \/ (~flight.live \/ \E v \in CacheValue : ~Fits(v)) /\ UNCHANGED <<lru, recency>>
  /\ UNCHANGED second

\* The select: the answer, or the end of the caller's own context.
RememberReturns(c) ==
  /\ \/ remember[c].at = "answered"
     \/ remember[c].at = "waiting" /\ ~remember[c].live
  /\ remember' = [remember EXCEPT ![c] = [at |-> "idle", live |-> TRUE]]
  /\ flight' = IF flight # Nil /\ flight.leader = c THEN [flight EXCEPT !.leader = Nil]
               ELSE flight
  /\ UNCHANGED <<lru, recency, second>>

\* The caller's context is canceled; the load it started runs under the same context.
RememberCanceled(c) ==
  /\ remember[c].at \in {"missed", "waiting"} /\ remember[c].live
  /\ remember' = [remember EXCEPT ![c].live = FALSE]
  /\ flight' = IF flight # Nil /\ flight.leader = c THEN [flight EXCEPT !.live = FALSE]
               ELSE flight
  /\ UNCHANGED <<lru, recency, second>>
-----------------------------------------------------------------------------
CacheInit ==
  /\ lru = EmptyStore
  /\ recency = <<>>
  /\ second = 0
  /\ flight = Nil
  /\ remember = [c \in Rememberer |-> [at |-> "idle", live |-> TRUE]]

CacheStoreNext ==
  \/ \E k \in CacheKey :
       \/ Get(k) \/ TakeAway(k)
       \/ \E v \in CacheValue : Add(k, v) \/ \E ttl \in {0, CacheTTL} : Set(k, v, ttl)
  \/ Clear \/ Stats \/ Tick

CacheLoaderNext ==
  \/ \E c \in Rememberer : RememberLooks(c) \/ RememberJoins(c) \/ RememberReturns(c)
                            \/ RememberCanceled(c)
  \/ FlightChecks \/ FlightLoads \/ FlightStores

CacheNext == CacheStoreNext \/ CacheLoaderNext

CacheSpec == CacheInit /\ [][CacheNext]_cacheVars
-----------------------------------------------------------------------------
RECURSIVE Walk(_, _)
Walk(k, field) == IF k = Nil THEN <<>> ELSE <<k>> \o Walk(lru.entries[k][field], field)

(* The chain of pointers, followed from either end, is the keys of the map in their order of     *)
(* use, so makeRoomLocked evicts the least recently used and never leaves an entry that no       *)
(* eviction can reach; and payloadBytes is what the entries weigh, within both limits            *)
(* (insertNewestLocked, moveToNewestLocked, removeLocked and every path that calls them).        *)
ListIsRecency ==
  /\ Walk(lru.newest, "older") = recency
  /\ Walk(lru.oldest, "newer") = Reverse(recency)
  /\ Kept(lru) = ToSet(recency) /\ Len(recency) <= MaxEntries
  /\ lru.payloadBytes = MapThenSumSet(LAMBDA k : Weight(lru.entries[k].value), Kept(lru))
  /\ lru.payloadBytes <= MaxBytes

(* Two misses never load twice: while a flight loads, the store holds no live value that an      *)
(* earlier flight loaded, also when the caller missed before that flight ended (Remember asks    *)
(* the store again inside the flight).                                                           *)
NoRedundantLoad ==
  flight # Nil /\ flight.at \in {"load", "set"} =>
    ~(Live(lru, Shared) /\ lru.entries[Shared].loaded)
=============================================================================
