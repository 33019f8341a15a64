------------------------------ MODULE EventBus ------------------------------
(***************************************************************************)
(* internal/infra/events: EventBus with its prioritised subscriptions, the *)
(* glob patterns they are matched by, and a chain of RetryMiddleware and   *)
(* TimeoutMiddleware around every handler.                                 *)
(*                                                                         *)
(* A name or pattern is the sequence of its dot-separated segments.  A     *)
(* subscription's id is its rank in the order of the Subscribe calls.      *)
(***************************************************************************)
EXTENDS Integers, Sequences, SequencesExt, FiniteSets

CONSTANTS SubscribedPattern, EventName, Priority, Publisher, MaxSubscriptions, MaxRetries

VARIABLES
  handlers,     \* EventBus.handlers
  subscribed,   \* every subscription made so far, by id
  busClosed,    \* EventBus.closed
  publication,  \* the Publish of each publisher
  strays        \* handler runs that a timeout gave up on and that still run

busVars == <<handlers, subscribed, busClosed, publication, strays>>
-----------------------------------------------------------------------------
(* Matching. *)

\* A mutant: "**" takes at least one segment.
RECURSIVE MatchPartsGreedy(_, _)
MatchPartsGreedy(pattern, event) ==
  IF pattern = <<>> THEN event = <<>>
  ELSE CASE Head(pattern) = "**" ->
              \/ Len(pattern) = 1
              \/ \E i \in 1 .. Len(event) :
                   MatchPartsGreedy(Tail(pattern), SubSeq(event, i + 1, Len(event)))
         [] Head(pattern) = "*" -> event # <<>> /\ MatchPartsGreedy(Tail(pattern), Tail(event))
         [] OTHER -> /\ event # <<>> /\ Head(pattern) = Head(event)
                     /\ MatchPartsGreedy(Tail(pattern), Tail(event))

RECURSIVE MatchParts(_, _)
MatchParts(pattern, event) ==
  IF pattern = <<>> THEN event = <<>>
  ELSE CASE Head(pattern) = "**" ->
              \/ Len(pattern) = 1
              \/ \E i \in 0 .. Len(event) :
                   MatchParts(Tail(pattern), SubSeq(event, i + 1, Len(event)))
         [] Head(pattern) = "*" -> event # <<>> /\ MatchParts(Tail(pattern), Tail(event))
         [] OTHER -> /\ event # <<>> /\ Head(pattern) = Head(event)
                     /\ MatchParts(Tail(pattern), Tail(event))

MatchPattern(pattern, event) ==
  pattern = event \/ pattern = <<"**">> \/ MatchParts(pattern, event)

(* What a pattern means: its segments divide the name into consecutive pieces, one segment each  *)
(* for a literal or "*", any number for "**".                                                    *)
Means(pattern, event) ==
  \E cut \in [0 .. Len(pattern) -> 0 .. Len(event)] :
    /\ cut[0] = 0 /\ cut[Len(pattern)] = Len(event)
    /\ \A i \in 1 .. Len(pattern) :
         CASE pattern[i] = "**" -> cut[i - 1] <= cut[i]
           [] pattern[i] = "*" -> cut[i] = cut[i - 1] + 1
           [] OTHER -> cut[i] = cut[i - 1] + 1 /\ event[cut[i]] = pattern[i]
-----------------------------------------------------------------------------
(* Subscriptions. *)

\* append and sort.SliceStable: behind every handler of its own priority or a higher one.
ByPriority(s, e) ==
  LET before == SelectSeq(s, LAMBDA x : x.priority >= e.priority)
      after == SelectSeq(s, LAMBDA x : x.priority < e.priority)
  IN before \o <<e>> \o after

Subscribe(pattern, priority, async) ==
  LET e == [id |-> Len(subscribed) + 1, pattern |-> pattern, priority |-> priority,
            async |-> async]
  IN /\ Len(subscribed) < MaxSubscriptions
     /\ handlers' = ByPriority(handlers, e)
     /\ subscribed' = Append(subscribed, e)
     /\ UNCHANGED <<busClosed, publication, strays>>

UnsubscribeByID(id) ==
  /\ \E i \in DOMAIN handlers : handlers[i].id = id
  /\ handlers' = SelectSeq(handlers, LAMBDA x : x.id # id)
  /\ UNCHANGED <<subscribed, busClosed, publication, strays>>

ClearBus ==
  /\ handlers # <<>> /\ handlers' = <<>>
  /\ UNCHANGED <<subscribed, busClosed, publication, strays>>

CloseBus ==
  /\ ~busClosed /\ busClosed' = TRUE
  /\ UNCHANGED <<handlers, subscribed, publication, strays>>
-----------------------------------------------------------------------------
(* Publish. *)

NoPublication == [at |-> "idle", event |-> <<>>, plan |-> <<>>, present |-> {},
                  called |-> <<>>, attempt |-> 0]

FindMatchingHandlers(event) == SelectSeq(handlers, LAMBDA x : MatchPattern(x.pattern, event))

\* The snapshot of the handlers, taken under the read lock.
PublishStart(p, event) ==
  /\ publication[p].at = "idle" /\ ~busClosed
  /\ publication' = [publication EXCEPT ![p] =
       [NoPublication EXCEPT !.at = "next", !.event = event,
                             !.plan = FindMatchingHandlers(event),
                             !.present = {handlers[i].id : i \in DOMAIN handlers}]]
  /\ UNCHANGED <<handlers, subscribed, busClosed, strays>>

\* The next handler of the snapshot, unless the context is canceled: an asynchronous one is
\* only started, a synchronous one is waited for.
PublishNext(p) ==
  LET q == publication[p]
      e == Head(q.plan)
  IN /\ q.at = "next" /\ q.plan # <<>>
     /\ publication' = [publication EXCEPT ![p] =
          [q EXCEPT !.called = Append(@, e.id), !.attempt = 1,
                    !.at = IF e.async THEN "next" ELSE "runs",
                    !.plan = Tail(@)]]
     /\ strays' = IF e.async THEN strays \cup {<<p, e.id, 1>>} ELSE strays
     /\ UNCHANGED <<handlers, subscribed, busClosed>>

PublishCanceled(p) ==
  /\ publication[p].at = "next" /\ publication[p].plan # <<>>
  /\ publication' = [publication EXCEPT ![p].at = "failed"]
  /\ UNCHANGED <<handlers, subscribed, busClosed, strays>>

HandlerSucceeds(p) ==
  /\ publication[p].at = "runs"
  /\ publication' = [publication EXCEPT ![p].at = "next"]
  /\ UNCHANGED <<handlers, subscribed, busClosed, strays>>

\* RetryMiddleware: another attempt after a failure, until the retries are used up or the
\* context is canceled during the back-off; then the error ends the publication.
AfterFailure(q) == {[q EXCEPT !.at = "failed"]}
                     \cup (IF q.attempt <= MaxRetries THEN {[q EXCEPT !.attempt = @ + 1]} ELSE {})

HandlerFails(p) ==
  /\ publication[p].at = "runs"
  /\ \E q \in AfterFailure(publication[p]) : publication' = [publication EXCEPT ![p] = q]
  /\ UNCHANGED <<handlers, subscribed, busClosed, strays>>

\* TimeoutMiddleware gives up on the handler, which runs on beside the next attempt.
HandlerTimesOut(p) ==
  /\ publication[p].at = "runs"
  /\ strays' = strays \cup {<<p, Last(publication[p].called), publication[p].attempt>>}
  /\ \E q \in AfterFailure(publication[p]) : publication' = [publication EXCEPT ![p] = q]
  /\ UNCHANGED <<handlers, subscribed, busClosed>>

StrayEnds(s) ==
  /\ strays' = strays \ {s}
  /\ UNCHANGED <<handlers, subscribed, busClosed, publication>>

\* Publish returns.
PublishEnds(p) ==
  /\ publication[p].at = "next" /\ publication[p].plan = <<>>
  /\ publication' = [publication EXCEPT ![p].at = "done"]
  /\ UNCHANGED <<handlers, subscribed, busClosed, strays>>

PublishForgotten(p) ==
  /\ publication[p].at \in {"done", "failed"}
  /\ ~\E s \in strays : s[1] = p
  /\ publication' = [publication EXCEPT ![p] = NoPublication]
  /\ UNCHANGED <<handlers, subscribed, busClosed, strays>>
-----------------------------------------------------------------------------
BusInit ==
  /\ handlers = <<>> /\ subscribed = <<>> /\ busClosed = FALSE
  /\ publication = [p \in Publisher |-> NoPublication]
  /\ strays = {}

BusNext ==
  \/ \E pattern \in SubscribedPattern, priority \in Priority, async \in BOOLEAN :
       Subscribe(pattern, priority, async)
  \/ \E id \in 1 .. Len(subscribed) : UnsubscribeByID(id)
  \/ ClearBus \/ CloseBus
  \/ \E p \in Publisher :
       \/ \E event \in EventName : PublishStart(p, event)
       \/ PublishNext(p) \/ PublishCanceled(p) \/ PublishEnds(p) \/ PublishForgotten(p)
       \/ HandlerSucceeds(p) \/ HandlerFails(p) \/ HandlerTimesOut(p)
  \/ \E s \in strays : StrayEnds(s)

BusSpec == BusInit /\ [][BusNext]_busVars
-----------------------------------------------------------------------------
Foremost(a, b) == \/ subscribed[a].priority > subscribed[b].priority
                  \/ subscribed[a].priority = subscribed[b].priority /\ a < b

(* A publication calls exactly the handlers that were subscribed when it began and whose pattern *)
(* means the event's name, the higher priority first and equals in the order they subscribed; it *)
(* skips none, and a failure cuts the rest off.  Handlers that come and go meanwhile change      *)
(* nothing (Subscribe's stable sort, unsubscribeByID, findMatchingHandlers, matchParts).         *)
DeliveredInOrder ==
  \A p \in Publisher :
    LET q == publication[p]
        due == SetToSortSeq({i \in q.present : Means(subscribed[i].pattern, q.event)}, Foremost)
    IN IsPrefix(q.called, due) /\ (q.at = "done" => q.called = due)
=============================================================================
