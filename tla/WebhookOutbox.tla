--------------------------- MODULE WebhookOutbox ---------------------------
(* Outbound webhooks (api/internal/modules/webhook): endpoints, the outbox *)
(* of events and deliveries, and the workers that send them under a lease. *)
(* A transaction whose rows are locked is one action; Publish and Prune    *)
(* read without locks, so their reads and writes are separate actions.     *)
(* The passing of time is a flag that an action of its own flips.          *)
EXTENDS Naturals, FiniteSets, TLC

CONSTANTS
  Endpoint, Event, Type, Url, Worker,
  MaxAttempts,   \* webhookMaximumAttempts
  DisableAfter,  \* webhookDisableAfterFailure
  MaxReplays,    \* the limit of replay_count
  Batch,         \* the limit of one dispatch
  PruneBatch,    \* webhookPruneBatch
  MaxVersion,    \* bound: changes of an endpoint
  MaxClaims      \* bound: batches claimed

ASSUME OutboxAssumption ==
  /\ MaxAttempts \in Nat \ {0} /\ DisableAfter \in Nat \ {0}
  /\ MaxReplays \in Nat /\ Batch \in Nat \ {0} /\ PruneBatch \in Nat \ {0}
  /\ "none" \notin Type   \* the mark of an event that is not there

VARIABLES
  endpoint,   \* rows of webhook_endpoints with their subscriptions
  event,      \* webhook_events: the type (and content) published, or "none"
  publishing, \* the open Publish transaction of an event
  delivery,   \* rows of webhook_deliveries
  attempts,   \* numbers in webhook_delivery_attempts
  pruning,    \* the open Prune transaction: its old events, the ids selected
  batch,      \* claims that a worker still has to dispatch
  claims,     \* lease tokens drawn so far, one per batch
  accepted    \* history: urls that answered 2xx in this cycle of a delivery

vars == <<endpoint, event, publishing, delivery, attempts, pruning, batch,
          claims, accepted>>

Delivery == Event \X Endpoint
EventOf(d) == d[1]
EndpointOf(d) == d[2]

Terminal == {"delivered", "failed", "canceled"}
Open == {"pending", "processing"}

(* secret and previous are secret versions, 0 for an empty column; lapsed  *)
(* says that previous_secret_valid_until has passed.                       *)
NoEndpoint == [status |-> "absent", url |-> "none", types |-> {}, version |-> 0,
               failures |-> 0, secret |-> 0, previous |-> 0, lapsed |-> FALSE]
NoDelivery == [status |-> "absent", dest |-> "none", count |-> 0, cycle |-> 0,
               replays |-> 0, due |-> FALSE, token |-> 0, expired |-> FALSE]
NoPublication == [type |-> "none", to |-> {}]
NoPrune == [open |-> FALSE, old |-> {}, ids |-> {}]

Init ==
  /\ endpoint = [e \in Endpoint |-> NoEndpoint]
  /\ event = [v \in Event |-> "none"]
  /\ publishing = [v \in Event |-> NoPublication]
  /\ delivery = [d \in Delivery |-> NoDelivery]
  /\ attempts = [d \in Delivery |-> {}]
  /\ pruning = NoPrune
  /\ batch = [w \in Worker |-> {}]
  /\ claims = 0
  /\ accepted = [d \in Delivery |-> {}]

-----------------------------------------------------------------------------
(* Endpoints. A manager names the version it has read; any other is a     *)
(* conflict and changes nothing, so the version here is the row's.         *)

(* normalizeEndpointInput: subscribed to something, and a url that the     *)
(* target policy accepts when it is registered.                            *)
ValidInput(ts, u) == ts # {} /\ u \in Url

(* findEndpointForUpdate and the comparison of versions. *)
Changeable(e) ==
  /\ endpoint[e].status \in {"active", "disabled"}
  /\ endpoint[e].version < MaxVersion

(* cancelOpenDeliveries of endpoint e, in a table of deliveries. *)
CanceledOpen(rows, e) ==
  [d \in Delivery |->
     IF EndpointOf(d) = e /\ rows[d].status \in Open
     THEN [rows[d] EXCEPT !.status = "canceled", !.token = 0, !.expired = FALSE]
     ELSE rows[d]]

CreateEndpoint(e, ts, u) ==
  /\ endpoint[e].status = "absent"
  /\ ValidInput(ts, u)
  /\ endpoint' = [endpoint EXCEPT ![e] =
       [NoEndpoint EXCEPT !.status = "active", !.url = u, !.types = ts,
                          !.version = 1, !.secret = 1]]
  /\ UNCHANGED <<event, publishing, delivery, attempts, pruning, batch, claims,
                 accepted>>

UpdateEndpoint(e, ts, u) ==
  /\ Changeable(e) /\ ValidInput(ts, u)
  /\ endpoint' = [endpoint EXCEPT ![e].url = u, ![e].types = ts, ![e].version = @ + 1]
  /\ delivery' = IF u # endpoint[e].url THEN CanceledOpen(delivery, e) ELSE delivery
  /\ UNCHANGED <<event, publishing, attempts, pruning, batch, claims,
                 accepted>>

ReplaceEndpointStatus(e, enabled) ==
  /\ Changeable(e)
  /\ endpoint' = [endpoint EXCEPT ![e].status = IF enabled THEN "active" ELSE "disabled",
                                  ![e].failures = 0, ![e].version = @ + 1]
  /\ delivery' = IF enabled THEN delivery ELSE CanceledOpen(delivery, e)
  /\ UNCHANGED <<event, publishing, attempts, pruning, batch, claims,
                 accepted>>

DeleteEndpoint(e) ==
  /\ Changeable(e)
  /\ endpoint' = [endpoint EXCEPT
       ![e] = [NoEndpoint EXCEPT !.status = "deleted", !.version = endpoint[e].version + 1,
                                 !.failures = endpoint[e].failures]]
  /\ delivery' = CanceledOpen(delivery, e)
  /\ UNCHANGED <<event, publishing, attempts, pruning, batch, claims,
                 accepted>>

(* The secret in use stays valid beside the new one for the overlap.       *)
RotateEndpointSecret(e) ==
  /\ Changeable(e)
  /\ endpoint' = [endpoint EXCEPT ![e].version = @ + 1, ![e].secret = @ + 1,
                                  ![e].previous = endpoint[e].secret, ![e].lapsed = FALSE]
  /\ UNCHANGED <<event, publishing, delivery, attempts, pruning, batch, claims,
                 accepted>>

-----------------------------------------------------------------------------
(* Publication. A key that is published again with the same content is     *)
(* answered from the ledger, with other content refused: nothing changes.  *)

(* subscribedEndpoints, read without a lock. *)
SubscribedEndpoints(t) ==
  {e \in Endpoint : endpoint[e].status = "active" /\ t \in endpoint[e].types}

(* The INSERT of the event, and the SELECT of endpoints. A test names its  *)
(* endpoint and is refused unless that one is subscribed.                  *)
PublishRead(v, t, target) ==
  /\ event[v] = "none" /\ publishing[v] = NoPublication
  /\ target # {} => target \subseteq SubscribedEndpoints(t)
  /\ publishing' = [publishing EXCEPT ![v] =
       [type |-> t,
        to |-> {<<e, endpoint[e].url>> : e \in
                  IF target = {} THEN SubscribedEndpoints(t) ELSE target}]]
  /\ UNCHANGED <<endpoint, event, delivery, attempts, pruning, batch, claims,
                 accepted>>

(* The INSERT of the deliveries, and the commit. *)
PublishCommit(v) ==
  /\ publishing[v] # NoPublication
  /\ event' = [event EXCEPT ![v] = publishing[v].type]
  /\ delivery' = [d \in Delivery |->
       IF \E u \in Url : EventOf(d) = v /\ <<EndpointOf(d), u>> \in publishing[v].to
       THEN [NoDelivery EXCEPT !.status = "pending", !.due = TRUE,
               !.dest = CHOOSE u \in Url : <<EndpointOf(d), u>> \in publishing[v].to]
       ELSE delivery[d]]
  /\ publishing' = [publishing EXCEPT ![v] = NoPublication]
  /\ UNCHANGED <<endpoint, attempts, pruning, batch, claims, accepted>>

(* A statement fails, or the transaction of the caller that Publish joined *)
(* is rolled back: neither the event nor a delivery is there.              *)
PublishRollback(v) ==
  /\ publishing[v] # NoPublication
  /\ publishing' = [publishing EXCEPT ![v] = NoPublication]
  /\ UNCHANGED <<endpoint, event, delivery, attempts, pruning, batch, claims,
                 accepted>>

-----------------------------------------------------------------------------
(* Workers.                                                                *)

(* Leases that have run out are given back first. *)
Recovered ==
  [d \in Delivery |->
     IF delivery[d].status = "processing" /\ delivery[d].expired
     THEN [delivery[d] EXCEPT !.status = "pending", !.token = 0, !.expired = FALSE]
     ELSE delivery[d]]

(* Pending deliveries that are due; the join locks their endpoints too.    *)
Due == {d \in Delivery : /\ Recovered[d].status = "pending" /\ Recovered[d].due
                         /\ endpoint[EndpointOf(d)].status = "active"}

(* What a claim has read. (The secrets it carries sign the request, which  *)
(* no later step looks at.)                                                *)
Claim(d) ==
  [d |-> d, token |-> claims + 1, number |-> delivery[d].count + 1,
   cycle |-> delivery[d].cycle + 1, dest |-> delivery[d].dest,
   url |-> endpoint[EndpointOf(d)].url, result |-> "none"]

(* A batch S: the query skips rows that another transaction has locked, so *)
(* it may take fewer than are due.                                         *)
ClaimDue(w, S) ==
  /\ batch[w] = {} /\ claims < MaxClaims
  /\ S \subseteq Due /\ Cardinality(S) <= Batch
  /\ S # {} \/ Recovered # delivery
  /\ delivery' = [d \in Delivery |->
       IF d \in S
       THEN [Recovered[d] EXCEPT !.status = "processing", !.count = @ + 1,
                                 !.cycle = @ + 1, !.token = claims + 1]
       ELSE Recovered[d]]
  /\ batch' = [batch EXCEPT ![w] = {Claim(d) : d \in S}]
  /\ claims' = claims + 1
  /\ UNCHANGED <<endpoint, event, publishing, attempts, pruning, accepted>>

(* The claims of a batch are dispatched one after the other. *)
Current(w, c) ==
  c \in batch[w] /\ \A b \in batch[w] : b # c => b.result = "none"

Answered(w, c, result) ==
  batch' = [batch EXCEPT ![w] = (@ \ {c}) \cup {[c EXCEPT !.result = result]}]

(* What a request comes to: accepted, worth another try, or final. *)
Results == {"ok", "retry", "refused"}

(* dispatch and Send: a claim whose endpoint had moved on fails unsent;    *)
(* else the receiver accepts, refuses (so does the target policy, for a    *)
(* host that now resolves elsewhere), or leaves it open: a timeout, a 5xx. *)
Send(w, c, result) ==
  /\ Current(w, c) /\ c.result = "none"
  /\ c.dest # c.url => result = "refused"
  /\ Answered(w, c, result)
  /\ accepted' = IF result = "ok" THEN [accepted EXCEPT ![c.d] = @ \cup {c.url}]
                                  ELSE accepted
  /\ UNCHANGED <<endpoint, event, publishing, delivery, attempts, pruning, claims>>

(* completeDispatch. *)
Verdict(c) ==
  CASE c.result = "ok" -> "delivered"
    [] c.result = "retry" /\ c.cycle < MaxAttempts -> "pending"
    [] OTHER -> "failed"

(* The row a completion is for: its lease has not been given to another.   *)
Leased(c) ==
  /\ delivery[c.d].status = "processing"
  /\ delivery[c.d].token = c.token
  /\ delivery[c.d].count = c.number

CompletedDelivery(c) ==
  [delivery EXCEPT
     ![c.d].status = Verdict(c), ![c.d].token = 0, ![c.d].expired = FALSE,
     ![c.d].due = IF Verdict(c) = "pending" THEN FALSE ELSE @,
     ![c.d].cycle = IF Verdict(c) = "delivered" THEN 0 ELSE @]

Failures(c) ==
  IF Verdict(c) = "failed" THEN endpoint[EndpointOf(c.d)].failures + 1 ELSE 0

Disables(c) == Verdict(c) = "failed" /\ Failures(c) >= DisableAfter

(* The health of an endpoint that is still there is kept with a final      *)
(* verdict; failures in a row disable it and cancel what it has open.      *)
Settles(c) == Verdict(c) # "pending" /\ endpoint[EndpointOf(c.d)].status # "deleted"

SettledEndpoints(c) ==
  LET e == EndpointOf(c.d) IN
  [endpoint EXCEPT ![e].failures = Failures(c),
                   ![e].status = IF Disables(c) THEN "disabled" ELSE @,
                   ![e].version = IF Disables(c) THEN @ + 1 ELSE @]

SettledDeliveries(c) ==
  IF Disables(c) /\ endpoint[EndpointOf(c.d)].status # "disabled"
  THEN CanceledOpen(CompletedDelivery(c), EndpointOf(c.d))
  ELSE CompletedDelivery(c)

(* Mutant of Complete: the lease is not looked at. *)
CompleteUnfenced(w, c) ==
  /\ Current(w, c) /\ c.result # "none"
  /\ batch' = [batch EXCEPT ![w] = @ \ {c}]
  /\ IF delivery[c.d].status # "absent"
     THEN /\ attempts' = [attempts EXCEPT ![c.d] = @ \cup {c.number}]
          /\ delivery' = CompletedDelivery(c)
     ELSE UNCHANGED <<attempts, delivery>>
  /\ UNCHANGED <<endpoint, event, publishing, pruning, claims, accepted>>

Complete(w, c) ==
  /\ Current(w, c) /\ c.result # "none"
  /\ batch' = [batch EXCEPT ![w] = @ \ {c}]
  /\ \/ ~Leased(c) /\ UNCHANGED <<endpoint, delivery, attempts>>
     \/ /\ Leased(c)
        /\ attempts' = [attempts EXCEPT ![c.d] = @ \cup {c.number}]
        /\ endpoint' = IF Settles(c) THEN SettledEndpoints(c) ELSE endpoint
        /\ delivery' = IF Settles(c) THEN SettledDeliveries(c) ELSE CompletedDelivery(c)
  /\ UNCHANGED <<event, publishing, pruning, claims, accepted>>

(* The batch is given up: the worker stops, or a statement fails (a        *)
(* deadlock of Complete with a change of the endpoint is one).             *)
GiveUp(w) ==
  /\ batch[w] # {}
  /\ batch' = [batch EXCEPT ![w] = {}]
  /\ UNCHANGED <<endpoint, event, publishing, delivery, attempts, pruning, claims,
                 accepted>>

-----------------------------------------------------------------------------
(* Operators.                                                              *)

Replay(d) ==
  LET e == EndpointOf(d) IN
  /\ delivery[d].status \in Terminal
  /\ delivery[d].replays < MaxReplays
  /\ endpoint[e].status = "active" /\ endpoint[e].secret # 0
  /\ delivery' = [delivery EXCEPT
       ![d].status = "pending", ![d].dest = endpoint[e].url, ![d].cycle = 0,
       ![d].replays = @ + 1, ![d].due = TRUE, ![d].token = 0, ![d].expired = FALSE]
  /\ accepted' = [accepted EXCEPT ![d] = {}]
  /\ UNCHANGED <<endpoint, event, publishing, attempts, pruning, batch, claims>>

(* Prune clears the previous secrets that have lapsed, and selects at most *)
(* PruneBatch finished deliveries S of old events, without a lock. (The    *)
(* order of ids is not modelled: any of them may be the first.)            *)
PruneSelect(old, S) ==
  LET finished == {d \in Delivery : EventOf(d) \in old /\ delivery[d].status \in Terminal} IN
  /\ ~pruning.open
  /\ \A v \in old : event[v] # "none"
  /\ S \subseteq finished
  /\ Cardinality(S) = IF Cardinality(finished) < PruneBatch THEN Cardinality(finished)
                                                          ELSE PruneBatch
  /\ pruning' = [open |-> TRUE, old |-> old, ids |-> S]
  /\ endpoint' = [e \in Endpoint |->
       IF endpoint[e].lapsed THEN [endpoint[e] EXCEPT !.previous = 0, !.lapsed = FALSE]
                             ELSE endpoint[e]]
  /\ UNCHANGED <<event, publishing, delivery, attempts, batch, claims, accepted>>

(* Old events with no delivery once the selected ones are gone. *)
Childless ==
  {v \in pruning.old : /\ event[v] # "none"
                       /\ \A d \in Delivery \ pruning.ids :
                            EventOf(d) = v => delivery[d].status = "absent"}

(* It deletes them by id, then at most PruneBatch childless old events E.  *)
PruneDelete(E) ==
  /\ pruning.open
  /\ E \subseteq Childless
  /\ Cardinality(E) = IF Cardinality(Childless) < PruneBatch THEN Cardinality(Childless)
                                                           ELSE PruneBatch
  /\ delivery' = [d \in Delivery |-> IF d \in pruning.ids THEN NoDelivery ELSE delivery[d]]
  /\ attempts' = [d \in Delivery |-> IF d \in pruning.ids THEN {} ELSE attempts[d]]
  /\ accepted' = [d \in Delivery |-> IF d \in pruning.ids THEN {} ELSE accepted[d]]
  /\ event' = [v \in Event |-> IF v \in E THEN "none" ELSE event[v]]
  /\ pruning' = NoPrune
  /\ UNCHANGED <<endpoint, publishing, batch, claims>>

-----------------------------------------------------------------------------
(* The environment.                                                        *)

(* A retry falls due. *)
FallsDue(d) ==
  /\ delivery[d].status = "pending" /\ ~delivery[d].due
  /\ delivery' = [delivery EXCEPT ![d].due = TRUE]
  /\ UNCHANGED <<endpoint, event, publishing, attempts, pruning, batch, claims,
                 accepted>>

(* A lease runs out, whether or not its worker is still at work.           *)
Expires(d) ==
  /\ delivery[d].status = "processing" /\ ~delivery[d].expired
  /\ delivery' = [delivery EXCEPT ![d].expired = TRUE]
  /\ UNCHANGED <<endpoint, event, publishing, attempts, pruning, batch, claims,
                 accepted>>

(* The overlap after a rotation ends. *)
Lapses(e) ==
  /\ endpoint[e].previous # 0 /\ ~endpoint[e].lapsed
  /\ endpoint' = [endpoint EXCEPT ![e].lapsed = TRUE]
  /\ UNCHANGED <<event, publishing, delivery, attempts, pruning, batch, claims,
                 accepted>>

-----------------------------------------------------------------------------
Configure(e) ==
  \E ts \in SUBSET Type, u \in Url : CreateEndpoint(e, ts, u) \/ UpdateEndpoint(e, ts, u)

Retire(e) ==
  \/ \E enabled \in BOOLEAN : ReplaceEndpointStatus(e, enabled)
  \/ DeleteEndpoint(e) \/ RotateEndpointSecret(e)

(* The requests of a manager of the organization. *)
Manage(e) == Configure(e) \/ Retire(e)

(* An event goes to every subscribed endpoint, a test to the one it names. *)
PublishWebhook(v) ==
  \/ \E t \in Type, target \in {{}} \cup {{e} : e \in Endpoint} : PublishRead(v, t, target)
  \/ PublishCommit(v) \/ PublishRollback(v)

DispatchWebhooks(w) ==
  \/ \E S \in SUBSET Delivery : ClaimDue(w, S)
  \/ \E c \in batch[w] : Complete(w, c) \/ \E r \in Results : Send(w, c, r)

PruneWebhookHistory ==
  \/ \E old \in SUBSET Event, S \in SUBSET Delivery : PruneSelect(old, S)
  \/ \E E \in SUBSET Event : PruneDelete(E)

Next ==
  \/ \E e \in Endpoint : Manage(e) \/ Lapses(e)
  \/ \E v \in Event : PublishWebhook(v)
  \/ \E w \in Worker : DispatchWebhooks(w) \/ GiveUp(w)
  \/ \E d \in Delivery : Replay(d) \/ FallsDue(d) \/ Expires(d)
  \/ PruneWebhookHistory

Spec == Init /\ [][Next]_vars

-----------------------------------------------------------------------------
(* Properties.                                                             *)

TypeOK ==
  /\ \A e \in Endpoint :
       /\ endpoint[e].status \in {"absent", "active", "disabled", "deleted"}
       /\ endpoint[e].url \in Url \cup {"none"} /\ endpoint[e].types \subseteq Type
  /\ event \in [Event -> Type \cup {"none"}]
  /\ \A d \in Delivery : delivery[d].status \in Open \cup Terminal \cup {"absent"}
  /\ \A w \in Worker : \A c \in batch[w] : c.d \in Delivery /\ c.token \in 1..claims
  /\ pruning.ids \subseteq Delivery /\ pruning.old \subseteq Event

(* A delivery counts as delivered only if its receiver, at the url the     *)
(* delivery is bound to, accepted it in the present cycle: no completion   *)
(* of an earlier lease, an earlier url or before a replay is taken for it. *)
DeliveredWasAccepted ==
  \A d \in Delivery : delivery[d].status = "delivered" => delivery[d].dest \in accepted[d]

(* Nothing is under way for an endpoint that was disabled or deleted: a    *)
(* lease is held under a token, for an active endpoint with a secret to    *)
(* sign with, and only the two latest secrets exist.                       *)
LeaseNeedsActiveEndpoint ==
  /\ \A d \in Delivery :
       delivery[d].status = "processing" => /\ endpoint[EndpointOf(d)].status = "active"
                                            /\ endpoint[EndpointOf(d)].secret # 0
                                            /\ delivery[d].token # 0
  /\ \A e \in Endpoint :
       endpoint[e].previous # 0 => endpoint[e].secret = endpoint[e].previous + 1

(* The attempt that a completion records is new: its number never collides *)
(* with the unique index of the attempts, replays and takeovers included.  *)
AttemptsAreNew ==
  \A w \in Worker : \A c \in batch[w] : Leased(c) => c.number \notin attempts[c.d]

(* Only Replay reopens a finished delivery; a late answer does not.        *)
FinishedStays ==
  [][\A d \in Delivery :
       delivery[d].status \in Terminal /\ delivery'[d].status # delivery[d].status =>
         delivery'[d].status = "absent" \/ delivery'[d].replays > delivery[d].replays]_vars

(* The outbox, with dispatchers that die or answer late, replays, and      *)
(* endpoints changed under way: a delivery is delivered only if the        *)
(* receiver it is bound to accepted it in this cycle, only active          *)
(* endpoints are served, no attempt collides, and what is finished stays   *)
(* so unless it is replayed (ClaimDue, Complete, Replay, UpdateEndpoint,   *)
(* ReplaceEndpointStatus).                                                 *)
OutboxSound ==
  /\ [](TypeOK /\ DeliveredWasAccepted /\ LeaseNeedsActiveEndpoint /\ AttemptsAreNew)
  /\ FinishedStays

(* What is deleted as history is over: Prune never takes a delivery that   *)
(* is open again. It does not hold of a delivery that is replayed between  *)
(* the selection and the deletion (README, section 5).                     *)
PruneTakesHistory ==
  [][\A d \in Delivery : delivery[d].status \in Open => delivery'[d].status # "absent"]_vars

(* For TLC: events, workers and urls are interchangeable (the CHOOSE of a  *)
(* url in PublishCommit has one candidate).                                *)
Interchangeable == Permutations(Event) \cup Permutations(Worker) \cup Permutations(Url)
=============================================================================
