------------------------ MODULE WebhookOutboxProofs ------------------------
(* What WebhookOutbox promises, for every set of endpoints, events, urls   *)
(* and workers and every limit: OutboxSound holds of every behaviour.      *)
EXTENDS WebhookOutbox, TLAPS

-----------------------------------------------------------------------------
(* The inductive invariant.                                                *)

Urls == Url \cup {"none"}

EndpointRow ==
  [status : {"absent", "active", "disabled", "deleted"}, url : Urls, types : SUBSET Type,
   version : Nat, failures : Nat, secret : Nat, previous : Nat, lapsed : BOOLEAN]

DeliveryRow ==
  [status : Open \cup Terminal \cup {"absent"}, dest : Urls, count : Nat, cycle : Nat,
   replays : Nat, due : BOOLEAN, token : Nat, expired : BOOLEAN]

ClaimRow ==
  [d : Delivery, token : Nat, number : Nat, cycle : Nat, dest : Urls, url : Urls,
   result : Results \cup {"none"}]

Types ==
  /\ endpoint \in [Endpoint -> EndpointRow]
  /\ event \in [Event -> Type \cup {"none"}]
  /\ publishing \in [Event -> [type : Type \cup {"none"}, to : SUBSET (Endpoint \X Urls)]]
  /\ delivery \in [Delivery -> DeliveryRow]
  /\ attempts \in [Delivery -> SUBSET Nat]
  /\ pruning \in [open : BOOLEAN, old : SUBSET Event, ids : SUBSET Delivery]
  /\ batch \in [Worker -> SUBSET ClaimRow]
  /\ claims \in Nat
  /\ accepted \in [Delivery -> SUBSET Urls]

(* A secret is there for as long as the endpoint is. *)
SecretsKept ==
  \A e \in Endpoint :
    /\ endpoint[e].status \in {"active", "disabled"} => endpoint[e].secret # 0
    /\ endpoint[e].previous # 0 => endpoint[e].secret = endpoint[e].previous + 1

(* Rows refer to their event; an event being published is not there yet.   *)
EventsKept ==
  /\ \A d \in Delivery : delivery[d].status # "absent" => event[EventOf(d)] # "none"
  /\ \A v \in Event : publishing[v] # NoPublication => /\ event[v] = "none"
                                                       /\ publishing[v].type # "none"

(* A lease is held for an active endpoint, under a token drawn before.     *)
LeasesHeld ==
  \A d \in Delivery :
    /\ delivery[d].token <= claims
    /\ delivery[d].status = "processing" => /\ endpoint[EndpointOf(d)].status = "active"
                                            /\ delivery[d].token # 0

(* Attempts are numbered up to the count; the one under way is not there.  *)
AttemptsCounted ==
  \A d \in Delivery :
    /\ \A n \in attempts[d] : n <= delivery[d].count
    /\ delivery[d].status = "processing" => delivery[d].count \notin attempts[d]
    /\ delivery[d].status = "absent" => attempts[d] = {}

(* A claim that holds its lease is for the url its row is bound to, and    *)
(* says that the receiver accepted only if it did.                         *)
ClaimsTrue ==
  \A w \in Worker : \A c \in batch[w] :
    /\ c.token \in 1 .. claims
    /\ Leased(c) => /\ c.dest = delivery[c.d].dest
                    /\ c.result = "ok" => c.dest \in accepted[c.d]

IInv ==
  /\ Types /\ SecretsKept /\ EventsKept /\ LeasesHeld /\ AttemptsCounted /\ ClaimsTrue
  /\ DeliveredWasAccepted

-----------------------------------------------------------------------------
(* Facts about rows.                                                       *)

(* A delivery is of an event to an endpoint.                               *)
LEMMA DeliveryParts ==
  ASSUME NEW d \in Delivery
  PROVE  EventOf(d) \in Event /\ EndpointOf(d) \in Endpoint
BY DEF Delivery, EventOf, EndpointOf

(* A row s that is left of r when no lease, attempt or answer is added.    *)
Quieter(r, s) ==
  /\ s.dest = r.dest /\ s.count = r.count /\ s.replays = r.replays
  /\ s.token \in {r.token, 0}
  /\ s.status = "processing" => r.status = "processing" /\ s.token = r.token
  /\ s.status = "delivered" => r.status = "delivered"
  /\ s.status = "absent" <=> r.status = "absent"
  /\ r.status \in Terminal => s.status = r.status

(* cancelOpenDeliveries only quiets rows, and leaves none of e processing. *)
LEMMA CanceledOpenQuiets ==
  ASSUME NEW rows \in [Delivery -> DeliveryRow], NEW e \in Endpoint
  PROVE  /\ CanceledOpen(rows, e) \in [Delivery -> DeliveryRow]
         /\ \A d \in Delivery : /\ Quieter(rows[d], CanceledOpen(rows, e)[d])
                                /\ EndpointOf(d) = e => CanceledOpen(rows, e)[d].status # "processing"
<1>1. \A d \in Delivery : CanceledOpen(rows, e)[d] =
        IF EndpointOf(d) = e /\ rows[d].status \in Open
        THEN [rows[d] EXCEPT !.status = "canceled", !.token = 0, !.expired = FALSE]
        ELSE rows[d]
  BY DEF CanceledOpen
<1>2. ASSUME NEW d \in Delivery
      PROVE  CanceledOpen(rows, e)[d] \in DeliveryRow
  <2>1. rows[d] \in DeliveryRow
    OBVIOUS
  <2>2. [rows[d] EXCEPT !.status = "canceled", !.token = 0, !.expired = FALSE] \in DeliveryRow
    BY <2>1 DEF DeliveryRow, Terminal
  <2> QED  BY <1>1, <2>1, <2>2
<1>3. CanceledOpen(rows, e) \in [Delivery -> DeliveryRow]
  BY <1>2 DEF CanceledOpen
<1>4. ASSUME NEW d \in Delivery
      PROVE  /\ Quieter(rows[d], CanceledOpen(rows, e)[d])
             /\ EndpointOf(d) = e => CanceledOpen(rows, e)[d].status # "processing"
  BY <1>1 DEF DeliveryRow, Quieter, Open, Terminal
<1> QED  BY <1>3, <1>4

(* Leases that ran out are given back, and nothing else. *)
LEMMA RecoveredQuiets ==
  ASSUME Types
  PROVE  /\ Recovered \in [Delivery -> DeliveryRow]
         /\ \A d \in Delivery : Quieter(delivery[d], Recovered[d])
<1>1. \A d \in Delivery : Recovered[d] =
        IF delivery[d].status = "processing" /\ delivery[d].expired
        THEN [delivery[d] EXCEPT !.status = "pending", !.token = 0, !.expired = FALSE]
        ELSE delivery[d]
  BY DEF Recovered
<1>2. \A d \in Delivery : delivery[d] \in DeliveryRow
  BY DEF Types
<1>3. ASSUME NEW d \in Delivery
      PROVE  Recovered[d] \in DeliveryRow
  <2>1. [delivery[d] EXCEPT !.status = "pending", !.token = 0, !.expired = FALSE] \in DeliveryRow
    BY <1>2 DEF DeliveryRow, Open
  <2> QED  BY <1>1, <1>2, <2>1
<1>4. Recovered \in [Delivery -> DeliveryRow]
  BY <1>3 DEF Recovered
<1>5. ASSUME NEW d \in Delivery PROVE Quieter(delivery[d], Recovered[d])
  <2>1. CASE delivery[d].status = "processing" /\ delivery[d].expired
    <3>1. /\ Recovered[d].dest = delivery[d].dest /\ Recovered[d].count = delivery[d].count
          /\ Recovered[d].replays = delivery[d].replays /\ Recovered[d].token = 0
          /\ Recovered[d].status = "pending"
      BY <1>1, <1>2, <2>1 DEF DeliveryRow
    <3> QED  BY <2>1, <3>1 DEF Quieter, Terminal
  <2>2. CASE ~ (delivery[d].status = "processing" /\ delivery[d].expired)
    <3>1. Recovered[d] = delivery[d]
      BY <1>1, <2>2
    <3> QED  BY <3>1 DEF Quieter
  <2> QED  BY <2>1, <2>2
<1> QED  BY <1>4, <1>5

(* What a step keeps that only quiets rows. *)
LEMMA QuietStep ==
  ASSUME IInv, delivery' \in [Delivery -> DeliveryRow],
         \A d \in Delivery : Quieter(delivery[d], delivery'[d]),
         UNCHANGED <<event, publishing, attempts, batch, claims, accepted>>
  PROVE  /\ EventsKept' /\ AttemptsCounted' /\ ClaimsTrue' /\ DeliveredWasAccepted'
         /\ \A d \in Delivery : delivery'[d].token <= claims'
<1>1. EventsKept'
  BY DeliveryParts DEF IInv, EventsKept, Quieter
<1>2. AttemptsCounted'
  BY DEF IInv, AttemptsCounted, Quieter
<1>3. ASSUME NEW w \in Worker, NEW c \in batch[w]
      PROVE  /\ c.token \in 1 .. claims /\ c.d \in Delivery
             /\ Leased(c)' => Leased(c)
  BY DEF IInv, Types, ClaimRow, ClaimsTrue, Leased, Quieter
<1>4. ClaimsTrue'
  BY <1>3 DEF IInv, ClaimsTrue, Quieter
<1>5. DeliveredWasAccepted'
  BY DEF IInv, DeliveredWasAccepted, Quieter
<1>6. ASSUME NEW d \in Delivery PROVE delivery'[d].token <= claims'
  <2>1. delivery[d].token <= claims /\ claims \in Nat /\ claims' = claims
    BY DEF IInv, Types, LeasesHeld
  <2>2. delivery'[d].token \in {delivery[d].token, 0}
    BY DEF Quieter
  <2> QED  BY <2>1, <2>2
<1> QED  BY <1>1, <1>2, <1>4, <1>5, <1>6

-----------------------------------------------------------------------------
(* The initial states, and the steps one by one.                           *)

(* Nothing is published, claimed or delivered.                             *)
LEMMA InitIInv == Init => IInv
BY OutboxAssumption DEF Init, IInv, Types, SecretsKept, EventsKept, LeasesHeld, AttemptsCounted,
  ClaimsTrue, DeliveredWasAccepted, NoEndpoint, NoDelivery, NoPublication, NoPrune,
  EndpointRow, DeliveryRow, ClaimRow, Urls, Results, Open, Terminal

(* A new endpoint has no delivery.                                         *)
LEMMA CreateEndpointKeeps ==
  ASSUME IInv, NEW e \in Endpoint, NEW ts \in SUBSET Type, NEW u \in Url,
         CreateEndpoint(e, ts, u)
  PROVE  IInv'
<1>1. Types'
  BY DEF IInv, Types, CreateEndpoint, NoEndpoint, EndpointRow, Urls
<1>2. SecretsKept'
  BY DEF IInv, Types, CreateEndpoint, NoEndpoint, SecretsKept, EndpointRow
<1>3. LeasesHeld'
  BY DeliveryParts DEF IInv, Types, CreateEndpoint, NoEndpoint, LeasesHeld, EndpointRow
<1>4. EventsKept' /\ AttemptsCounted' /\ ClaimsTrue' /\ DeliveredWasAccepted'
  BY DEF IInv, CreateEndpoint, EventsKept, AttemptsCounted, ClaimsTrue, Leased, DeliveredWasAccepted
<1> QED  BY <1>1, <1>2, <1>3, <1>4 DEF IInv

(* A change of the URL or of the subscription.                             *)
LEMMA UpdateEndpointKeeps ==
  ASSUME IInv, NEW e \in Endpoint, NEW ts \in SUBSET Type, NEW u \in Url,
         UpdateEndpoint(e, ts, u)
  PROVE  IInv'
<1>0. /\ delivery' \in [Delivery -> DeliveryRow]
      /\ \A d \in Delivery : Quieter(delivery[d], delivery'[d])
  BY CanceledOpenQuiets DEF IInv, Types, UpdateEndpoint, Quieter, DeliveryRow
<1>1. Types'
  BY <1>0 DEF IInv, Types, UpdateEndpoint, EndpointRow, Urls
<1>2. SecretsKept'
  BY DEF IInv, Types, UpdateEndpoint, SecretsKept, EndpointRow
<1>3. UNCHANGED <<event, publishing, attempts, batch, claims, accepted>>
  BY DEF UpdateEndpoint
<1>4. \A f \in Endpoint : endpoint'[f].status = endpoint[f].status
  BY DEF IInv, Types, UpdateEndpoint, EndpointRow
<1>5. LeasesHeld'
  BY <1>0, <1>3, <1>4, QuietStep, DeliveryParts DEF IInv, LeasesHeld, Quieter
<1> QED  BY <1>0, <1>1, <1>2, <1>3, <1>5, QuietStep DEF IInv

(* An endpoint is paused or resumed.                                       *)
LEMMA ReplaceEndpointStatusKeeps ==
  ASSUME IInv, NEW e \in Endpoint, NEW enabled \in BOOLEAN, ReplaceEndpointStatus(e, enabled)
  PROVE  IInv'
<1>0. /\ delivery' \in [Delivery -> DeliveryRow]
      /\ \A d \in Delivery : Quieter(delivery[d], delivery'[d])
      /\ ~enabled => \A d \in Delivery : EndpointOf(d) = e => delivery'[d].status # "processing"
  BY CanceledOpenQuiets DEF IInv, Types, ReplaceEndpointStatus, Quieter, DeliveryRow
<1>1. Types'
  BY <1>0 DEF IInv, Types, ReplaceEndpointStatus, EndpointRow
<1>2. SecretsKept'
  BY DEF IInv, Types, ReplaceEndpointStatus, Changeable, SecretsKept, EndpointRow
<1>3. UNCHANGED <<event, publishing, attempts, batch, claims, accepted>>
  BY DEF ReplaceEndpointStatus
<1>4. /\ \A f \in Endpoint : f # e => endpoint'[f].status = endpoint[f].status
      /\ enabled => endpoint'[e].status = "active"
  BY DEF IInv, Types, ReplaceEndpointStatus, EndpointRow
<1>5. LeasesHeld'
  BY <1>0, <1>3, <1>4, QuietStep, DeliveryParts DEF IInv, LeasesHeld, Quieter
<1> QED  BY <1>0, <1>1, <1>2, <1>3, <1>5, QuietStep DEF IInv

(* Deletion ends what is open for the endpoint.                            *)
LEMMA DeleteEndpointKeeps ==
  ASSUME IInv, NEW e \in Endpoint, DeleteEndpoint(e)
  PROVE  IInv'
<1>0. /\ delivery' \in [Delivery -> DeliveryRow]
      /\ \A d \in Delivery : Quieter(delivery[d], delivery'[d])
      /\ \A d \in Delivery : EndpointOf(d) = e => delivery'[d].status # "processing"
  BY CanceledOpenQuiets DEF IInv, Types, DeleteEndpoint
<1>1. Types'
  <2> DEFINE row == [NoEndpoint EXCEPT !.status = "deleted", !.version = endpoint[e].version + 1,
                                       !.failures = endpoint[e].failures]
  <2>1. row \in EndpointRow
    <3>1. endpoint[e].version + 1 \in Nat /\ endpoint[e].failures \in Nat
      BY DEF IInv, Types, EndpointRow
    <3> QED  BY <3>1 DEF NoEndpoint, EndpointRow, Urls
  <2>2. endpoint' = [endpoint EXCEPT ![e] = row]
    BY DEF DeleteEndpoint
  <2> HIDE DEF row
  <2>3. endpoint' \in [Endpoint -> EndpointRow]
    BY <2>1, <2>2 DEF IInv, Types
  <2> QED  BY <1>0, <2>3 DEF IInv, Types, DeleteEndpoint
<1>2. SecretsKept'
  BY DEF IInv, Types, DeleteEndpoint, NoEndpoint, SecretsKept, EndpointRow
<1>3. UNCHANGED <<event, publishing, attempts, batch, claims, accepted>>
  BY DEF DeleteEndpoint
<1>4. \A f \in Endpoint : f # e => endpoint'[f].status = endpoint[f].status
  BY DEF IInv, Types, DeleteEndpoint, EndpointRow
<1>5. LeasesHeld'
  BY <1>0, <1>3, <1>4, QuietStep, DeliveryParts DEF IInv, LeasesHeld, Quieter
<1> QED  BY <1>0, <1>1, <1>2, <1>3, <1>5, QuietStep DEF IInv

(* A rotation keeps the old secret for its grace period.                   *)
LEMMA RotateEndpointSecretKeeps ==
  ASSUME IInv, NEW e \in Endpoint, RotateEndpointSecret(e)
  PROVE  IInv'
<1>1. Types'
  <2>1. endpoint' \in [Endpoint -> EndpointRow]
    BY DEF IInv, Types, RotateEndpointSecret, EndpointRow
  <2> QED  BY <2>1 DEF IInv, Types, RotateEndpointSecret
<1>2. SecretsKept'
  BY DEF IInv, Types, RotateEndpointSecret, SecretsKept, EndpointRow
<1>3. \A f \in Endpoint : endpoint'[f].status = endpoint[f].status
  BY DEF IInv, Types, RotateEndpointSecret, EndpointRow
<1>4. LeasesHeld'
  BY <1>3, DeliveryParts DEF IInv, RotateEndpointSecret, LeasesHeld
<1>5. EventsKept' /\ AttemptsCounted' /\ ClaimsTrue' /\ DeliveredWasAccepted'
  BY DEF IInv, RotateEndpointSecret, EventsKept, AttemptsCounted, ClaimsTrue, Leased,
    DeliveredWasAccepted
<1> QED  BY <1>1, <1>2, <1>4, <1>5 DEF IInv

(* The grace period of an old secret ends.                                 *)
LEMMA LapsesKeeps ==
  ASSUME IInv, NEW e \in Endpoint, Lapses(e)
  PROVE  IInv'
<1>1. Types'
  <2>1. endpoint \in [Endpoint -> EndpointRow] /\ endpoint' = [endpoint EXCEPT ![e].lapsed = TRUE]
    BY DEF IInv, Types, Lapses
  <2>2. endpoint' \in [Endpoint -> EndpointRow]
    BY <2>1 DEF EndpointRow
  <2> QED  BY <2>2 DEF IInv, Types, Lapses
<1>2. SecretsKept'
  BY DEF IInv, Types, Lapses, SecretsKept, EndpointRow
<1>3. LeasesHeld'
  BY DeliveryParts DEF IInv, Types, Lapses, LeasesHeld, EndpointRow
<1>4. EventsKept' /\ AttemptsCounted' /\ ClaimsTrue' /\ DeliveredWasAccepted'
  BY DEF IInv, Lapses, EventsKept, AttemptsCounted, ClaimsTrue, Leased, DeliveredWasAccepted
<1> QED  BY <1>1, <1>2, <1>3, <1>4 DEF IInv

(* Publish reads the active endpoints.                                     *)
LEMMA PublishReadKeeps ==
  ASSUME IInv, NEW v \in Event, NEW t \in Type, NEW target \in SUBSET Endpoint,
         PublishRead(v, t, target)
  PROVE  IInv'
<1> DEFINE to == {<<e, endpoint[e].url>> : e \in IF target = {} THEN SubscribedEndpoints(t)
                                                             ELSE target}
<1>1. to \in SUBSET (Endpoint \X Urls)
  BY DEF IInv, Types, EndpointRow, SubscribedEndpoints
<1>2. publishing' = [publishing EXCEPT ![v] = [type |-> t, to |-> to]]
  BY DEF PublishRead
<1>3. Types'
  BY <1>1, <1>2 DEF IInv, Types, PublishRead
<1>4. EventsKept'
  BY <1>2, OutboxAssumption DEF IInv, Types, PublishRead, EventsKept
<1>5. SecretsKept' /\ LeasesHeld' /\ AttemptsCounted' /\ ClaimsTrue' /\ DeliveredWasAccepted'
  BY DEF IInv, PublishRead, SecretsKept, LeasesHeld, AttemptsCounted, ClaimsTrue, Leased,
    DeliveredWasAccepted
<1> QED  BY <1>3, <1>4, <1>5 DEF IInv

(* The rows inserted are new: nothing of the event was there before. *)
LEMMA PublishCommitKeeps ==
  ASSUME IInv, NEW v \in Event, PublishCommit(v)
  PROVE  /\ IInv'
         /\ \A d \in Delivery : delivery[d].status # "absent" => delivery'[d] = delivery[d]
<1> DEFINE sent(d) == \E u \in Url : EventOf(d) = v /\ <<EndpointOf(d), u>> \in publishing[v].to
           row(d) == [NoDelivery EXCEPT !.status = "pending", !.due = TRUE,
                        !.dest = CHOOSE u \in Url : <<EndpointOf(d), u>> \in publishing[v].to]
<1>1. delivery' = [d \in Delivery |-> IF sent(d) THEN row(d) ELSE delivery[d]]
  BY DEF PublishCommit
<1>2. ASSUME NEW d \in Delivery, sent(d)
      PROVE  /\ row(d) \in DeliveryRow /\ row(d).status = "pending" /\ row(d).token = 0
             /\ row(d).count = 0 /\ EventOf(d) = v
  <2>1. PICK u \in Url : EventOf(d) = v /\ <<EndpointOf(d), u>> \in publishing[v].to
    BY <1>2
  <2>2. (CHOOSE z \in Url : <<EndpointOf(d), z>> \in publishing[v].to) \in Url
    BY <2>1
  <2> QED  BY <2>1, <2>2 DEF NoDelivery, DeliveryRow, Open, Urls
<1>3. event[v] = "none" /\ publishing[v].type # "none" /\ publishing[v].type \in Type \cup {"none"}
  BY DEF IInv, Types, EventsKept, PublishCommit
<1>4. ASSUME NEW d \in Delivery, delivery[d].status # "absent"
      PROVE  ~sent(d)
  <2>1. event[EventOf(d)] # "none"
    BY <1>4 DEF IInv, EventsKept
  <2> QED  BY <1>2, <1>3, <2>1
<1>5. ASSUME NEW d \in Delivery
      PROVE  \/ delivery'[d] = delivery[d]
             \/ /\ delivery[d].status = "absent" /\ EventOf(d) = v
                /\ delivery'[d] \in DeliveryRow /\ delivery'[d].status = "pending"
                /\ delivery'[d].token = 0 /\ delivery'[d].count = 0
  BY <1>1, <1>2, <1>4
<1> HIDE DEF sent, row
<1>6. delivery' \in [Delivery -> DeliveryRow]
  <2>1. \A d \in Delivery : delivery'[d] \in DeliveryRow
    BY <1>5 DEF IInv, Types
  <2> QED  BY <1>1, <2>1
<1>7. Types'
  <2>1. NoPublication \in [type : Type \cup {"none"}, to : SUBSET (Endpoint \X Urls)]
    BY DEF NoPublication
  <2>2. publishing' \in [Event -> [type : Type \cup {"none"}, to : SUBSET (Endpoint \X Urls)]]
    BY <2>1 DEF IInv, Types, PublishCommit
  <2>3. event' \in [Event -> Type \cup {"none"}]
    BY <1>3 DEF IInv, Types, PublishCommit
  <2> QED  BY <1>6, <2>2, <2>3 DEF IInv, Types, PublishCommit
<1>8. EventsKept'
  <2>1. event' = [event EXCEPT ![v] = publishing[v].type] /\ publishing' = [publishing EXCEPT ![v] = NoPublication]
    BY DEF PublishCommit
  <2>2. \A d \in Delivery : delivery'[d].status # "absent" => event'[EventOf(d)] # "none"
    BY <1>3, <1>5, <2>1, DeliveryParts DEF IInv, Types, EventsKept
  <2>3. \A x \in Event : publishing'[x] # NoPublication => event'[x] = "none" /\ publishing'[x].type # "none"
    BY <2>1 DEF IInv, Types, EventsKept
  <2> QED  BY <2>2, <2>3 DEF EventsKept
<1>9. UNCHANGED <<endpoint, attempts, batch, claims, accepted>>
  BY DEF PublishCommit
<1>10. SecretsKept' /\ LeasesHeld' /\ DeliveredWasAccepted'
  BY <1>5, <1>9 DEF IInv, Types, SecretsKept, LeasesHeld, DeliveredWasAccepted
<1>11. AttemptsCounted'
  BY <1>5, <1>9 DEF IInv, AttemptsCounted
<1>12. ASSUME NEW w \in Worker, NEW c \in batch[w], Leased(c)'
       PROVE  Leased(c) /\ delivery'[c.d] = delivery[c.d]
  BY <1>5, <1>12 DEF IInv, Types, ClaimRow, Leased
<1>13. ClaimsTrue'
  BY <1>9, <1>12 DEF IInv, ClaimsTrue
<1>14. IInv'
  BY <1>7, <1>8, <1>10, <1>11, <1>13 DEF IInv
<1> QED  BY <1>5, <1>14

(* The transaction of a publication is rolled back.                        *)
LEMMA PublishRollbackKeeps ==
  ASSUME IInv, NEW v \in Event, PublishRollback(v)
  PROVE  IInv'
<1>1. Types'
  BY DEF IInv, Types, PublishRollback, NoPublication
<1>2. EventsKept'
  BY DEF IInv, Types, PublishRollback, EventsKept
<1>3. SecretsKept' /\ LeasesHeld' /\ AttemptsCounted' /\ ClaimsTrue' /\ DeliveredWasAccepted'
  BY DEF IInv, PublishRollback, SecretsKept, LeasesHeld, AttemptsCounted, ClaimsTrue, Leased,
    DeliveredWasAccepted
<1> QED  BY <1>1, <1>2, <1>3 DEF IInv

(* The new leases have a token no earlier claim has. *)
LEMMA ClaimDueKeeps ==
  ASSUME IInv, NEW w \in Worker, NEW S \in SUBSET Delivery, ClaimDue(w, S)
  PROVE  /\ IInv'
         /\ \A d \in Delivery : delivery[d].status \in Terminal =>
              delivery'[d].status = delivery[d].status
<1> DEFINE leased(d) == [Recovered[d] EXCEPT !.status = "processing", !.count = @ + 1,
                                             !.cycle = @ + 1, !.token = claims + 1]
<1>1. /\ delivery' = [d \in Delivery |-> IF d \in S THEN leased(d) ELSE Recovered[d]]
      /\ batch' = [batch EXCEPT ![w] = {Claim(d) : d \in S}]
      /\ claims' = claims + 1 /\ claims \in Nat
      /\ UNCHANGED <<endpoint, event, publishing, attempts, pruning, accepted>>
  BY DEF ClaimDue, IInv, Types
<1>2. \A d \in Delivery : /\ Recovered[d] \in DeliveryRow /\ delivery[d] \in DeliveryRow
                          /\ Quieter(delivery[d], Recovered[d])
  BY RecoveredQuiets DEF IInv, Types
<1>3. ASSUME NEW d \in S
      PROVE  /\ leased(d) \in DeliveryRow /\ leased(d).status = "processing"
             /\ leased(d).count = delivery[d].count + 1 /\ leased(d).token = claims + 1
             /\ leased(d).dest = delivery[d].dest /\ leased(d).replays = delivery[d].replays
  <2>1. /\ Recovered[d] \in DeliveryRow /\ d \in Delivery
        /\ Recovered[d].count = delivery[d].count /\ Recovered[d].dest = delivery[d].dest
        /\ Recovered[d].replays = delivery[d].replays
    BY <1>2 DEF Quieter
  <2>2. claims + 1 \in Nat
    BY DEF IInv, Types
  <2> DEFINE r == Recovered[d]
             n == claims + 1
  <2>3. leased(d) = [r EXCEPT !.status = "processing", !.count = r.count + 1,
                              !.cycle = r.cycle + 1, !.token = n]
    OBVIOUS
  <2> HIDE DEF r, n, leased
  <2>4. r \in DeliveryRow /\ n \in Nat
    BY <2>1, <2>2 DEF r, n
  <2>5. /\ leased(d) \in DeliveryRow /\ leased(d).status = "processing"
        /\ leased(d).count = r.count + 1 /\ leased(d).token = n
        /\ leased(d).dest = r.dest /\ leased(d).replays = r.replays
    <3>1. r.count + 1 \in Nat /\ r.cycle + 1 \in Nat
      BY <2>4 DEF DeliveryRow
    <3>2. leased(d) \in DeliveryRow
      BY <2>3, <2>4, <3>1 DEF DeliveryRow, Open
    <3> QED  BY <2>3, <2>4, <3>2 DEF DeliveryRow
  <2> QED  BY <2>1, <2>5 DEF r, n
<1>4. ASSUME NEW d \in S
      PROVE  /\ delivery[d].status \in Open
             /\ endpoint[EndpointOf(d)].status = "active"
  BY <1>2 DEF ClaimDue, Due, Quieter, Open, Terminal, DeliveryRow
<1> HIDE DEF leased
<1>5. \A d \in Delivery : delivery'[d] = IF d \in S THEN leased(d) ELSE Recovered[d]
  BY <1>1
<1>6. ASSUME NEW d \in S
      PROVE  /\ Claim(d) \in ClaimRow /\ Claim(d).d = d /\ Claim(d).token = claims + 1
             /\ Claim(d).result = "none" /\ Claim(d).dest = delivery[d].dest
  BY <1>1, <1>2, DeliveryParts DEF Claim, ClaimRow, DeliveryRow, IInv, Types, EndpointRow
<1>7. Types'
  <2>1. delivery' \in [Delivery -> DeliveryRow]
    BY <1>1, <1>2, <1>3
  <2>2. batch' \in [Worker -> SUBSET ClaimRow]
    BY <1>1, <1>6 DEF IInv, Types
  <2> QED  BY <1>1, <2>1, <2>2 DEF IInv, Types
<1>8. SecretsKept'
  BY <1>1 DEF IInv, SecretsKept
<1>9. EventsKept'
  BY <1>1, <1>2, <1>4, <1>5, DeliveryParts DEF IInv, EventsKept, Quieter, Open
<1>10. LeasesHeld'
  <2>1. ASSUME NEW d \in Delivery
        PROVE  /\ delivery'[d].token <= claims'
               /\ delivery'[d].status = "processing" => /\ endpoint'[EndpointOf(d)].status = "active"
                                                        /\ delivery'[d].token # 0
    <3>1. CASE d \in S
      BY <1>1, <1>3, <1>4, <1>5, <3>1
    <3>2. CASE d \notin S
      BY <1>1, <1>2, <1>5, <3>2 DEF IInv, LeasesHeld, Quieter, DeliveryRow
    <3> QED  BY <3>1, <3>2
  <2> QED  BY <2>1 DEF LeasesHeld
<1>11. AttemptsCounted'
  <2>1. ASSUME NEW d \in Delivery
        PROVE  /\ \A n \in attempts'[d] : n <= delivery'[d].count
               /\ delivery'[d].status = "processing" => delivery'[d].count \notin attempts'[d]
               /\ delivery'[d].status = "absent" => attempts'[d] = {}
    <3>1. CASE d \in S
      BY <1>1, <1>2, <1>3, <1>5, <3>1 DEF IInv, Types, AttemptsCounted, DeliveryRow
    <3>2. CASE d \notin S
      BY <1>1, <1>2, <1>5, <3>2 DEF IInv, AttemptsCounted, Quieter
    <3> QED  BY <3>1, <3>2
  <2> QED  BY <2>1 DEF AttemptsCounted
<1>12. ClaimsTrue'
  <2>1. ASSUME NEW x \in Worker, NEW c \in batch'[x]
        PROVE  /\ c.token \in 1 .. claims'
               /\ Leased(c)' => /\ c.dest = delivery'[c.d].dest
                                /\ c.result = "ok" => c.dest \in accepted'[c.d]
    <3>1. CASE x = w
      <4>1. PICK d \in S : c = Claim(d)
        BY <1>1, <3>1 DEF IInv, Types
      <4>2. c.token \in 1 .. claims' /\ c.result # "ok"
        BY <1>1, <1>6, <4>1
      <4>3. c.dest = delivery'[c.d].dest
        BY <1>3, <1>5, <1>6, <4>1
      <4> QED  BY <4>2, <4>3
    <3>2. CASE x # w
      <4>1. c \in batch[x] /\ c.d \in Delivery /\ c.token \in 1 .. claims
        BY <1>1, <3>2 DEF IInv, Types, ClaimsTrue, ClaimRow
      <4>2. c.token \in 1 .. claims'
        BY <1>1, <4>1
      <4>3. ASSUME Leased(c)'
            PROVE  Leased(c) /\ delivery'[c.d].dest = delivery[c.d].dest
        BY <1>1, <1>2, <1>3, <1>5, <4>1, <4>3 DEF Leased, Quieter
      <4> QED  BY <1>1, <4>1, <4>2, <4>3 DEF IInv, ClaimsTrue
    <3> QED  BY <3>1, <3>2
  <2> QED  BY <2>1 DEF ClaimsTrue
<1>13. DeliveredWasAccepted'
  BY <1>1, <1>2, <1>3, <1>5 DEF IInv, DeliveredWasAccepted, Quieter
<1>14. ASSUME NEW d \in Delivery, delivery[d].status \in Terminal
       PROVE  delivery'[d].status = delivery[d].status
  BY <1>2, <1>4, <1>5, <1>14 DEF Open, Terminal, Quieter
<1> QED  BY <1>7, <1>8, <1>9, <1>10, <1>11, <1>12, <1>13, <1>14 DEF IInv

(* The worker posts under its claim.                                       *)
LEMMA SendKeeps ==
  ASSUME IInv, NEW w \in Worker, NEW c \in batch[w], NEW r \in Results, Send(w, c, r)
  PROVE  IInv'
<1> DEFINE answer == [c EXCEPT !.result = r]
<1>1. /\ c \in ClaimRow /\ c.d \in Delivery
      /\ answer \in ClaimRow /\ answer.d = c.d /\ answer.token = c.token
      /\ answer.number = c.number /\ answer.dest = c.dest /\ answer.result = r
  BY DEF IInv, Types, ClaimRow
<1>2. batch' = [batch EXCEPT ![w] = (batch[w] \ {c}) \cup {answer}]
  BY DEF Send, Answered
<1> HIDE DEF answer
<1>3. UNCHANGED <<endpoint, event, publishing, delivery, attempts, pruning, claims>>
  BY DEF Send
<1>4. /\ accepted' \in [Delivery -> SUBSET Urls]
      /\ \A d \in Delivery : accepted[d] \subseteq accepted'[d]
      /\ r = "ok" => c.dest \in accepted'[c.d]
  BY <1>1 DEF Send, IInv, Types, ClaimRow
<1>5. Types'
  <2>1. batch' \in [Worker -> SUBSET ClaimRow]
    BY <1>1, <1>2 DEF IInv, Types
  <2> QED  BY <1>3, <1>4, <2>1 DEF IInv, Types
<1>6. SecretsKept' /\ EventsKept' /\ LeasesHeld' /\ AttemptsCounted'
  BY <1>3 DEF IInv, SecretsKept, EventsKept, LeasesHeld, AttemptsCounted
<1>7. DeliveredWasAccepted'
  BY <1>3, <1>4 DEF IInv, DeliveredWasAccepted
<1>8. ASSUME NEW x \in Worker, NEW b \in batch'[x]
      PROVE  /\ b.token \in 1 .. claims'
             /\ Leased(b)' => /\ b.dest = delivery'[b.d].dest
                              /\ b.result = "ok" => b.dest \in accepted'[b.d]
  <2>1. CASE b \in batch[x]
    BY <1>3, <1>4, <2>1 DEF IInv, Types, ClaimRow, ClaimsTrue, Leased
  <2>2. CASE b \notin batch[x]
    <3>1. b = answer /\ c \in batch[w]
      BY <1>2, <2>2 DEF IInv, Types
    <3> QED  BY <1>1, <1>3, <1>4, <3>1 DEF IInv, ClaimsTrue, Leased
  <2> QED  BY <2>1, <2>2
<1>9. ClaimsTrue'
  BY <1>8 DEF ClaimsTrue
<1> QED  BY <1>5, <1>6, <1>7, <1>9 DEF IInv

(* A worker stops between two statements.                                  *)
LEMMA GiveUpKeeps ==
  ASSUME IInv, NEW w \in Worker, GiveUp(w)
  PROVE  IInv'
BY DEF IInv, GiveUp, Types, SecretsKept, EventsKept, LeasesHeld, AttemptsCounted, ClaimsTrue, Leased,
  DeliveredWasAccepted

(* An answer is entered for the lease it was given under: the delivery is  *)
(* delivered only if the receiver it is bound to accepted it.              *)
LEMMA CompleteKeeps ==
  ASSUME IInv, NEW w \in Worker, NEW c \in batch[w], Complete(w, c)
  PROVE  /\ IInv'
         /\ \A d \in Delivery : delivery[d].status \in Terminal =>
              delivery'[d].status = delivery[d].status
<1>1. /\ c \in ClaimRow /\ c.d \in Delivery /\ c.result \in Results /\ c.number \in Nat
      /\ EndpointOf(c.d) \in Endpoint /\ delivery[c.d] \in DeliveryRow
  BY DeliveryParts DEF IInv, Types, ClaimRow, Complete
<1>2. /\ batch' = [batch EXCEPT ![w] = batch[w] \ {c}]
      /\ UNCHANGED <<event, publishing, pruning, claims, accepted>>
  BY DEF Complete
<1>3. batch' \in [Worker -> SUBSET ClaimRow] /\ \A x \in Worker : batch'[x] \subseteq batch[x]
  BY <1>2 DEF IInv, Types
<1>4. CASE ~Leased(c)
  <2>1. UNCHANGED <<endpoint, delivery, attempts>>
    BY <1>4 DEF Complete
  <2>2. Types'
    BY <1>2, <1>3, <2>1 DEF IInv, Types
  <2>3. SecretsKept' /\ EventsKept' /\ LeasesHeld' /\ AttemptsCounted' /\ DeliveredWasAccepted'
    BY <1>2, <2>1 DEF IInv, SecretsKept, EventsKept, LeasesHeld, AttemptsCounted,
      DeliveredWasAccepted
  <2>4. ClaimsTrue'
    BY <1>2, <1>3, <2>1 DEF IInv, ClaimsTrue, Leased
  <2> QED  BY <2>1, <2>2, <2>3, <2>4 DEF IInv
<1>5. CASE Leased(c)
  <2> DEFINE e == EndpointOf(c.d)
             rows == CompletedDelivery(c)
  <2>1. /\ attempts' = [attempts EXCEPT ![c.d] = attempts[c.d] \cup {c.number}]
        /\ endpoint' = IF Settles(c) THEN SettledEndpoints(c) ELSE endpoint
        /\ delivery' = IF Settles(c) THEN SettledDeliveries(c) ELSE rows
    BY <1>5 DEF Complete
  <2>2. /\ delivery[c.d].status = "processing" /\ delivery[c.d].count = c.number
        /\ endpoint[e].status = "active"
        /\ delivery[c.d].dest = c.dest
        /\ c.result = "ok" => c.dest \in accepted[c.d]
    BY <1>1, <1>5 DEF Leased, IInv, LeasesHeld, ClaimsTrue
  <2>3. Verdict(c) \in {"delivered", "pending", "failed"} /\ (Verdict(c) = "delivered" => c.result = "ok")
    BY <1>1 DEF Verdict, Results
  <2>4. /\ rows \in [Delivery -> DeliveryRow]
        /\ \A d \in Delivery : d # c.d => rows[d] = delivery[d]
        /\ rows[c.d].status = Verdict(c) /\ rows[c.d].token = 0
        /\ rows[c.d].count = delivery[c.d].count /\ rows[c.d].dest = delivery[c.d].dest
        /\ rows[c.d].replays = delivery[c.d].replays
    <3> HIDE DEF e
    <3> DEFINE was == delivery[c.d]
               verdict == Verdict(c)
               due == IF Verdict(c) = "pending" THEN FALSE ELSE was.due
               cycle == IF Verdict(c) = "delivered" THEN 0 ELSE was.cycle
               now == [was EXCEPT !.status = verdict, !.token = 0, !.expired = FALSE,
                                  !.due = due, !.cycle = cycle]
    <3>1. delivery \in [Delivery -> DeliveryRow] /\ was \in DeliveryRow
      BY <1>1 DEF IInv, Types
    <3>2. rows = [delivery EXCEPT ![c.d] = now]
      BY <3>1 DEF CompletedDelivery
    <3>3. due \in BOOLEAN /\ cycle \in Nat
      BY <3>1 DEF DeliveryRow
    <3>4. verdict \in Open \cup Terminal
      BY <2>3 DEF Open, Terminal
    <3> HIDE DEF was, verdict, due, cycle
    <3>5. /\ now \in DeliveryRow /\ now.status = verdict /\ now.token = 0 /\ now.count = was.count
          /\ now.dest = was.dest /\ now.replays = was.replays
      BY <3>1, <3>3, <3>4 DEF DeliveryRow
    <3> HIDE DEF now, rows
    <3>6. rows \in [Delivery -> DeliveryRow] /\ rows[c.d] = now
          /\ \A d \in Delivery : d # c.d => rows[d] = delivery[d]
      BY <1>1, <3>1, <3>2, <3>5
    <3> QED  BY <3>5, <3>6 DEF was, verdict
  <2> HIDE DEF rows
  <2>5. /\ delivery' \in [Delivery -> DeliveryRow]
        /\ \A d \in Delivery : Quieter(rows[d], delivery'[d])
        /\ Settles(c) /\ Disables(c) => \A d \in Delivery : EndpointOf(d) = e => delivery'[d].status # "processing"
    <3>1. CASE Settles(c) /\ Disables(c)
      <4>1. delivery' = CanceledOpen(rows, e)
        BY <2>1, <2>2, <3>1 DEF SettledDeliveries, rows
      <4> QED  BY <1>1, <2>4, <4>1, CanceledOpenQuiets
    <3>2. CASE ~(Settles(c) /\ Disables(c))
      <4>1. delivery' = rows
        BY <2>1, <3>2 DEF SettledDeliveries, rows
      <4> QED  BY <2>4, <3>2, <4>1 DEF Quieter
    <3> QED  BY <3>1, <3>2
  <2>6. /\ endpoint' \in [Endpoint -> EndpointRow]
        /\ \A f \in Endpoint : /\ f # e => endpoint'[f] = endpoint[f]
                               /\ endpoint'[f].secret = endpoint[f].secret
                               /\ endpoint'[f].previous = endpoint[f].previous
        /\ endpoint'[e].status \in {"active", "disabled"}
        /\ ~(Settles(c) /\ Disables(c)) => endpoint'[e].status = "active"
    <3>1. endpoint \in [Endpoint -> EndpointRow] /\ e \in Endpoint
      BY <1>1 DEF IInv, Types
    <3>2. Failures(c) \in Nat
      BY <3>1 DEF Failures, EndpointRow
    <3>3. CASE ~Settles(c)
      BY <2>1, <2>2, <3>1, <3>3
    <3>4. CASE Settles(c)
      <4>1. endpoint' = [endpoint EXCEPT ![e].failures = Failures(c),
                           ![e].status = IF Disables(c) THEN "disabled" ELSE @,
                           ![e].version = IF Disables(c) THEN @ + 1 ELSE @]
        BY <2>1, <3>4 DEF SettledEndpoints
      <4> HIDE DEF e
      <4>2. endpoint' \in [Endpoint -> EndpointRow]
        <5>1. CASE Disables(c)
          BY <3>1, <3>2, <4>1, <5>1 DEF EndpointRow
        <5>2. CASE ~Disables(c)
          <6> DEFINE n == endpoint[e].version
          <6>1. endpoint' = [endpoint EXCEPT ![e].failures = Failures(c), ![e].status = "active",
                                             ![e].version = n]
            BY <2>2, <4>1, <5>2
          <6>2. n \in Nat
            BY <3>1 DEF EndpointRow
          <6>3. endpoint' = [endpoint EXCEPT ![e] =
                   [endpoint[e] EXCEPT !.failures = Failures(c), !.status = "active", !.version = n]]
            BY <6>1
          <6> HIDE DEF n
          <6>4. [endpoint[e] EXCEPT !.failures = Failures(c), !.status = "active", !.version = n]
                  \in EndpointRow
            BY <3>1, <3>2, <6>2 DEF EndpointRow
          <6> QED  BY <3>1, <6>3, <6>4
        <5> QED  BY <5>1, <5>2
      <4>3. \A f \in Endpoint : /\ f # e => endpoint'[f] = endpoint[f]
                               /\ endpoint'[f].secret = endpoint[f].secret
                               /\ endpoint'[f].previous = endpoint[f].previous
        BY <3>1, <4>1 DEF EndpointRow
      <4>4. endpoint'[e].status = IF Disables(c) THEN "disabled" ELSE "active"
        BY <2>2, <3>1, <4>1 DEF EndpointRow
      <4> QED  BY <3>4, <4>2, <4>3, <4>4
    <3> QED  BY <3>3, <3>4
  <2> HIDE DEF e
  <2>7. Types'
    <3>1. attempts' \in [Delivery -> SUBSET Nat]
      BY <1>1, <2>1 DEF IInv, Types
    <3> QED  BY <1>2, <1>3, <2>5, <2>6, <3>1 DEF IInv, Types
  <2>8. SecretsKept'
    BY <2>2, <2>6 DEF IInv, SecretsKept
  <2>9. EventsKept'
    BY <1>2, <2>2, <2>3, <2>4, <2>5, DeliveryParts DEF IInv, EventsKept, Quieter
  <2>10. LeasesHeld'
    <3>1. ASSUME NEW d \in Delivery
          PROVE  /\ delivery'[d].token <= claims'
                 /\ delivery'[d].status = "processing" => /\ endpoint'[EndpointOf(d)].status = "active"
                                                          /\ delivery'[d].token # 0
      <4>1. /\ rows[d].token <= claims
            /\ rows[d].status = "processing" => /\ d # c.d /\ rows[d].token # 0
                                                /\ endpoint[EndpointOf(d)].status = "active"
        BY <1>1, <2>3, <2>4 DEF IInv, Types, LeasesHeld
      <4>2. delivery'[d].token <= claims'
        BY <1>2, <2>5, <4>1 DEF Quieter, IInv, Types
      <4>3. ASSUME delivery'[d].status = "processing"
            PROVE  endpoint'[EndpointOf(d)].status = "active" /\ delivery'[d].token # 0
        BY <2>5, <2>6, <4>1, <4>3, DeliveryParts DEF Quieter
      <4> QED  BY <4>2, <4>3
    <3> QED  BY <3>1 DEF LeasesHeld
  <2>11. AttemptsCounted'
    <3>1. ASSUME NEW d \in Delivery
          PROVE  /\ \A n \in attempts'[d] : n <= delivery'[d].count
                 /\ delivery'[d].status = "processing" => delivery'[d].count \notin attempts'[d]
                 /\ delivery'[d].status = "absent" => attempts'[d] = {}
      <4>1. CASE d = c.d
        BY <1>1, <2>1, <2>2, <2>3, <2>4, <2>5, <4>1 DEF IInv, Types, AttemptsCounted, Quieter
      <4>2. CASE d # c.d
        BY <1>1, <2>1, <2>4, <2>5, <4>2 DEF IInv, Types, AttemptsCounted, Quieter
      <4> QED  BY <4>1, <4>2
    <3> QED  BY <3>1 DEF AttemptsCounted
  <2>12. ASSUME NEW d \in Delivery, delivery'[d].status = "processing"
         PROVE  /\ delivery[d].status = "processing" /\ delivery'[d].token = delivery[d].token
                /\ delivery'[d].count = delivery[d].count /\ delivery'[d].dest = delivery[d].dest
    BY <2>3, <2>4, <2>5, <2>12 DEF Quieter
  <2>13. ClaimsTrue'
    <3>1. ASSUME NEW x \in Worker, NEW b \in batch'[x]
          PROVE  /\ b.token \in 1 .. claims'
                 /\ Leased(b)' => /\ b.dest = delivery'[b.d].dest
                                  /\ b.result = "ok" => b.dest \in accepted'[b.d]
      BY <1>2, <1>3, <2>12 DEF IInv, Types, ClaimRow, ClaimsTrue, Leased
    <3> QED  BY <3>1 DEF ClaimsTrue
  <2>14. DeliveredWasAccepted'
    <3>1. \A d \in Delivery : rows[d].status = "delivered" => rows[d].dest \in accepted[d]
      <4>1. ASSUME NEW d \in Delivery, rows[d].status = "delivered"
            PROVE  rows[d].dest \in accepted[d]
        <5>1. CASE d = c.d
          BY <2>2, <2>3, <2>4, <4>1, <5>1
        <5>2. CASE d # c.d
          BY <2>4, <4>1, <5>2 DEF IInv, DeliveredWasAccepted
        <5> QED  BY <5>1, <5>2
      <4> QED  BY <4>1
    <3> QED  BY <1>2, <2>5, <3>1 DEF DeliveredWasAccepted, Quieter
  <2>15. ASSUME NEW d \in Delivery, delivery[d].status \in Terminal
         PROVE  delivery'[d].status = delivery[d].status
    BY <2>2, <2>4, <2>5, <2>15 DEF Quieter, Terminal
  <2> QED  BY <2>7, <2>8, <2>9, <2>10, <2>11, <2>13, <2>14, <2>15 DEF IInv
<1> QED  BY <1>4, <1>5

(* An operator replays a finished delivery.                                *)
LEMMA ReplayKeeps ==
  ASSUME IInv, NEW d \in Delivery, Replay(d)
  PROVE  /\ IInv' /\ delivery'[d].replays > delivery[d].replays
         /\ \A x \in Delivery : x # d => delivery'[x] = delivery[x]
<1>1. /\ delivery \in [Delivery -> DeliveryRow] /\ endpoint[EndpointOf(d)].url \in Urls
      /\ delivery' = [delivery EXCEPT
            ![d].status = "pending", ![d].dest = endpoint[EndpointOf(d)].url, ![d].cycle = 0,
            ![d].replays = @ + 1, ![d].due = TRUE, ![d].token = 0, ![d].expired = FALSE]
      /\ accepted' = [accepted EXCEPT ![d] = {}]
      /\ delivery[d].status \in Terminal
      /\ UNCHANGED <<endpoint, event, publishing, attempts, pruning, batch, claims>>
  BY DeliveryParts DEF Replay, IInv, Types, EndpointRow
<1>2. /\ delivery' \in [Delivery -> DeliveryRow]
      /\ \A x \in Delivery : x # d => delivery'[x] = delivery[x] /\ accepted'[x] = accepted[x]
      /\ delivery'[d].status = "pending" /\ delivery'[d].count = delivery[d].count
      /\ delivery'[d].token = 0 /\ delivery'[d].replays > delivery[d].replays
  <2> DEFINE was == delivery[d]
             url == endpoint[EndpointOf(d)].url
             more == was.replays + 1
             now == [was EXCEPT !.status = "pending", !.dest = url, !.cycle = 0, !.replays = more,
                                !.due = TRUE, !.token = 0, !.expired = FALSE]
  <2>1. was \in DeliveryRow /\ url \in Urls /\ was.replays \in Nat
          /\ more \in Nat /\ more > was.replays
    BY <1>1 DEF DeliveryRow
  <2>2. delivery' = [delivery EXCEPT ![d] = now]
    BY <1>1
  <2>3. accepted \in [Delivery -> SUBSET Urls]
    BY DEF IInv, Types
  <2> HIDE DEF was, url, more
  <2>4. /\ now \in DeliveryRow /\ now.status = "pending" /\ now.count = was.count
        /\ now.token = 0 /\ now.replays = more
    BY <2>1 DEF DeliveryRow, Open
  <2> HIDE DEF now
  <2>5. /\ delivery' \in [Delivery -> DeliveryRow] /\ delivery'[d] = now
        /\ \A x \in Delivery : x # d => delivery'[x] = delivery[x]
    <3>1. delivery \in [Delivery -> DeliveryRow] BY <1>1
    <3> QED  BY <2>2, <2>4, <3>1
  <2>6. \A x \in Delivery : x # d => accepted'[x] = accepted[x]
    <3>1. accepted' = [accepted EXCEPT ![d] = {}] BY <1>1
    <3> QED  BY <2>3, <3>1
  <2> QED  BY <2>1, <2>4, <2>5, <2>6 DEF was
<1>3. Types'
  <2>1. accepted' \in [Delivery -> SUBSET Urls]
    BY <1>1 DEF IInv, Types
  <2> QED  BY <1>1, <1>2, <2>1 DEF IInv, Types
<1>4. SecretsKept'
  BY <1>1 DEF IInv, SecretsKept
<1>5. EventsKept'
  BY <1>1, <1>2, DeliveryParts DEF IInv, EventsKept, Terminal
<1>k. endpoint' = endpoint /\ batch' = batch /\ claims' = claims /\ claims \in Nat
  BY <1>1 DEF IInv, Types
<1>6. LeasesHeld'
  <2> SUFFICES ASSUME NEW x \in Delivery
               PROVE  /\ delivery'[x].token <= claims
                      /\ delivery'[x].status = "processing" => /\ endpoint[EndpointOf(x)].status = "active"
                                                               /\ delivery'[x].token # 0
    BY <1>k DEF LeasesHeld
  <2>1. CASE x = d
    BY <1>2, <1>k, <2>1
  <2>2. CASE x # d
    BY <1>2, <2>2 DEF IInv, LeasesHeld
  <2> QED  BY <2>1, <2>2
<1>7. AttemptsCounted'
  <2>1. attempts' = attempts
    BY <1>1
  <2> SUFFICES ASSUME NEW x \in Delivery
               PROVE  /\ \A n \in attempts[x] : n <= delivery'[x].count
                      /\ delivery'[x].status = "processing" => delivery'[x].count \notin attempts[x]
                      /\ delivery'[x].status = "absent" => attempts[x] = {}
    BY <2>1 DEF AttemptsCounted
  <2>2. CASE x = d
    BY <1>2, <2>2 DEF IInv, AttemptsCounted
  <2>3. CASE x # d
    BY <1>2, <2>3 DEF IInv, AttemptsCounted
  <2> QED  BY <2>2, <2>3
<1>8. ClaimsTrue'
  <2>1. ASSUME NEW w \in Worker, NEW c \in batch[w]
        PROVE  /\ c.token \in 1 .. claims /\ c.d \in Delivery
               /\ Leased(c)' => Leased(c) /\ c.d # d
    <3>1. c.token \in 1 .. claims /\ c.d \in Delivery
      BY DEF IInv, Types, ClaimRow, ClaimsTrue
    <3>2. delivery'[d].status # "processing"
      BY <1>2
    <3>3. c.d # d => delivery'[c.d] = delivery[c.d]
      BY <1>2, <3>1
    <3> QED  BY <3>1, <3>2, <3>3 DEF Leased
  <2>2. ASSUME NEW w \in Worker, NEW c \in batch[w], Leased(c)'
        PROVE  /\ c.dest = delivery'[c.d].dest
               /\ c.result = "ok" => c.dest \in accepted'[c.d]
    <3>1. c.d \in Delivery /\ c.d # d /\ Leased(c)
      BY <2>1, <2>2
    <3>2. delivery'[c.d] = delivery[c.d] /\ accepted'[c.d] = accepted[c.d]
      BY <1>2, <3>1
    <3> QED  BY <3>1, <3>2 DEF IInv, ClaimsTrue
  <2> QED  BY <1>k, <2>1, <2>2 DEF ClaimsTrue
<1>9. DeliveredWasAccepted'
  BY <1>1, <1>2 DEF IInv, DeliveredWasAccepted
<1> QED  BY <1>2, <1>3, <1>4, <1>5, <1>6, <1>7, <1>8, <1>9 DEF IInv

(* Prune selects finished rows without a lock.                             *)
LEMMA PruneSelectKeeps ==
  ASSUME IInv, NEW old \in SUBSET Event, NEW S \in SUBSET Delivery, PruneSelect(old, S)
  PROVE  IInv'
<1>1. /\ endpoint' = [e \in Endpoint |->
            IF endpoint[e].lapsed THEN [endpoint[e] EXCEPT !.previous = 0, !.lapsed = FALSE]
                                  ELSE endpoint[e]]
      /\ pruning' = [open |-> TRUE, old |-> old, ids |-> S]
      /\ UNCHANGED <<event, publishing, delivery, attempts, batch, claims, accepted>>
  BY DEF PruneSelect
<1>2. ASSUME NEW e \in Endpoint
      PROVE  /\ endpoint'[e] \in EndpointRow /\ endpoint'[e].status = endpoint[e].status
             /\ endpoint'[e].secret = endpoint[e].secret
             /\ endpoint'[e].previous \in {0, endpoint[e].previous}
  <2>1. endpoint[e] \in EndpointRow
    BY DEF IInv, Types
  <2>2. CASE endpoint[e].lapsed
    <3>1. endpoint'[e] = [endpoint[e] EXCEPT !.previous = 0, !.lapsed = FALSE]
      BY <1>1, <2>2
    <3>2. [endpoint[e] EXCEPT !.previous = 0, !.lapsed = FALSE] \in EndpointRow
      BY <2>1 DEF EndpointRow
    <3> QED  BY <2>1, <3>1, <3>2 DEF EndpointRow
  <2>3. CASE ~endpoint[e].lapsed
    BY <1>1, <2>1, <2>3
  <2> QED  BY <2>2, <2>3
<1>3. Types'
  <2>1. endpoint' \in [Endpoint -> EndpointRow]
    BY <1>1, <1>2
  <2> QED  BY <1>1, <2>1 DEF IInv, Types
<1>4. SecretsKept'
  BY <1>2 DEF IInv, SecretsKept
<1>5. LeasesHeld'
  BY <1>1, <1>2, DeliveryParts DEF IInv, LeasesHeld
<1>6. EventsKept' /\ AttemptsCounted' /\ ClaimsTrue' /\ DeliveredWasAccepted'
  BY <1>1 DEF IInv, EventsKept, AttemptsCounted, ClaimsTrue, Leased, DeliveredWasAccepted
<1> QED  BY <1>3, <1>4, <1>5, <1>6 DEF IInv

(* Prune deletes by id what it selected.                                   *)
LEMMA PruneDeleteKeeps ==
  ASSUME IInv, NEW E \in SUBSET Event, PruneDelete(E)
  PROVE  /\ IInv'
         /\ \A d \in Delivery : delivery'[d] = delivery[d] \/ delivery'[d].status = "absent"
<1> DEFINE ids == pruning.ids
<1>1. /\ delivery' = [d \in Delivery |-> IF d \in ids THEN NoDelivery ELSE delivery[d]]
      /\ attempts' = [d \in Delivery |-> IF d \in ids THEN {} ELSE attempts[d]]
      /\ accepted' = [d \in Delivery |-> IF d \in ids THEN {} ELSE accepted[d]]
      /\ event' = [v \in Event |-> IF v \in E THEN "none" ELSE event[v]]
      /\ E \subseteq Childless /\ pruning' = NoPrune
      /\ UNCHANGED <<endpoint, publishing, batch, claims>>
  BY DEF PruneDelete
<1>2. NoDelivery \in DeliveryRow /\ NoDelivery.status = "absent" /\ NoDelivery.token = 0
  BY DEF NoDelivery, DeliveryRow, Urls
<1>3. \A d \in Delivery :
        \/ d \in ids /\ delivery'[d] = NoDelivery /\ attempts'[d] = {}
        \/ d \notin ids /\ delivery'[d] = delivery[d] /\ attempts'[d] = attempts[d]
                       /\ accepted'[d] = accepted[d]
  BY <1>1
<1>4. ASSUME NEW d \in Delivery, d \notin ids, delivery[d].status # "absent"
      PROVE  EventOf(d) \notin E
  BY <1>1, <1>4 DEF Childless
<1> HIDE DEF ids
<1>5. Types'
  BY <1>1, <1>2 DEF IInv, Types, NoPrune
<1>6. SecretsKept'
  BY <1>1 DEF IInv, SecretsKept
<1>7. EventsKept'
  <2>1. \A d \in Delivery : delivery'[d].status # "absent" => event'[EventOf(d)] # "none"
    BY <1>1, <1>2, <1>3, <1>4, DeliveryParts DEF IInv, EventsKept
  <2>2. \A v \in Event : publishing'[v] # NoPublication => event'[v] = "none" /\ publishing'[v].type # "none"
    BY <1>1 DEF IInv, EventsKept
  <2> QED  BY <2>1, <2>2 DEF EventsKept
<1>8. LeasesHeld'
  BY <1>1, <1>2, <1>3 DEF IInv, Types, LeasesHeld
<1>9. AttemptsCounted'
  BY <1>1, <1>2, <1>3 DEF IInv, AttemptsCounted
<1>10. ClaimsTrue'
  BY <1>1, <1>2, <1>3 DEF IInv, Types, ClaimRow, ClaimsTrue, Leased
<1>11. DeliveredWasAccepted'
  BY <1>1, <1>2, <1>3 DEF IInv, DeliveredWasAccepted
<1> QED  BY <1>2, <1>3, <1>5, <1>6, <1>7, <1>8, <1>9, <1>10, <1>11 DEF IInv

(* Time only turns flags. *)
LEMMA TimeKeeps ==
  ASSUME IInv, NEW d \in Delivery, FallsDue(d) \/ Expires(d)
  PROVE  /\ IInv'
         /\ \A x \in Delivery : delivery'[x].status = delivery[x].status
<1>0. delivery \in [Delivery -> DeliveryRow]
  BY DEF IInv, Types
<1>1. /\ delivery' \in [Delivery -> DeliveryRow]
      /\ \A x \in Delivery : /\ delivery'[x].status = delivery[x].status
                             /\ Quieter(delivery[x], delivery'[x])
  <2>1. CASE FallsDue(d)
    BY <1>0, <2>1 DEF FallsDue, DeliveryRow, Quieter
  <2>2. CASE Expires(d)
    BY <1>0, <2>2 DEF Expires, DeliveryRow, Quieter
  <2> QED  BY <2>1, <2>2
<1>2. UNCHANGED <<endpoint, event, publishing, attempts, pruning, batch, claims, accepted>>
  BY DEF FallsDue, Expires
<1>3. Types'
  BY <1>1, <1>2 DEF IInv, Types
<1>4. SecretsKept'
  BY <1>2 DEF IInv, SecretsKept
<1>5. LeasesHeld'
  BY <1>1, <1>2, QuietStep DEF IInv, LeasesHeld, Quieter
<1> QED  BY <1>1, <1>2, <1>3, <1>4, <1>5, QuietStep DEF IInv

-----------------------------------------------------------------------------
(* The theorems.                                                           *)

(* Every step preserves the invariant.                                     *)
LEMMA StepIInv == IInv /\ [Next]_vars => IInv'
<1> SUFFICES ASSUME IInv, [Next]_vars
             PROVE  IInv'
  OBVIOUS
<1>1. ASSUME NEW e \in Endpoint, Manage(e) \/ Lapses(e)
      PROVE  IInv'
  BY <1>1, CreateEndpointKeeps, UpdateEndpointKeeps, ReplaceEndpointStatusKeeps, DeleteEndpointKeeps,
    RotateEndpointSecretKeeps, LapsesKeeps DEF Manage, Configure, Retire
<1>2. ASSUME NEW v \in Event, PublishWebhook(v)
      PROVE  IInv'
  <2>1. \A target \in {{}} \cup {{e} : e \in Endpoint} : target \in SUBSET Endpoint
    OBVIOUS
  <2> QED  BY <1>2, <2>1, PublishReadKeeps, PublishCommitKeeps, PublishRollbackKeeps DEF PublishWebhook
<1>3. ASSUME NEW w \in Worker, DispatchWebhooks(w) \/ GiveUp(w)
      PROVE  IInv'
  BY <1>3, ClaimDueKeeps, SendKeeps, CompleteKeeps, GiveUpKeeps DEF DispatchWebhooks
<1>4. ASSUME NEW d \in Delivery, Replay(d) \/ FallsDue(d) \/ Expires(d)
      PROVE  IInv'
  BY <1>4, ReplayKeeps, TimeKeeps
<1>5. CASE PruneWebhookHistory
  BY <1>5, PruneSelectKeeps, PruneDeleteKeeps DEF PruneWebhookHistory
<1>6. CASE UNCHANGED vars
  BY <1>6 DEF vars, IInv, Types, SecretsKept, EventsKept, LeasesHeld, AttemptsCounted, ClaimsTrue,
    Leased, DeliveredWasAccepted
<1> QED  BY <1>1, <1>2, <1>3, <1>4, <1>5, <1>6 DEF Next

(* Only a replay reopens what is finished. *)
LEMMA StepFinished ==
  ASSUME IInv, [Next]_vars, NEW d \in Delivery, delivery[d].status \in Terminal,
         delivery'[d].status # delivery[d].status
  PROVE  delivery'[d].status = "absent" \/ delivery'[d].replays > delivery[d].replays
<1>0. delivery \in [Delivery -> DeliveryRow] /\ delivery[d].status # "absent"
  BY DEF IInv, Types, Terminal
<1>1. ASSUME NEW e \in Endpoint, Manage(e) \/ Lapses(e)
      PROVE  FALSE
  <2>1. \/ delivery' = delivery
        \/ delivery' = CanceledOpen(delivery, e)
    BY <1>1 DEF Manage, Configure, Retire, CreateEndpoint, UpdateEndpoint, ReplaceEndpointStatus,
      DeleteEndpoint, RotateEndpointSecret, Lapses
  <2> QED  BY <1>0, <2>1, CanceledOpenQuiets DEF Quieter
<1>2. ASSUME NEW v \in Event, PublishWebhook(v)
      PROVE  FALSE
  <2>1. CASE PublishCommit(v)
    BY <1>0, <2>1, PublishCommitKeeps
  <2>2. CASE ~PublishCommit(v)
    BY <1>2, <2>2 DEF PublishWebhook, PublishRead, PublishRollback
  <2> QED  BY <2>1, <2>2
<1>3. ASSUME NEW w \in Worker, DispatchWebhooks(w) \/ GiveUp(w)
      PROVE  FALSE
  <2>1. ASSUME NEW S \in SUBSET Delivery, ClaimDue(w, S)
        PROVE  FALSE
    BY <2>1, ClaimDueKeeps
  <2>2. ASSUME NEW c \in batch[w], Complete(w, c)
        PROVE  FALSE
    BY <2>2, CompleteKeeps
  <2>3. CASE UNCHANGED delivery
    BY <2>3
  <2> QED  BY <1>3, <2>1, <2>2, <2>3 DEF DispatchWebhooks, Send, GiveUp
<1>4. ASSUME NEW x \in Delivery, Replay(x)
      PROVE  delivery'[d].replays > delivery[d].replays
  BY <1>0, <1>4, ReplayKeeps
<1>5. ASSUME NEW x \in Delivery, FallsDue(x) \/ Expires(x)
      PROVE  FALSE
  BY <1>5, TimeKeeps
<1>6. CASE PruneWebhookHistory
  <2>1. ASSUME NEW E \in SUBSET Event, PruneDelete(E)
        PROVE  delivery'[d].status = "absent"
    BY <2>1, PruneDeleteKeeps
  <2> QED  BY <1>6, <2>1 DEF PruneWebhookHistory, PruneSelect
<1>7. CASE UNCHANGED vars
  BY <1>7 DEF vars
<1> QED  BY <1>1, <1>2, <1>3, <1>4, <1>5, <1>6, <1>7 DEF Next

(* The state predicates of OutboxSound follow from the invariant. *)
LEMMA IInvSound ==
  IInv => TypeOK /\ DeliveredWasAccepted /\ LeaseNeedsActiveEndpoint /\ AttemptsAreNew
<1> SUFFICES ASSUME IInv
             PROVE  TypeOK /\ DeliveredWasAccepted /\ LeaseNeedsActiveEndpoint /\ AttemptsAreNew
  OBVIOUS
<1>1. TypeOK
  BY DEF IInv, Types, ClaimsTrue, TypeOK, EndpointRow, DeliveryRow, ClaimRow, Urls
<1>2. LeaseNeedsActiveEndpoint
  BY DeliveryParts DEF IInv, SecretsKept, LeasesHeld, LeaseNeedsActiveEndpoint
<1>3. AttemptsAreNew
  BY DEF IInv, Types, ClaimRow, AttemptsCounted, AttemptsAreNew, Leased
<1> QED  BY <1>1, <1>2, <1>3 DEF IInv

(* The outbox is sound for every set of endpoints, events, urls and        *)
(* workers: delivered means accepted by the receiver the row is bound to,  *)
(* only active endpoints are served, attempts never collide, and only a    *)
(* replay reopens what is finished (ClaimDue, Complete, Replay, Prune).    *)
THEOREM OutboxIsSound == Spec => OutboxSound
<1>1. IInv /\ [Next]_vars =>
        [\A d \in Delivery :
           delivery[d].status \in Terminal /\ delivery'[d].status # delivery[d].status =>
             delivery'[d].status = "absent" \/ delivery'[d].replays > delivery[d].replays]_vars
  BY StepFinished
<1> QED  BY <1>1, InitIInv, StepIInv, IInvSound, PTL DEF Spec, OutboxSound, FinishedStays
=============================================================================
