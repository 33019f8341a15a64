------------------------ MODULE NotificationDelivery ------------------------
(* Notifications of a user (api/internal/modules/notification): published  *)
(* once per key, shown in the application, and mailed by workers under a   *)
(* lease to the one address a delivery is bound to.                        *)
EXTENDS Naturals, FiniteSets

CONSTANTS
  Note,         \* ids of notifications, in the order of their creation
  Address,      \* e-mail addresses the user may have
  Mailer,       \* processes that run DispatchDue
  MailAttempts, \* maxDeliveryAttempts
  MailBatch     \* the limit of one dispatch

NotificationAssumption ==
  /\ Note \subseteq Nat /\ MailAttempts \in Nat \ {0} /\ MailBatch \in Nat \ {0}
  /\ {"none", "gone"} \cap Address = {}

VARIABLES
  note,       \* rows of notifications, with their in-app delivery
  mail,       \* their e-mail deliveries
  preference, \* channels the user has switched on
  address,    \* the user's address; "gone" when the account is deleted
  desk,       \* claims a mailer has yet to dispatch
  turn,       \* what a mailer does next when its desk is empty
  mailed      \* history: addresses a notification was sent to

notificationVars == <<note, mail, preference, address, desk, turn, mailed>>

Channel == {"in_app", "email"}

NoNote == [published |-> FALSE, visible |-> FALSE, read |-> FALSE]
NoMail == [status |-> "absent", attempts |-> 0, due |-> FALSE, leased |-> 0,
           expired |-> FALSE, dest |-> "none"]

NotificationInit ==
  /\ note = [n \in Note |-> NoNote]
  /\ mail = [n \in Note |-> NoMail]
  /\ preference = Channel
  /\ address \in Address
  /\ desk = [w \in Mailer |-> {}]
  /\ turn = [w \in Mailer |-> "sweep"]
  /\ mailed = [n \in Note |-> {}]

-----------------------------------------------------------------------------
(* The application and the user.                                           *)

(* normalizePublication: what is required is among what is asked for.      *)
ValidPublication(channels, required) == channels # {} /\ required \subseteq channels

(* selectPublicationChannels *)
SelectedChannels(channels, required) ==
  {c \in channels : c \in required \/ c \in preference}

(* CreatePublication of a new key. A known key is answered with what it    *)
(* created, or refused when the content differs: nothing changes.          *)
CreatePublication(n, channels, required) ==
  /\ ~note[n].published
  /\ \A k \in Note : k < n => note[k].published
  /\ ValidPublication(channels, required)
  /\ LET chosen == SelectedChannels(channels, required) IN
     /\ note' = [note EXCEPT ![n] = [published |-> TRUE, read |-> FALSE,
                                     visible |-> "in_app" \in chosen]]
     /\ mail' = [mail EXCEPT ![n] =
          IF "email" \in chosen THEN [NoMail EXCEPT !.status = "pending", !.due = TRUE] ELSE @]
  /\ UNCHANGED <<preference, address, desk, turn, mailed>>

(* Only what is visible in the application can be read. *)
ReplaceReadState(n, isRead) ==
  /\ note[n].visible
  /\ note' = [note EXCEPT ![n].read = isRead]
  /\ UNCHANGED <<mail, preference, address, desk, turn, mailed>>

MarkReadThrough(through) ==
  /\ note' = [n \in Note |->
       [note[n] EXCEPT !.read = @ \/ (note[n].visible /\ n <= through)]]
  /\ UNCHANGED <<mail, preference, address, desk, turn, mailed>>

ReplacePreference(channels) ==
  /\ preference' = channels
  /\ UNCHANGED <<note, mail, address, desk, turn, mailed>>

(* The account changes its address, or is deleted. *)
Readdress(a) ==
  /\ address # "gone" /\ address' = a
  /\ UNCHANGED <<note, mail, preference, desk, turn, mailed>>

-----------------------------------------------------------------------------
(* DispatchDue.                                                            *)

Lapsed(n) == mail[n].status = "processing" /\ mail[n].expired

(* Mutant of FailExhausted: a lapsed lease is not looked at. *)
FailPendingOnly(w) ==
  /\ desk[w] = {} /\ turn[w] = "sweep"
  /\ mail' = [n \in Note |->
       IF mail[n].attempts >= MailAttempts /\ mail[n].status = "pending"
       THEN [mail[n] EXCEPT !.status = "failed", !.leased = 0, !.expired = FALSE]
       ELSE mail[n]]
  /\ turn' = [turn EXCEPT ![w] = "claim"]
  /\ UNCHANGED <<note, preference, address, desk, mailed>>

FailExhausted(w) ==
  /\ desk[w] = {} /\ turn[w] = "sweep"
  /\ mail' = [n \in Note |->
       IF mail[n].attempts >= MailAttempts /\ (mail[n].status = "pending" \/ Lapsed(n))
       THEN [mail[n] EXCEPT !.status = "failed", !.leased = 0, !.expired = FALSE]
       ELSE mail[n]]
  /\ turn' = [turn EXCEPT ![w] = "claim"]
  /\ UNCHANGED <<note, preference, address, desk, mailed>>

DueMail ==
  {n \in Note : /\ mail[n].attempts < MailAttempts
                /\ (mail[n].status = "pending" /\ mail[n].due) \/ Lapsed(n)}

(* A claim with the envelope it read; the number of the attempt stands for *)
(* the lease token, which is drawn anew with it.                           *)
MailClaim(n) ==
  [n |-> n, token |-> mail[n].attempts + 1, to |-> address, dest |-> mail[n].dest,
   stage |-> "claimed"]

ClaimDueEmail(w, S) ==
  /\ desk[w] = {} /\ turn[w] = "claim"
  /\ S \subseteq DueMail
  /\ Cardinality(S) = IF Cardinality(DueMail) < MailBatch THEN Cardinality(DueMail)
                                                          ELSE MailBatch
  /\ mail' = [n \in Note |->
       IF n \in S
       THEN [mail[n] EXCEPT !.status = "processing", !.attempts = @ + 1,
                            !.leased = mail[n].attempts + 1, !.expired = FALSE]
       ELSE mail[n]]
  /\ desk' = [desk EXCEPT ![w] = {MailClaim(n) : n \in S}]
  /\ turn' = [turn EXCEPT ![w] = "sweep"]
  /\ UNCHANGED <<note, preference, address, mailed>>

(* One claim of a desk is dispatched at a time. *)
AtHand(w, c) == c \in desk[w] /\ \A b \in desk[w] : b # c => b.stage = "claimed"

Advance(w, c, stage) ==
  desk' = [desk EXCEPT ![w] = (@ \ {c}) \cup {[c EXCEPT !.stage = stage]}]

Drop(w, c) == desk' = [desk EXCEPT ![w] = @ \ {c}]

HoldsMail(c) == mail[c.n].status = "processing" /\ mail[c.n].leased = c.token

(* No recipient, or another one than the delivery is bound to. *)
Undeliverable(c) == c.to = "gone" \/ c.dest \notin {"none", c.to}

(* CompleteEmail: only the present holder of the lease writes. *)
CompleteEmail(c, status) ==
  mail' = IF HoldsMail(c)
          THEN [mail EXCEPT ![c.n].status = status, ![c.n].leased = 0,
                            ![c.n].expired = FALSE, ![c.n].due = FALSE]
          ELSE mail

RejectClaim(w, c) ==
  /\ AtHand(w, c) /\ c.stage = "claimed" /\ Undeliverable(c)
  /\ CompleteEmail(c, "failed")
  /\ Drop(w, c)
  /\ UNCHANGED <<note, preference, address, turn, mailed>>

(* Mutant of BindEmailDestination: the lease is not compared. *)
BindUnfenced(w, c) ==
  /\ AtHand(w, c) /\ c.stage = "claimed" /\ ~Undeliverable(c)
  /\ mail' = [mail EXCEPT ![c.n].dest = c.to]
  /\ Advance(w, c, "bound")
  /\ UNCHANGED <<note, preference, address, turn, mailed>>

(* The delivery is bound to the address, unless it is bound already or the *)
(* lease is another's: then the claim is dropped.                          *)
BindEmailDestination(w, c) ==
  /\ AtHand(w, c) /\ c.stage = "claimed" /\ ~Undeliverable(c)
  /\ \/ /\ HoldsMail(c) /\ mail[c.n].dest \in {"none", c.to}
        /\ mail' = [mail EXCEPT ![c.n].dest = c.to]
        /\ Advance(w, c, "bound")
     \/ /\ ~(HoldsMail(c) /\ mail[c.n].dest \in {"none", c.to})
        /\ Drop(w, c)
        /\ UNCHANGED mail
  /\ UNCHANGED <<note, preference, address, turn, mailed>>

(* What the provider answers; a failure may come after the mail was taken. *)
MailResults == {"sent", "retry", "rejected"}

SendEmail(w, c, result) ==
  /\ AtHand(w, c) /\ c.stage = "bound"
  /\ Advance(w, c, result)
  /\ mailed' = IF result = "rejected" THEN mailed
               ELSE [mailed EXCEPT ![c.n] = @ \cup {c.to}]
  /\ UNCHANGED <<note, mail, preference, address, turn>>

(* What dispatchEmail makes of the answer. *)
MailVerdict(c) ==
  CASE c.stage = "sent" -> "delivered"
    [] c.stage = "retry" /\ c.token < MailAttempts -> "pending"
    [] OTHER -> "failed"

FinishEmail(w, c) ==
  /\ AtHand(w, c) /\ c.stage \in MailResults
  /\ CompleteEmail(c, MailVerdict(c))
  /\ Drop(w, c)
  /\ UNCHANGED <<note, preference, address, turn, mailed>>

(* The process stops, or a statement fails: the rest of the batch is left. *)
AbandonDesk(w) ==
  /\ desk[w] # {}
  /\ desk' = [desk EXCEPT ![w] = {}]
  /\ UNCHANGED <<note, mail, preference, address, turn, mailed>>

(* Time: a retry falls due, a lease runs out. *)
MailFallsDue(n) ==
  /\ mail[n].status = "pending" /\ ~mail[n].due
  /\ mail' = [mail EXCEPT ![n].due = TRUE]
  /\ UNCHANGED <<note, preference, address, desk, turn, mailed>>

MailLeaseEnds(n) ==
  /\ mail[n].status = "processing" /\ ~mail[n].expired
  /\ mail' = [mail EXCEPT ![n].expired = TRUE]
  /\ UNCHANGED <<note, preference, address, desk, turn, mailed>>

-----------------------------------------------------------------------------
DispatchEmail(w) ==
  \E c \in desk[w] : \/ RejectClaim(w, c) \/ BindEmailDestination(w, c) \/ FinishEmail(w, c)
                     \/ \E r \in MailResults : SendEmail(w, c, r)

DispatchDue(w) ==
  \/ FailExhausted(w)
  \/ \E S \in SUBSET Note : ClaimDueEmail(w, S)
  \/ DispatchEmail(w)

(* Publish, from the application's own code. *)
PublishNotification ==
  \E n \in Note, channels, required \in SUBSET Channel :
    CreatePublication(n, channels, required)

(* Requests of the user. *)
ReadRequests ==
  \/ \E n \in Note, isRead \in BOOLEAN : ReplaceReadState(n, isRead)
  \/ \E n \in Note : MarkReadThrough(n)

PreferenceRequests == \E channels \in SUBSET Channel : ReplacePreference(channels)

NotificationNext ==
  \/ PublishNotification \/ ReadRequests \/ PreferenceRequests
  \/ \E a \in Address \cup {"gone"} : Readdress(a)
  \/ \E w \in Mailer : DispatchDue(w) \/ AbandonDesk(w)
  \/ \E n \in Note : MailFallsDue(n) \/ MailLeaseEnds(n)

(* notification:work polls, and time goes on. *)
NotificationFairness ==
  /\ \A w \in Mailer : WF_notificationVars(DispatchDue(w))
  /\ \A n \in Note : WF_notificationVars(MailFallsDue(n)) /\ WF_notificationVars(MailLeaseEnds(n))

NotificationSpec ==
  NotificationInit /\ [][NotificationNext]_notificationVars /\ NotificationFairness

-----------------------------------------------------------------------------
(* All mails of a notification go to one address, the one its delivery is  *)
(* bound to, however often the user's address and the lease change hands.  *)
OneDestination ==
  \A n \in Note : mailed[n] \subseteq {mail[n].dest} \ {"none"}

(* A delivery counts as delivered only if a mail was handed over, and it   *)
(* is tried no more often than allowed.                                    *)
MailAccounted ==
  \A n \in Note : /\ mail[n].attempts <= MailAttempts
                  /\ mail[n].status = "delivered" => mailed[n] # {}
                  /\ mail[n].status = "processing" <=> mail[n].leased # 0

(* Every e-mail delivery ends, delivered or failed, even if every process  *)
(* that claims it stops at the worst moment.                               *)
MailSettles ==
  \A n \in Note : mail[n].status \in {"pending", "processing"} ~>
                  mail[n].status \in {"delivered", "failed"}
=============================================================================
