--------------------------- MODULE DeliveriesProofs ---------------------------
(* Proofs about the deliveries: e-mails, keyed dispatches, jobs and retried    *)
(* steps, audit records and the server's shutdown. Each component has its own  *)
(* inductive invariant; a step of MCDeliveries is a step of one component and  *)
(* a stutter of the rest.                                                      *)
EXTENDS MCDeliveries, Sequences, FiniteSetTheorems, TLAPS

(***************************************************************************)
(* Notification e-mails.                                                   *)
(***************************************************************************)

MailStatus == {"absent", "pending", "processing", "delivered", "failed"}
MailRow == [status : MailStatus, attempts : Nat, due : BOOLEAN, leased : Nat,
            expired : BOOLEAN, dest : Address \cup {"none"}]
MailStage == {"claimed", "bound", "sent", "retry", "rejected"}
MailClaims == [n : Note, token : Nat, to : Address \cup {"gone"},
               dest : Address \cup {"none"}, stage : MailStage]

NoteRow == [published : BOOLEAN, visible : BOOLEAN, read : BOOLEAN]

MailType ==
  /\ mail \in [Note -> MailRow]
  /\ mailed \in [Note -> SUBSET Address]
  /\ address \in Address \cup {"gone"}
  /\ desk \in [Mailer -> SUBSET MailClaims]
  /\ note \in [Note -> NoteRow]

(* A delivery that was never published was never tried; only a lease that  *)
(* is held has a number, the number of an attempt.                         *)
MailRowOK(n) ==
  /\ ~note[n].published => mail[n] = N!NoMail /\ mailed[n] = {}
  /\ mail[n].attempts <= MailAttempts
  /\ mail[n].status = "processing" <=> mail[n].leased # 0
  /\ mail[n].status = "delivered" => mailed[n] # {}
  /\ mailed[n] \subseteq {mail[n].dest} \ {"none"}

(* A claim past its binding is bound to the address of the delivery, and   *)
(* after the provider took the mail the history says so.                   *)
MailClaimOK(c) ==
  /\ c.token \in 1 .. mail[c.n].attempts
  /\ c.stage # "claimed" => c.to \in Address /\ mail[c.n].dest = c.to
  /\ c.stage \in {"sent", "retry"} => c.to \in mailed[c.n]

MailInv ==
  /\ MailType
  /\ \A n \in Note : MailRowOK(n)
  /\ \A w \in Mailer : \A c \in desk[w] : MailClaimOK(c)

(***************************************************************************)
(* Dispatching under a key.                                                *)
(***************************************************************************)

IntakeRow == [id : Nat \ {0}, key : Key \cup {NoKey}, content : Content]

IntakeType ==
  /\ rows \subseteq stored /\ stored \subseteq IntakeRow
  /\ pc \in [Client -> {"idle", "create", "take"}]
  /\ dispatch \in [Client -> IntakeRow \cup {I!NoRequest}]
  /\ answer \in [Client -> [kind : {"none", "error", "conflict", "id"}, id : Nat]]
  /\ calls \in Nat

(* Ids are drawn once: what was ever stored under the id of a request is   *)
(* that request, and two clients never hold the same id.                   *)
IdsAreDrawnOnce ==
  /\ \A s \in stored : s.id <= calls
  /\ \A c \in Client : dispatch[c].id <= calls
  /\ \A s, t \in stored : s.id = t.id => s = t
  /\ \A c \in Client, s \in stored : s.id = dispatch[c].id => s = dispatch[c]
  /\ \A c, d \in Client : c # d /\ dispatch[c].id = dispatch[d].id => dispatch[c] = I!NoRequest

(* The unique index on the key. *)
KeysAreUnique == \A s, t \in rows : s.key = t.key /\ s.key # NoKey => s = t

(* A call under way has a request and no answer; only keyed ones look up.  *)
CallsUnderWay ==
  \A c \in Client :
    /\ pc[c] # "idle" => dispatch[c] \in IntakeRow /\ answer[c] = I!None
    /\ pc[c] = "take" => dispatch[c].key # NoKey

IntakeInv ==
  IntakeType /\ IdsAreDrawnOnce /\ KeysAreUnique /\ CallsUnderWay /\ I!AnswersAreTrue

(***************************************************************************)
(* The server.                                                             *)
(***************************************************************************)

ServerRequest == [at : {"new", "body limit", "handler", "answered"}, late : BOOLEAN, code : Nat,
                  written : BOOLEAN, bodies : Nat, query : BOOLEAN]
ProbeResults == UNION {[D -> S!Status] : D \in SUBSET Checker}
ServerProbe == [at : {"idle", "checking", "summing", "answered"}, results : ProbeResults,
                seen : SUBSET Checker, answer : S!Status \cup {"none"}]
Booting == {"off", "configured", "connected", "migrated", "assembled"}
Stopping == {"shutdown server", "shutdown starters", "shutdown tracer", "close database"}

ServerType ==
  /\ phase \in Booting \cup Stopping \cup {"serving", "exited"}
  /\ listening \in BOOLEAN
  /\ request \in [Request -> ServerRequest]
  /\ db \in {"none", "open", "closing", "closed"}
  /\ queued \in Nat /\ lost \in Nat /\ left \in Nat
  /\ probe \in ServerProbe

(* What the middleware has done with a request so far. *)
RequestOK(f) ==
  /\ f.at \in {"new", "body limit"} =>
       ~f.written /\ ~f.query /\ f.bodies = 0 /\ f.code = 0
  /\ f.at = "handler" =>
       /\ f.written => f.bodies = 1 /\ f.code \in {200, 500} /\ ~f.query
       /\ ~f.written => f.bodies = 0 /\ f.code \in {0, 204}
       /\ f.query => f.code = 0
  /\ f.at = "answered" => f.bodies = (IF f.code = 204 THEN 0 ELSE 1)

(* The order of gracefulShutdown: nothing is accepted once it began, the   *)
(* requests are gone when the starters stop unless the time ran out, and   *)
(* so is the queue of the audit records when the database closes.          *)
ShutdownOK ==
  /\ listening => phase = "serving"
  /\ db = "closing" => phase = "close database"
  /\ db = "closed" => phase = "exited"
  /\ /\ phase \in {"shutdown starters", "shutdown tracer", "close database"} \/ db = "closed"
     /\ left > 0
     => S!InFlight = {}
  /\ /\ phase \in {"shutdown tracer", "close database"} \/ db = "closed"
     /\ left > 0
     => lost = 0 /\ queued = 0
  /\ phase \in Booting \cup {"serving", "shutdown server", "shutdown starters"} => lost = 0

(* The status of a probe so far: the worst of the results visited. *)
WorstOf(D) ==
  IF \E c \in D : probe.results[c] = "down" THEN "down"
  ELSE IF \E c \in D : probe.results[c] = "degraded" THEN "degraded" ELSE "up"

ProbeOK ==
  /\ probe.at \in {"idle", "checking"} => probe.seen = {}
  /\ probe.at \in {"summing", "answered"} =>
       DOMAIN probe.results = Checker /\ probe.answer = WorstOf(probe.seen)
  /\ probe.at = "answered" => probe.seen = Checker \/ probe.answer = "down"

ServerInv ==
  /\ ServerType /\ ShutdownOK /\ ProbeOK
  /\ \A r \in Request : RequestOK(request[r])

(***************************************************************************)
(* The audit log.                                                          *)
(***************************************************************************)

AuditRow == [id : Nat, made : Nat, entry : Entry]
AuditFiling == [at : {"none", "locked", "direct", "queued", "stored", "lost"}, made : Nat]
AuditReader == [kind : {"own", "all"}, after : SUBSET AuditRow, got : Seq(AuditRow),
                more : BOOLEAN, due : SUBSET AuditRow]
AuditWriter == [async : BOOLEAN, stopped : BOOLEAN, draining : BOOLEAN, expired : BOOLEAN,
                at : {"loop", "flush", "rows", "done"}]

AuditType ==
  /\ filing \in [Entry -> AuditFiling]
  /\ auditQueue \in Seq(Entry) /\ auditBatch \in Seq(Entry)
  /\ writer \in AuditWriter
  /\ trail \subseteq AuditRow
  /\ nextRow \in Nat /\ day \in Nat /\ timeouts \in Nat
  /\ reader \in AuditReader \cup {A!NoReader}

Elements(s) == {s[i] : i \in DOMAIN s}

(* Every record the queue accepted is in the queue or in the batch, and    *)
(* once the writer has stopped nobody is on the way into the queue.        *)
WriterOK ==
  /\ \A e \in Entry : filing[e].at = "queued" => e \in Elements(auditQueue) \cup Elements(auditBatch)
  /\ writer.stopped \/ ~writer.async => \A e \in Entry : filing[e].at # "locked"
  /\ writer.draining => writer.stopped
  /\ writer.at = "done" => /\ auditQueue = <<>> /\ auditBatch = <<>>
                           /\ writer.stopped \/ ~writer.async
  /\ writer.expired => timeouts > 0
  /\ \A e \in Entry : filing[e].at = "lost" => e \in Unstorable \/ timeouts > 0

(* The sequence has not drawn the ids to come. *)
TrailOK == \A row \in trail : row.id < nextRow

(* The reader's place: the last row it got; what it still owes is behind.  *)
ReaderOK ==
  reader # A!NoReader =>
    /\ \A i, j \in DOMAIN reader.got : i < j => A!Newer(reader.kind, reader.got[i], reader.got[j])
    /\ reader.more => \/ reader.got = <<>> /\ reader.after = {}
                      \/ reader.got # <<>> /\ reader.after = {reader.got[Len(reader.got)]}
    /\ \A row \in reader.due : row.id < nextRow /\ (reader.kind = "all" => row.made < day)
    /\ \A row \in reader.due \cap trail :
         A!InHistory(reader.kind, row) =>
           \/ row \in Elements(reader.got)
           \/ reader.more /\ \A c \in reader.after : A!Newer(reader.kind, c, row)

AuditInv == AuditType /\ WriterOK /\ TrailOK /\ ReaderOK

(* No client has called and nothing is stored.                             *)
LEMMA IntakeInit == Init => IntakeInv
<1> SUFFICES ASSUME I!Init PROVE IntakeInv
  BY DEF Init
<1> USE DEF I!Init, I!None, I!NoRequest
<1>1. IntakeType BY DEF IntakeType
<1>2. IdsAreDrawnOnce BY DEF IdsAreDrawnOnce
<1> QED BY <1>1, <1>2 DEF IntakeInv, KeysAreUnique, CallsUnderWay, I!AnswersAreTrue

(* The row a client wants is inserted, or the INSERT's answer is lost. *)
LEMMA IntakeInsert ==
  ASSUME IntakeInv, NEW c \in Client, pc[c] = "create", ~I!Collides(dispatch[c]),
         rows' = rows \cup {dispatch[c]}, stored' = stored \cup {dispatch[c]},
         UNCHANGED <<dispatch, calls>>
  PROVE  /\ rows' \subseteq stored' /\ stored' \subseteq IntakeRow
         /\ IdsAreDrawnOnce' /\ KeysAreUnique'
<1>1. dispatch[c] \in IntakeRow /\ dispatch[c].id \in Nat \ {0}
  BY DEF IntakeInv, CallsUnderWay, IntakeRow
<1>2. rows' \subseteq stored' /\ stored' \subseteq IntakeRow
  BY <1>1 DEF IntakeInv, IntakeType
<1>3. KeysAreUnique'
  BY DEF IntakeInv, KeysAreUnique, I!Collides
<1>4. IdsAreDrawnOnce'
  <2>1. \A s \in stored' : s.id <= calls'
    BY DEF IntakeInv, IdsAreDrawnOnce
  <2>2. \A s, t \in stored' : s.id = t.id => s = t
    BY DEF IntakeInv, IdsAreDrawnOnce
  <2>3. \A d \in Client, s \in stored' : s.id = dispatch'[d].id => s = dispatch'[d]
    <3> SUFFICES ASSUME NEW d \in Client, dispatch[c].id = dispatch[d].id
                 PROVE  dispatch[c] = dispatch[d]
      BY DEF IntakeInv, IdsAreDrawnOnce
    <3>1. c # d => dispatch[c] = I!NoRequest
      BY DEF IntakeInv, IdsAreDrawnOnce
    <3> QED BY <1>1, <3>1 DEF I!NoRequest, IntakeRow
  <2> QED BY <2>1, <2>2, <2>3 DEF IntakeInv, IdsAreDrawnOnce
<1> QED BY <1>2, <1>3, <1>4

(* A client returns: everything but its place and its answer is as it was. *)
LEMMA IntakeReturn ==
  ASSUME IntakeInv, NEW c \in Client, NEW a \in [kind : {"none", "error", "conflict", "id"}, id : Nat],
         I!Return(c, a), UNCHANGED <<dispatch, calls>>,
         stored \subseteq stored',
         a.kind = "id" => \E s \in stored' : /\ s.id = a.id /\ s.key = dispatch[c].key
                                             /\ s.content = dispatch[c].content,
         a.kind = "conflict" => \E s \in stored' : /\ s.key = dispatch[c].key /\ s.key # NoKey
                                                   /\ s.content # dispatch[c].content
  PROVE  /\ pc' \in [Client -> {"idle", "create", "take"}]
         /\ dispatch' \in [Client -> IntakeRow \cup {I!NoRequest}]
         /\ answer' \in [Client -> [kind : {"none", "error", "conflict", "id"}, id : Nat]]
         /\ calls' \in Nat
         /\ CallsUnderWay' /\ I!AnswersAreTrue'
<1> USE DEF I!Return
<1>1. /\ pc' \in [Client -> {"idle", "create", "take"}]
      /\ dispatch' \in [Client -> IntakeRow \cup {I!NoRequest}]
      /\ calls' \in Nat
  BY DEF IntakeInv, IntakeType
<1>2. answer' \in [Client -> [kind : {"none", "error", "conflict", "id"}, id : Nat]]
  BY DEF IntakeInv, IntakeType
<1>3. CallsUnderWay'
  BY DEF IntakeInv, IntakeType, CallsUnderWay
<1>4. ASSUME NEW d \in Client
      PROVE  /\ answer'[d].kind = "id" =>
                  \E s \in stored' : /\ s.id = answer'[d].id
                                     /\ s.key = dispatch'[d].key
                                     /\ s.content = dispatch'[d].content
             /\ answer'[d].kind = "conflict" =>
                  \E s \in stored' : /\ s.key = dispatch'[d].key /\ s.key # NoKey
                                     /\ s.content # dispatch'[d].content
  <2>1. answer'[d] = IF d = c THEN a ELSE answer[d]
    BY DEF IntakeInv, IntakeType
  <2>2. CASE d = c BY <2>1, <2>2
  <2>3. CASE d # c BY <2>1, <2>3 DEF IntakeInv, I!AnswersAreTrue
  <2> QED BY <2>2, <2>3
<1> QED BY <1>1, <1>2, <1>3, <1>4 DEF I!AnswersAreTrue

(* Dispatch draws a fresh id: no row and no other client has it.           *)
LEMMA IntakeDispatch ==
  ASSUME IntakeInv, NEW c \in Client, NEW k \in Key \cup {NoKey}, NEW content \in Content,
         I!Dispatch(c, k, content)
  PROVE  IntakeInv'
<1> DEFINE r == [id |-> calls + 1, key |-> k, content |-> content]
<1> USE DEF I!Dispatch
<1>1. r \in IntakeRow /\ r.id = calls + 1 /\ calls \in Nat
  BY DEF IntakeInv, IntakeType, IntakeRow
<1>2. \A d \in Client : dispatch'[d] = IF d = c THEN r ELSE dispatch[d]
  BY DEF IntakeInv, IntakeType
<1>3. \A d \in Client : answer'[d] = IF d = c THEN I!None ELSE answer[d]
  BY DEF IntakeInv, IntakeType
<1>4. I!None \in [kind : {"none", "error", "conflict", "id"}, id : Nat] /\ I!None.kind = "none"
  BY DEF I!None
<1> HIDE DEF r
<1>5. IntakeType'
  BY <1>1, <1>4 DEF IntakeInv, IntakeType, r
<1>6. IdsAreDrawnOnce'
  <2>1. \A s \in stored : s.id \in Nat /\ s.id <= calls
    BY DEF IntakeInv, IntakeType, IdsAreDrawnOnce, IntakeRow
  <2>2. \A d \in Client : dispatch[d].id \in Nat /\ dispatch[d].id <= calls
    BY DEF IntakeInv, IntakeType, IdsAreDrawnOnce, IntakeRow, I!NoRequest
  <2>3. \A s \in stored' : s.id <= calls'
    BY <1>1, <2>1
  <2>4. \A d \in Client : dispatch'[d].id <= calls'
    BY <1>1, <1>2, <2>2
  <2>5. \A d \in Client, s \in stored' : s.id = dispatch'[d].id => s = dispatch'[d]
    <3> SUFFICES ASSUME NEW d \in Client, NEW s \in stored, s.id = dispatch'[d].id
                 PROVE  s = dispatch'[d]
      OBVIOUS
    <3>1. d # c BY <1>1, <1>2, <2>1
    <3> QED BY <1>2, <3>1 DEF IntakeInv, IdsAreDrawnOnce
  <2>6. \A d, e \in Client : d # e /\ dispatch'[d].id = dispatch'[e].id => dispatch'[d] = I!NoRequest
    <3> SUFFICES ASSUME NEW d \in Client, NEW e \in Client, d # e, dispatch'[d].id = dispatch'[e].id
                 PROVE  dispatch'[d] = I!NoRequest
      OBVIOUS
    <3>1. d # c /\ e # c BY <1>1, <1>2, <2>2
    <3> QED BY <1>2, <3>1 DEF IntakeInv, IdsAreDrawnOnce
  <2>7. \A s, t \in stored' : s.id = t.id => s = t
    BY DEF IntakeInv, IdsAreDrawnOnce
  <2> QED BY <2>3, <2>4, <2>5, <2>6, <2>7 DEF IdsAreDrawnOnce
<1>7. KeysAreUnique' BY DEF IntakeInv, KeysAreUnique
<1>8. CallsUnderWay'
  BY <1>1, <1>2, <1>3 DEF IntakeInv, IntakeType, CallsUnderWay
<1>9. I!AnswersAreTrue'
  BY <1>2, <1>3, <1>4 DEF IntakeInv, I!AnswersAreTrue
<1> QED BY <1>5, <1>6, <1>7, <1>8, <1>9 DEF IntakeInv

(* A caller repeats its own request, under the id it drew.                 *)
LEMMA IntakeRedispatch ==
  ASSUME IntakeInv, NEW c \in Client, I!Redispatch(c)
  PROVE  IntakeInv'
<1> USE DEF I!Redispatch
<1>1. \A d \in Client : answer'[d] = IF d = c THEN I!None ELSE answer[d]
  BY DEF IntakeInv, IntakeType
<1>2. I!None \in [kind : {"none", "error", "conflict", "id"}, id : Nat] /\ I!None.kind = "none"
  BY DEF I!None
<1>3. IntakeType' BY <1>2 DEF IntakeInv, IntakeType
<1>4. CallsUnderWay' BY <1>1 DEF IntakeInv, IntakeType, CallsUnderWay
<1>5. I!AnswersAreTrue' BY <1>1, <1>2 DEF IntakeInv, I!AnswersAreTrue
<1>6. IdsAreDrawnOnce' /\ KeysAreUnique' BY DEF IntakeInv, IdsAreDrawnOnce, KeysAreUnique
<1> QED BY <1>3, <1>4, <1>5, <1>6 DEF IntakeInv

(* A call that goes on to the SELECT, its row inserted or not. *)
LEMMA IntakeGoesOn ==
  ASSUME IntakeInv, NEW c \in Client, pc[c] = "create", dispatch[c].key # NoKey,
         pc' = [pc EXCEPT ![c] = "take"], UNCHANGED <<dispatch, answer, calls>>,
         stored \subseteq stored', rows' \subseteq stored', stored' \subseteq IntakeRow,
         IdsAreDrawnOnce', KeysAreUnique'
  PROVE  IntakeInv'
<1>1. IntakeType' BY DEF IntakeInv, IntakeType
<1>2. CallsUnderWay' BY DEF IntakeInv, IntakeType, CallsUnderWay
<1>3. I!AnswersAreTrue' BY DEF IntakeInv, I!AnswersAreTrue
<1> QED BY <1>1, <1>2, <1>3 DEF IntakeInv

(* Ids and keys are untouched when rows and requests are.                  *)
LEMMA IntakeSame ==
  ASSUME IntakeInv, UNCHANGED <<rows, stored, dispatch, calls>>
  PROVE  rows' \subseteq stored' /\ stored' \subseteq IntakeRow /\ IdsAreDrawnOnce' /\ KeysAreUnique'
BY DEF IntakeInv, IntakeType, IdsAreDrawnOnce, KeysAreUnique

(* The answers a call may get.                                             *)
LEMMA IntakeAnswers ==
  /\ I!Failed \in [kind : {"none", "error", "conflict", "id"}, id : Nat]
  /\ I!Conflict \in [kind : {"none", "error", "conflict", "id"}, id : Nat]
  /\ I!Failed.kind = "error" /\ I!Conflict.kind = "conflict"
  /\ \A i \in Nat : /\ I!Id(i) \in [kind : {"none", "error", "conflict", "id"}, id : Nat]
                    /\ I!Id(i).kind = "id" /\ I!Id(i).id = i
BY DEF I!Failed, I!Conflict, I!Id

(* The insert: it stores the request, or meets the unique index.           *)
LEMMA IntakeCreate ==
  ASSUME IntakeInv, NEW c \in Client, I!Create(c)
  PROVE  IntakeInv'
<1>0. pc[c] = "create" /\ UNCHANGED <<dispatch, calls, faults>> /\ dispatch[c] \in IntakeRow
  BY DEF I!Create, IntakeInv, CallsUnderWay
<1>1. CASE /\ ~I!Collides(dispatch[c])
           /\ rows' = rows \cup {dispatch[c]} /\ stored' = stored \cup {dispatch[c]}
           /\ I!Return(c, I!Id(dispatch[c].id))
  <2>1. /\ rows' \subseteq stored' /\ stored' \subseteq IntakeRow
        /\ IdsAreDrawnOnce' /\ KeysAreUnique'
    BY <1>0, <1>1, IntakeInsert
  <2>2. dispatch[c].id \in Nat /\ dispatch[c] \in stored' BY <1>0, <1>1 DEF IntakeRow
  <2> DEFINE a == I!Id(dispatch[c].id)
  <2>3. a \in [kind : {"none", "error", "conflict", "id"}, id : Nat] /\ a.kind = "id"
        /\ a.id = dispatch[c].id
    BY <2>2, IntakeAnswers
  <2>4. I!Return(c, a) BY <1>1
  <2> HIDE DEF a
  <2>5. IntakeType' /\ CallsUnderWay' /\ I!AnswersAreTrue'
    BY <1>0, <1>1, <2>1, <2>2, <2>3, <2>4, IntakeReturn DEF IntakeType
  <2> QED BY <2>1, <2>5 DEF IntakeInv
<1>2. CASE I!Return(c, I!Failed) /\ UNCHANGED <<rows, stored>>
  <2>1. /\ rows' \subseteq stored' /\ stored' \subseteq IntakeRow
        /\ IdsAreDrawnOnce' /\ KeysAreUnique'
    BY <1>0, <1>2, IntakeSame
  <2>2. IntakeType' /\ CallsUnderWay' /\ I!AnswersAreTrue'
    BY <1>0, <1>2, <2>1, IntakeReturn, IntakeAnswers DEF IntakeType
  <2> QED BY <2>1, <2>2 DEF IntakeInv
<1>3. CASE /\ dispatch[c].key # NoKey /\ pc' = [pc EXCEPT ![c] = "take"]
           /\ UNCHANGED <<rows, answer, stored>>
  BY <1>0, <1>3, IntakeGoesOn, IntakeSame
<1> QED BY <1>1, <1>2, <1>3 DEF I!Create

(* After the index refused the key: the row of that key is looked up.      *)
LEMMA IntakeTake ==
  ASSUME IntakeInv, NEW c \in Client, I!Take(c)
  PROVE  IntakeInv'
<1>0. pc[c] = "take" /\ UNCHANGED <<rows, dispatch, calls, faults, stored>> /\ dispatch[c].key # NoKey
  BY DEF I!Take, IntakeInv, CallsUnderWay
<1>1. /\ rows' \subseteq stored' /\ stored' \subseteq IntakeRow
      /\ IdsAreDrawnOnce' /\ KeysAreUnique'
  BY <1>0, IntakeSame
<1>2. ASSUME NEW s \in rows, s.key = dispatch[c].key,
             I!Return(c, IF s.content = dispatch[c].content THEN I!Id(s.id) ELSE I!Conflict)
      PROVE  IntakeInv'
  <2>1. s \in stored' /\ s.id \in Nat
    BY <1>0, <1>1 DEF IntakeInv, IntakeType, IntakeRow
  <2> DEFINE a == I!Id(s.id)
  <2>2. a \in [kind : {"none", "error", "conflict", "id"}, id : Nat] /\ a.kind = "id" /\ a.id = s.id
    BY <2>1, IntakeAnswers
  <2>3. s.content = dispatch[c].content => I!Return(c, a)
    BY <1>2
  <2>4. s.content # dispatch[c].content => I!Return(c, I!Conflict)
    BY <1>2
  <2> HIDE DEF a
  <2>5. CASE s.content = dispatch[c].content
    <3>1. IntakeType' /\ CallsUnderWay' /\ I!AnswersAreTrue'
      BY <1>0, <1>1, <1>2, <2>1, <2>2, <2>3, <2>5, IntakeReturn DEF IntakeType
    <3> QED BY <1>1, <3>1 DEF IntakeInv
  <2>6. CASE s.content # dispatch[c].content
    <3>1. IntakeType' /\ CallsUnderWay' /\ I!AnswersAreTrue'
      BY <1>0, <1>1, <1>2, <2>1, <2>4, <2>6, IntakeReturn, IntakeAnswers DEF IntakeType
    <3> QED BY <1>1, <3>1 DEF IntakeInv
  <2> QED BY <2>5, <2>6
<1>3. CASE I!Return(c, I!Failed)
  <2>1. IntakeType' /\ CallsUnderWay' /\ I!AnswersAreTrue'
    BY <1>0, <1>1, <1>3, IntakeReturn, IntakeAnswers DEF IntakeType
  <2> QED BY <1>1, <2>1 DEF IntakeInv
<1> QED BY <1>2, <1>3 DEF I!Take

(* A statement fails, before or after it took effect.                      *)
LEMMA IntakeFails ==
  ASSUME IntakeInv, NEW c \in Client, I!StatementFails(c)
  PROVE  IntakeInv'
<1>0. UNCHANGED <<dispatch, calls>> /\ pc[c] # "idle" /\ dispatch[c] \in IntakeRow
  BY DEF I!StatementFails, IntakeInv, CallsUnderWay
<1>1. /\ rows' \subseteq stored' /\ stored' \subseteq IntakeRow
      /\ IdsAreDrawnOnce' /\ KeysAreUnique' /\ stored \subseteq stored'
  <2>1. CASE /\ pc[c] = "create" /\ ~I!Collides(dispatch[c])
             /\ rows' = rows \cup {dispatch[c]} /\ stored' = stored \cup {dispatch[c]}
    BY <1>0, <2>1, IntakeInsert
  <2>2. CASE UNCHANGED <<rows, stored>>
    BY <1>0, <2>2, IntakeSame
  <2> QED BY <2>1, <2>2 DEF I!StatementFails
<1>2. CASE pc[c] = "create" /\ dispatch[c].key # NoKey
  BY <1>0, <1>1, <1>2, IntakeGoesOn DEF I!StatementFails
<1>3. CASE ~(pc[c] = "create" /\ dispatch[c].key # NoKey)
  <2>1. I!Return(c, I!Failed) BY <1>3 DEF I!StatementFails
  <2>2. IntakeType' /\ CallsUnderWay' /\ I!AnswersAreTrue'
    BY <1>0, <1>1, <2>1, IntakeReturn, IntakeAnswers DEF IntakeType
  <2> QED BY <1>1, <2>2 DEF IntakeInv
<1> QED BY <1>2, <1>3

(* Rows are deleted; what was stored is remembered.                        *)
LEMMA IntakeDelete == ASSUME IntakeInv, I!Delete PROVE IntakeInv'
<1> USE DEF I!Delete
<1>1. rows' \subseteq rows /\ UNCHANGED <<pc, dispatch, answer, calls, stored>> OBVIOUS
<1> HIDE DEF I!Delete
<1>2. IntakeType' BY <1>1 DEF IntakeInv, IntakeType
<1>3. IdsAreDrawnOnce' /\ KeysAreUnique' BY <1>1 DEF IntakeInv, IdsAreDrawnOnce, KeysAreUnique
<1>4. CallsUnderWay' /\ I!AnswersAreTrue' BY <1>1 DEF IntakeInv, CallsUnderWay, I!AnswersAreTrue
<1> QED BY <1>2, <1>3, <1>4 DEF IntakeInv

(* One step of any component keeps the intake sound.                       *)
LEMMA IntakeStep == IntakeInv /\ [Next]_vars => IntakeInv'
<1> SUFFICES ASSUME IntakeInv, [Next]_vars PROVE IntakeInv'
  OBVIOUS
<1>1. CASE UNCHANGED intakeVars
  BY <1>1 DEF intakeVars, IntakeInv, IntakeType, IdsAreDrawnOnce, KeysAreUnique, CallsUnderWay,
              I!AnswersAreTrue
<1>2. CASE I!Next
  BY <1>2, IntakeDispatch, IntakeRedispatch, IntakeCreate, IntakeTake, IntakeFails, IntakeDelete
  DEF I!Next
<1> QED BY <1>1, <1>2 DEF Next, vars, MailScene, IntakeScene, JobsScene, StepsScene, AuditScene, ServerScene

(* What the invariant says of the answers given.                           *)
LEMMA IntakeFollows == IntakeInv => IntakeSound
<1> SUFFICES ASSUME IntakeInv, NEW c \in Client, NEW d \in Client,
                    answer[c].kind = "id", answer[d].kind = "id",
                    dispatch[c].key = dispatch[d].key, dispatch[c].key # NoKey,
                    {answer[c].id, answer[d].id} \subseteq {s.id : s \in rows}
             PROVE  answer[c] = answer[d] /\ dispatch[c].content = dispatch[d].content
  BY DEF IntakeSound, I!OneTaskPerKey, IntakeInv
<1>1. PICK s \in stored : /\ s.id = answer[c].id /\ s.key = dispatch[c].key
                          /\ s.content = dispatch[c].content
  BY DEF IntakeInv, I!AnswersAreTrue
<1>2. PICK t \in stored : /\ t.id = answer[d].id /\ t.key = dispatch[d].key
                          /\ t.content = dispatch[d].content
  BY DEF IntakeInv, I!AnswersAreTrue
<1>3. s \in rows /\ t \in rows
  BY <1>1, <1>2 DEF IntakeInv, IntakeType, IdsAreDrawnOnce
<1>4. s = t BY <1>1, <1>2, <1>3 DEF IntakeInv, KeysAreUnique
<1>5. answer[c].id = answer[d].id BY <1>1, <1>2, <1>4
<1>6. answer[c] = answer[d] BY <1>5 DEF IntakeInv, IntakeType
<1> QED BY <1>1, <1>2, <1>4, <1>6

(* Whatever insert's two statements meet in between - other clients, lost  *)
(* answers, deletions - what it answers is true of the ledger, and those   *)
(* it answered for one key were told of one task.                          *)
THEOREM IntakeIsSound == Spec => []IntakeSound
BY IntakeInit, IntakeStep, IntakeFollows, PTL DEF Spec

-------------------------------------------------------------------------------
(* Notification e-mails.                                                       *)

(* What the constants promise.                                             *)
LEMMA MailBounds ==
  /\ MailAttempts \in Nat \ {0} /\ "none" \notin Address /\ "gone" \notin Address
BY DeliveriesAssumption DEF DeliveriesAssumption, N!NotificationAssumption

(* Nothing is published and no desk holds a claim.                         *)
LEMMA MailInit == Init => MailInv
<1> SUFFICES ASSUME N!NotificationInit PROVE MailInv
  BY DEF Init
<1>1. N!NoMail \in MailRow /\ N!NoMail.attempts = 0 /\ N!NoMail.leased = 0
      /\ N!NoMail.status = "absent"
  BY DEF N!NoMail, MailRow, MailStatus
<1>2. N!NoNote \in NoteRow BY DEF N!NoNote, NoteRow
<1>3. MailType BY <1>1, <1>2 DEF N!NotificationInit, MailType
<1>4. \A n \in Note : MailRowOK(n)
  <2>1. \A n \in Note : mail[n] = N!NoMail /\ mailed[n] = {} BY DEF N!NotificationInit
  <2>2. 0 <= MailAttempts BY MailBounds
  <2> QED BY <1>1, <2>1, <2>2 DEF MailRowOK
<1> QED BY <1>3, <1>4 DEF MailInv, N!NotificationInit

(* What is known of one row and one claim of a sound state. *)
LEMMA MailParts ==
  ASSUME MailInv
  PROVE  /\ \A n \in Note : /\ mail[n] \in MailRow /\ mail[n].attempts \in Nat
                            /\ mail[n].leased \in Nat /\ mail[n].dest \in Address \cup {"none"}
                            /\ mailed[n] \subseteq Address /\ MailRowOK(n)
         /\ \A w \in Mailer : \A c \in desk[w] :
              /\ c \in MailClaims /\ c.n \in Note /\ c.token \in Nat /\ c.stage \in MailStage
              /\ c.to \in Address \cup {"gone"} /\ c.dest \in Address \cup {"none"}
              /\ MailClaimOK(c)
<1>1. \A n \in Note : mail[n] \in MailRow /\ mailed[n] \subseteq Address /\ MailRowOK(n)
  BY DEF MailInv, MailType
<1>2. \A w \in Mailer : \A c \in desk[w] : c \in MailClaims /\ MailClaimOK(c)
  BY DEF MailInv, MailType
<1>3. \A r \in MailRow : r.attempts \in Nat /\ r.leased \in Nat /\ r.dest \in Address \cup {"none"}
  BY DEF MailRow
<1>4. \A c \in MailClaims : /\ c.n \in Note /\ c.token \in Nat /\ c.stage \in MailStage
                            /\ c.to \in Address \cup {"gone"} /\ c.dest \in Address \cup {"none"}
  BY DEF MailClaims
<1> QED BY <1>1, <1>2, <1>3, <1>4

(* A step that touches neither the deliveries nor the claims. *)
LEMMA MailAside ==
  ASSUME MailInv, UNCHANGED <<mail, desk, mailed>>, address' \in Address \cup {"gone"},
         note' \in [Note -> NoteRow], \A n \in Note : note'[n].published = note[n].published
  PROVE  MailInv'
<1>1. MailType' BY DEF MailInv, MailType
<1>2. \A n \in Note : MailRowOK(n)' BY DEF MailInv, MailRowOK
<1>3. \A w \in Mailer : \A c \in desk'[w] : MailClaimOK(c)' BY DEF MailInv, MailClaimOK
<1> QED BY <1>1, <1>2, <1>3 DEF MailInv

(* A step that changes rows of deliveries and leaves what was sent alone:  *)
(* no row loses attempts or its destination, and no claim is added.        *)
LEMMA MailRowsChange ==
  ASSUME MailInv, mail' \in [Note -> MailRow], UNCHANGED <<note, address, mailed>>,
         desk' \in [Mailer -> SUBSET MailClaims],
         \A w \in Mailer : desk'[w] \subseteq desk[w],
         \A n \in Note : /\ mail'[n].attempts = mail[n].attempts
                         /\ mail'[n].dest = mail[n].dest
                         /\ mail'[n].status = "processing" <=> mail'[n].leased # 0,
         \A n \in Note : ~note[n].published => mail'[n] = mail[n],
         \A n \in Note : mail'[n].status = "delivered" => mailed[n] # {}
  PROVE  MailInv'
<1>1. MailType' BY DEF MailInv, MailType
<1>2. \A n \in Note : MailRowOK(n)' BY DEF MailInv, MailRowOK
<1>3. \A w \in Mailer : \A c \in desk'[w] : MailClaimOK(c)'
  <2> SUFFICES ASSUME NEW w \in Mailer, NEW c \in desk'[w] PROVE MailClaimOK(c)'
    OBVIOUS
  <2>1. c \in desk[w] /\ c.n \in Note /\ MailClaimOK(c) BY MailParts
  <2> QED BY <2>1 DEF MailClaimOK
<1> QED BY <1>1, <1>2, <1>3 DEF MailInv

(* A publication brings at most a fresh pending row.                       *)
LEMMA MailPublish ==
  ASSUME MailInv, NEW n \in Note, NEW channels, NEW required,
         N!CreatePublication(n, channels, required)
  PROVE  MailInv'
<1> DEFINE born == [N!NoMail EXCEPT !.status = "pending", !.due = TRUE]
<1>1. born \in MailRow /\ born.attempts = 0 /\ born.leased = 0 /\ born.status = "pending"
  BY DEF N!NoMail, MailRow, MailStatus
<1>2. mail[n] = N!NoMail /\ mailed[n] = {} /\ N!NoMail.attempts = 0
  BY MailParts DEF N!CreatePublication, MailRowOK, N!NoMail
<1> HIDE DEF born
<1>3. mail' = [mail EXCEPT ![n] = born] \/ mail' = mail
  <2> DEFINE selected == N!SelectedChannels(channels, required)
  <2>1. mail' = [mail EXCEPT ![n] = IF "email" \in selected THEN born ELSE mail[n]]
    BY DEF N!CreatePublication, born
  <2>2. [mail EXCEPT ![n] = mail[n]] = mail BY DEF MailInv, MailType
  <2> QED BY <2>1, <2>2
<1>4. mail' \in [Note -> MailRow] BY <1>1, <1>3 DEF MailInv, MailType
<1>5. /\ UNCHANGED <<desk, mailed, address>> /\ note' \in [Note -> NoteRow]
      /\ note'[n].published /\ \A k \in Note \ {n} : note'[k] = note[k]
  <2> DEFINE v == "in_app" \in N!SelectedChannels(channels, required)
  <2> DEFINE r == [published |-> TRUE, read |-> FALSE, visible |-> v]
  <2>1. r \in NoteRow /\ r.published = TRUE BY DEF NoteRow
  <2>2. note' = [note EXCEPT ![n] = r] BY DEF N!CreatePublication
  <2> HIDE DEF r
  <2> QED BY <2>1, <2>2 DEF N!CreatePublication, MailInv, MailType
<1>6. \A k \in Note \ {n} : mail'[k] = mail[k]
  BY <1>3 DEF MailInv, MailType
<1>7. mail'[n] = born \/ mail'[n] = N!NoMail
  BY <1>2, <1>3 DEF MailInv, MailType
<1>8. MailType' BY <1>4, <1>5 DEF MailInv, MailType
<1>9. \A k \in Note : MailRowOK(k)'
  <2> SUFFICES ASSUME NEW k \in Note PROVE MailRowOK(k)'
    OBVIOUS
  <2>1. CASE k = n
    BY <1>1, <1>2, <1>5, <1>7, <2>1, MailBounds DEF MailRowOK, N!NoMail
  <2>2. CASE k # n
    BY <1>5, <1>6, <2>2 DEF MailInv, MailRowOK
  <2> QED BY <2>1, <2>2
<1>10. \A w \in Mailer : \A c \in desk'[w] : MailClaimOK(c)'
  <2> SUFFICES ASSUME NEW w \in Mailer, NEW c \in desk[w] PROVE MailClaimOK(c)'
    BY <1>5
  <2>1. c.n \in Note /\ MailClaimOK(c) BY MailParts
  <2>2. c.n # n BY <1>2, <2>1 DEF MailClaimOK
  <2> QED BY <1>5, <1>6, <2>1, <2>2 DEF MailClaimOK
<1> QED BY <1>8, <1>9, <1>10 DEF MailInv

(* FailExhausted ends rows whose last lease ran out.                       *)
LEMMA MailSweep ==
  ASSUME MailInv, NEW w \in Mailer, N!FailExhausted(w)
  PROVE  MailInv'
<1>1. ASSUME NEW n \in Note
      PROVE  /\ mail'[n] \in MailRow
             /\ mail'[n].attempts = mail[n].attempts /\ mail'[n].dest = mail[n].dest
             /\ mail'[n].status = "processing" <=> mail'[n].leased # 0
             /\ ~note[n].published => mail'[n] = mail[n]
             /\ mail'[n].status = "delivered" => mailed[n] # {}
  <2> DEFINE f == [mail[n] EXCEPT !.status = "failed", !.leased = 0, !.expired = FALSE]
  <2>1. mail[n] \in MailRow /\ MailRowOK(n) BY MailParts
  <2>2. /\ f \in MailRow /\ f.attempts = mail[n].attempts /\ f.dest = mail[n].dest
        /\ f.status = "failed" /\ f.leased = 0
    BY <2>1 DEF MailRow, MailStatus
  <2>3. ~note[n].published => mail[n].attempts = 0 BY <2>1 DEF MailRowOK, N!NoMail
  <2>4. (mail'[n] = f /\ mail[n].attempts >= MailAttempts) \/ mail'[n] = mail[n]
    BY DEF N!FailExhausted
  <2> HIDE DEF f
  <2>5. CASE mail'[n] = mail[n] BY <2>1, <2>5 DEF MailRowOK
  <2>6. CASE mail'[n] = f /\ mail[n].attempts >= MailAttempts
    BY <2>2, <2>3, <2>6, MailBounds
  <2> QED BY <2>4, <2>5, <2>6
<1>2. mail' \in [Note -> MailRow]
  <2>1. mail' = [n \in Note |-> mail'[n]] BY DEF N!FailExhausted
  <2> QED BY <1>1, <2>1
<1>3. UNCHANGED <<note, address, mailed, desk>> /\ desk \in [Mailer -> SUBSET MailClaims]
  BY DEF N!FailExhausted, MailInv, MailType
<1> QED BY <1>1, <1>2, <1>3, MailRowsChange

(* A claim takes the next attempt and numbers the lease with it.           *)
LEMMA MailClaimed ==
  ASSUME MailInv, NEW w \in Mailer, NEW D \in SUBSET Note, N!ClaimDueEmail(w, D)
  PROVE  MailInv'
<1> DEFINE f(n) == [mail[n] EXCEPT !.status = "processing", !.attempts = mail[n].attempts + 1,
                                   !.leased = mail[n].attempts + 1, !.expired = FALSE]
<1>0. /\ UNCHANGED <<note, address, mailed>> /\ D \subseteq N!DueMail
      /\ desk' = [desk EXCEPT ![w] = {N!MailClaim(n) : n \in D}]
      /\ mail' = [n \in Note |-> IF n \in D THEN f(n) ELSE mail[n]]
  BY DEF N!ClaimDueEmail
<1>1. ASSUME NEW n \in Note
      PROVE  /\ f(n) \in MailRow /\ f(n).attempts = mail[n].attempts + 1
             /\ f(n).leased = mail[n].attempts + 1 /\ f(n).dest = mail[n].dest
             /\ f(n).status = "processing" /\ mail[n] \in MailRow /\ mail[n].attempts \in Nat
  <2>1. mail[n] \in MailRow /\ mail[n].attempts \in Nat BY MailParts
  <2>2. mail[n].attempts + 1 \in Nat BY <2>1
  <2> QED BY <2>1, <2>2 DEF MailRow, MailStatus
<1> HIDE DEF f
<1>2. \A n \in D : mail[n].attempts < MailAttempts
  BY <1>0 DEF N!DueMail
<1>3. \A n \in Note : mail'[n] = IF n \in D THEN f(n) ELSE mail[n]
  BY <1>0
<1>4. mail' \in [Note -> MailRow] BY <1>0, <1>1
<1>5. \A n \in D : N!MailClaim(n) \in MailClaims
  <2>1. \A n \in D : mail[n].dest \in Address \cup {"none"} /\ mail[n].attempts + 1 \in Nat
    <3>1. \A n \in D : mail[n].dest \in Address \cup {"none"} BY MailParts
    <3>2. \A n \in D : mail[n].attempts \in Nat BY <1>1
    <3> QED BY <3>1, <3>2
  <2>2. address \in Address \cup {"gone"} BY DEF MailInv, MailType
  <2> QED BY <2>1, <2>2 DEF N!MailClaim, MailClaims, MailStage
<1>6. MailType' BY <1>0, <1>4, <1>5 DEF MailInv, MailType
<1>7. ASSUME NEW n \in Note PROVE MailRowOK(n)'
  <2>1. MailRowOK(n) BY MailParts
  <2>2. CASE n \in D
    <3>1. note[n].published
      <4> SUFFICES ASSUME ~note[n].published PROVE FALSE
        OBVIOUS
      <4>1. mail[n].status = "absent" BY <2>1 DEF MailRowOK, N!NoMail
      <4> QED BY <1>0, <2>2, <4>1 DEF N!DueMail, N!Lapsed
    <3> QED BY <1>0, <1>1, <1>2, <1>3, <2>1, <2>2, <3>1, MailBounds DEF MailRowOK
  <2>3. CASE n \notin D BY <1>0, <1>3, <2>1, <2>3 DEF MailRowOK
  <2> QED BY <2>2, <2>3
<1>8. ASSUME NEW v \in Mailer, NEW c \in desk'[v] PROVE MailClaimOK(c)'
  <2>1. CASE c \in desk[v]
    <3>1. c.n \in Note /\ MailClaimOK(c) /\ c.token \in Nat BY <2>1, MailParts
    <3>2. mail[c.n].attempts \in Nat /\ mail'[c.n].attempts \in {mail[c.n].attempts, mail[c.n].attempts + 1}
          /\ mail'[c.n].dest = mail[c.n].dest
      BY <1>1, <1>3, <3>1
    <3> QED BY <1>0, <3>1, <3>2 DEF MailClaimOK
  <2>2. CASE \E n \in D : c = N!MailClaim(n)
    <3>1. PICK n \in D : c = N!MailClaim(n) BY <2>2
    <3>2. c.n = n /\ c.token = mail[n].attempts + 1 /\ c.stage = "claimed"
      BY <3>1 DEF N!MailClaim
    <3> QED BY <1>1, <1>3, <3>2 DEF MailClaimOK
  <2> QED BY <1>0, <2>1, <2>2 DEF MailInv, MailType
<1> QED BY <1>6, <1>7, <1>8 DEF MailInv

(* Taking a claim off a desk, or advancing it. *)
LEMMA MailDrop ==
  ASSUME MailInv, NEW w \in Mailer, NEW c, N!Drop(w, c)
  PROVE  desk' \in [Mailer -> SUBSET MailClaims] /\ \A v \in Mailer : desk'[v] \subseteq desk[v]
BY DEF MailInv, MailType, N!Drop

(* A claim moves to its next stage and nothing else does.                  *)
LEMMA MailAdvance ==
  ASSUME MailInv, NEW w \in Mailer, NEW c \in desk[w], NEW stage \in MailStage, N!Advance(w, c, stage)
  PROVE  /\ desk' \in [Mailer -> SUBSET MailClaims]
         /\ \A v \in Mailer : \A b \in desk'[v] :
              \/ b \in desk[v]
              \/ b.n = c.n /\ b.token = c.token /\ b.to = c.to /\ b.stage = stage
<1> DEFINE b == [c EXCEPT !.stage = stage]
<1>1. c \in MailClaims BY MailParts
<1>2. b \in MailClaims /\ b.n = c.n /\ b.token = c.token /\ b.to = c.to /\ b.stage = stage
  BY <1>1 DEF MailClaims
<1>3. desk' = [desk EXCEPT ![w] = (desk[w] \ {c}) \cup {b}] BY DEF N!Advance
<1> HIDE DEF b
<1> QED BY <1>2, <1>3 DEF MailInv, MailType

(* CompleteEmail, with a status that may be written of this delivery. *)
LEMMA MailComplete ==
  ASSUME MailInv, NEW w \in Mailer, NEW c \in desk[w], NEW status \in {"pending", "delivered", "failed"},
         status = "delivered" => mailed[c.n] # {},
         N!CompleteEmail(c, status), N!Drop(w, c), UNCHANGED <<note, address, mailed>>
  PROVE  MailInv'
<1>1. c.n \in Note /\ MailClaimOK(c) /\ mail[c.n] \in MailRow BY MailParts
<1> DEFINE f == [mail[c.n] EXCEPT !.status = status, !.leased = 0, !.expired = FALSE, !.due = FALSE]
<1>2. /\ f \in MailRow /\ f.attempts = mail[c.n].attempts /\ f.dest = mail[c.n].dest
      /\ f.status = status /\ f.leased = 0
  BY <1>1 DEF MailRow, MailStatus
<1>3. mail' = [mail EXCEPT ![c.n] = f] \/ mail' = mail
  BY <1>1 DEF N!CompleteEmail, MailInv, MailType
<1> HIDE DEF f
<1>4. mail' \in [Note -> MailRow] BY <1>2, <1>3 DEF MailInv, MailType
<1>5. \A n \in Note : mail'[n] = mail[n] \/ (n = c.n /\ mail'[n] = f)
  BY <1>3 DEF MailInv, MailType
<1>6. note[c.n].published
  BY <1>1 DEF MailInv, MailRowOK, MailClaimOK, N!NoMail
<1>7. \A n \in Note : /\ mail'[n].attempts = mail[n].attempts
                      /\ mail'[n].dest = mail[n].dest
                      /\ mail'[n].status = "processing" <=> mail'[n].leased # 0
  BY <1>2, <1>5 DEF MailInv, MailRowOK
<1>8. \A n \in Note : ~note[n].published => mail'[n] = mail[n]
  BY <1>5, <1>6
<1>9. \A n \in Note : mail'[n].status = "delivered" => mailed[n] # {}
  BY <1>2, <1>5 DEF MailInv, MailRowOK
<1> QED BY <1>4, <1>7, <1>8, <1>9, MailDrop, MailRowsChange

(* Binding writes the destination once, under the lease.                   *)
LEMMA MailBind ==
  ASSUME MailInv, NEW w \in Mailer, NEW c \in desk[w], N!BindEmailDestination(w, c)
  PROVE  MailInv'
<1>0. UNCHANGED <<note, address, mailed>> BY DEF N!BindEmailDestination
<1>c. /\ c.n \in Note /\ MailClaimOK(c) /\ mail[c.n] \in MailRow /\ c.to \in Address
      /\ c.stage = "claimed" /\ c.token \in Nat /\ mail[c.n].attempts \in Nat
  BY MailParts DEF N!BindEmailDestination, N!Undeliverable
<1>1. CASE N!Drop(w, c) /\ UNCHANGED mail
  <2>1. mail' \in [Note -> MailRow] /\ \A n \in Note : mail'[n] = mail[n] /\ MailRowOK(n)
    BY <1>1 DEF MailInv, MailType
  <2> QED BY <1>0, <1>1, <2>1, MailDrop, MailRowsChange DEF MailRowOK
<1>2. CASE /\ mail[c.n].dest \in {"none", c.to} /\ N!HoldsMail(c)
           /\ mail' = [mail EXCEPT ![c.n].dest = c.to]
           /\ N!Advance(w, c, "bound")
  <2> DEFINE f == [mail[c.n] EXCEPT !.dest = c.to]
  <2>1. /\ f \in MailRow /\ f.attempts = mail[c.n].attempts /\ f.dest = c.to
        /\ f.status = mail[c.n].status /\ f.leased = mail[c.n].leased
    BY <1>c DEF MailRow
  <2>2. mail' = [mail EXCEPT ![c.n] = f] BY <1>2
  <2> HIDE DEF f
  <2>3. mail' \in [Note -> MailRow] BY <2>1, <2>2 DEF MailInv, MailType
  <2>4. mail'[c.n] = f /\ \A n \in Note \ {c.n} : mail'[n] = mail[n]
    BY <1>c, <2>2 DEF MailInv, MailType
  <2>5. /\ desk' \in [Mailer -> SUBSET MailClaims]
        /\ \A v \in Mailer : \A b \in desk'[v] :
             \/ b \in desk[v]
             \/ b.n = c.n /\ b.token = c.token /\ b.to = c.to /\ b.stage = "bound"
    BY <1>2, MailAdvance DEF MailStage
  <2>6. MailType' BY <1>0, <2>3, <2>5 DEF MailInv, MailType
  <2>7. note[c.n].published
    BY <1>c DEF MailInv, MailRowOK, MailClaimOK, N!NoMail
  <2>8. ASSUME NEW n \in Note PROVE MailRowOK(n)'
    <3>1. CASE n = c.n
      BY <1>0, <1>c, <1>2, <2>1, <2>4, <2>7, <3>1, MailBounds DEF MailInv, MailRowOK
    <3>2. CASE n # c.n BY <1>0, <2>4, <3>2 DEF MailInv, MailRowOK
    <3> QED BY <3>1, <3>2
  <2>9. ASSUME NEW v \in Mailer, NEW b \in desk'[v] PROVE MailClaimOK(b)'
    <3>1. CASE b \in desk[v]
      <4>1. b.n \in Note /\ MailClaimOK(b) BY <3>1, MailParts
      <4>2. CASE b.n = c.n
        BY <1>0, <1>c, <1>2, <2>1, <2>4, <4>1, <4>2, MailBounds DEF MailClaimOK
      <4>3. CASE b.n # c.n BY <1>0, <2>4, <4>1, <4>3 DEF MailClaimOK
      <4> QED BY <4>2, <4>3
    <3>2. CASE b.n = c.n /\ b.token = c.token /\ b.to = c.to /\ b.stage = "bound"
      BY <1>c, <2>1, <2>4, <3>2 DEF MailClaimOK
    <3> QED BY <2>5, <3>1, <3>2
  <2> QED BY <2>6, <2>8, <2>9 DEF MailInv
<1> QED BY <1>1, <1>2 DEF N!BindEmailDestination

(* The provider takes the mail for the bound address, or refuses.          *)
LEMMA MailSend ==
  ASSUME MailInv, NEW w \in Mailer, NEW c \in desk[w], NEW r \in N!MailResults, N!SendEmail(w, c, r)
  PROVE  MailInv'
<1>0. UNCHANGED <<note, address, mail>> BY DEF N!SendEmail
<1>c. /\ c.n \in Note /\ MailClaimOK(c) /\ mail[c.n].dest = c.to /\ c.to \in Address
  BY MailParts DEF N!SendEmail, MailClaimOK
<1>1. /\ desk' \in [Mailer -> SUBSET MailClaims]
      /\ \A v \in Mailer : \A b \in desk'[v] :
           \/ b \in desk[v]
           \/ b.n = c.n /\ b.token = c.token /\ b.to = c.to /\ b.stage = r
  <2>1. r \in MailStage /\ N!Advance(w, c, r) BY DEF N!MailResults, MailStage, N!SendEmail
  <2> QED BY <2>1, MailAdvance
<1>2. /\ mailed' \in [Note -> SUBSET Address]
      /\ \A n \in Note : mailed[n] \subseteq mailed'[n]
      /\ \A n \in Note : mailed'[n] \subseteq mailed[n] \cup (IF n = c.n THEN {c.to} ELSE {})
      /\ r # "rejected" => c.to \in mailed'[c.n]
  BY <1>c DEF N!SendEmail, MailInv, MailType
<1>3. MailType' BY <1>0, <1>1, <1>2 DEF MailInv, MailType
<1>4. note[c.n].published
  BY <1>c, MailParts DEF MailRowOK, MailClaimOK, N!NoMail
<1>5. ASSUME NEW n \in Note PROVE MailRowOK(n)'
  <2>1. CASE n = c.n
    BY <1>0, <1>c, <1>2, <1>4, <2>1, MailBounds DEF MailInv, MailRowOK
  <2>2. CASE n # c.n
    <3>1. mailed'[n] = mailed[n] BY <1>2, <2>2
    <3> QED BY <1>0, <3>1 DEF MailInv, MailRowOK
  <2> QED BY <2>1, <2>2
<1>6. ASSUME NEW v \in Mailer, NEW b \in desk'[v] PROVE MailClaimOK(b)'
  <2>1. CASE b \in desk[v]
    <3>1. b.n \in Note /\ MailClaimOK(b) BY <2>1, MailParts
    <3> QED BY <1>0, <1>2, <3>1 DEF MailClaimOK
  <2>2. CASE b.n = c.n /\ b.token = c.token /\ b.to = c.to /\ b.stage = r
    BY <1>0, <1>c, <1>2, <2>2 DEF MailClaimOK
  <2> QED BY <1>1, <2>1, <2>2
<1> QED BY <1>3, <1>5, <1>6 DEF MailInv

(* A verdict is written only by the holder of the lease.                   *)
LEMMA MailFinish ==
  ASSUME MailInv, NEW w \in Mailer, NEW c \in desk[w], N!FinishEmail(w, c)
  PROVE  MailInv'
<1>1. N!MailVerdict(c) \in {"pending", "delivered", "failed"}
      /\ (N!MailVerdict(c) = "delivered" => c.stage = "sent")
  BY DEF N!MailVerdict
<1>2. c.stage = "sent" => mailed[c.n] # {} BY MailParts DEF MailClaimOK
<1> QED BY <1>1, <1>2, MailComplete DEF N!FinishEmail

(* A mailer stops and its claims are gone; rows keep their lease.          *)
LEMMA MailAbandon ==
  ASSUME MailInv, NEW w \in Mailer, N!AbandonDesk(w)
  PROVE  MailInv'
<1>1. /\ desk' \in [Mailer -> SUBSET MailClaims] /\ \A v \in Mailer : desk'[v] \subseteq desk[v]
      /\ UNCHANGED <<note, mail, address, mailed>>
  BY DEF N!AbandonDesk, MailInv, MailType
<1>2. mail' \in [Note -> MailRow] /\ \A n \in Note : mail'[n] = mail[n] /\ MailRowOK(n)
  BY <1>1 DEF MailInv, MailType
<1> QED BY <1>1, <1>2, MailRowsChange DEF MailRowOK

(* A row falls due, or its lease runs out.                                 *)
LEMMA MailTime ==
  ASSUME MailInv, NEW n \in Note, N!MailFallsDue(n) \/ N!MailLeaseEnds(n)
  PROVE  MailInv'
<1> DEFINE d == [mail[n] EXCEPT !.due = TRUE]
<1> DEFINE e == [mail[n] EXCEPT !.expired = TRUE]
<1>1. mail[n] \in MailRow BY MailParts
<1>2. /\ d \in MailRow /\ d.attempts = mail[n].attempts /\ d.dest = mail[n].dest
      /\ d.status = mail[n].status /\ d.leased = mail[n].leased
  BY <1>1 DEF MailRow
<1>3. /\ e \in MailRow /\ e.attempts = mail[n].attempts /\ e.dest = mail[n].dest
      /\ e.status = mail[n].status /\ e.leased = mail[n].leased
  BY <1>1 DEF MailRow
<1>4. mail' = [mail EXCEPT ![n] = d] \/ mail' = [mail EXCEPT ![n] = e]
  BY DEF N!MailFallsDue, N!MailLeaseEnds
<1>5. UNCHANGED <<note, address, desk, mailed>> /\ desk \in [Mailer -> SUBSET MailClaims]
  BY DEF N!MailFallsDue, N!MailLeaseEnds, MailInv, MailType
<1>6. mail[n].status \in {"pending", "processing"} BY DEF N!MailFallsDue, N!MailLeaseEnds
<1> HIDE DEF d, e
<1>7. mail' \in [Note -> MailRow] BY <1>2, <1>3, <1>4 DEF MailInv, MailType
<1>8. \A k \in Note : k # n => mail'[k] = mail[k] BY <1>4 DEF MailInv, MailType
<1>9. mail'[n] = d \/ mail'[n] = e BY <1>4 DEF MailInv, MailType
<1>10. note[n].published BY <1>6 DEF MailInv, MailRowOK, N!NoMail
<1>11. \A k \in Note : /\ mail'[k].attempts = mail[k].attempts
                       /\ mail'[k].dest = mail[k].dest
                       /\ mail'[k].status = "processing" <=> mail'[k].leased # 0
  BY <1>2, <1>3, <1>8, <1>9 DEF MailInv, MailRowOK
<1>12. \A k \in Note : ~note[k].published => mail'[k] = mail[k] BY <1>8, <1>10
<1>13. \A k \in Note : mail'[k].status = "delivered" => mailed[k] # {}
  BY <1>2, <1>3, <1>8, <1>9 DEF MailInv, MailRowOK
<1> QED BY <1>5, <1>7, <1>11, <1>12, <1>13, MailRowsChange

(* Reading, preferences and a change of address leave rows alone.          *)
LEMMA MailReading ==
  ASSUME MailInv,
         N!ReadRequests \/ N!PreferenceRequests \/ \E a \in Address \cup {"gone"} : N!Readdress(a)
  PROVE  MailInv'
<1>1. CASE N!ReadRequests
  <2>1. ASSUME NEW n \in Note, NEW isRead \in BOOLEAN, N!ReplaceReadState(n, isRead)
        PROVE  MailInv'
    <3>1. note' \in [Note -> NoteRow] /\ \A k \in Note : note'[k].published = note[k].published
      BY <2>1 DEF N!ReplaceReadState, MailInv, MailType, NoteRow
    <3> QED BY <2>1, <3>1, MailAside DEF N!ReplaceReadState, MailInv, MailType
  <2>2. ASSUME NEW n \in Note, N!MarkReadThrough(n)
        PROVE  MailInv'
    <3>1. ASSUME NEW k \in Note
          PROVE  note'[k] \in NoteRow /\ note'[k].published = note[k].published
      BY <2>2 DEF N!MarkReadThrough, MailInv, MailType, NoteRow
    <3>2. note' = [k \in Note |-> note'[k]] BY <2>2 DEF N!MarkReadThrough
    <3>3. note' \in [Note -> NoteRow] BY <3>1, <3>2
    <3> QED BY <2>2, <3>1, <3>3, MailAside DEF N!MarkReadThrough, MailInv, MailType
  <2> QED BY <1>1, <2>1, <2>2 DEF N!ReadRequests
<1>2. CASE N!PreferenceRequests
  BY <1>2, MailAside DEF N!PreferenceRequests, N!ReplacePreference, MailInv, MailType
<1>3. CASE \E a \in Address \cup {"gone"} : N!Readdress(a)
  BY <1>3, MailAside DEF N!Readdress, MailInv, MailType
<1> QED BY <1>1, <1>2, <1>3

(* One step of any component keeps the e-mails sound.                      *)
LEMMA MailStep == MailInv /\ [Next]_vars => MailInv'
<1> SUFFICES ASSUME MailInv, [Next]_vars PROVE MailInv'
  OBVIOUS
<1>1. CASE UNCHANGED mailVars
  BY <1>1, MailAside DEF mailVars, MailInv, MailType
<1>2. ASSUME NEW w \in Mailer, N!DispatchDue(w) PROVE MailInv'
  <2>1. ASSUME NEW c \in desk[w], N!RejectClaim(w, c) PROVE MailInv'
    BY <2>1, MailComplete DEF N!RejectClaim
  <2> QED BY <1>2, <2>1, MailSweep, MailClaimed, MailBind, MailFinish, MailSend
          DEF N!DispatchDue, N!DispatchEmail
<1>3. CASE N!NotificationNext
  BY <1>2, <1>3, MailPublish, MailReading, MailAbandon, MailTime
  DEF N!NotificationNext, N!PublishNotification
<1> QED BY <1>1, <1>3 DEF Next, vars, MailScene, IntakeScene, JobsScene, StepsScene, AuditScene, ServerScene

(* However the user's address and the lease change hands, all mails of a   *)
(* notification go to the address its delivery is bound to; it counts as   *)
(* delivered only after a mail was handed over, and is tried no more often *)
(* than allowed.                                                           *)
THEOREM MailIsSound == Spec => []MailSound
<1>1. MailInv => MailSound
  BY DEF MailInv, MailRowOK, MailSound, N!OneDestination, N!MailAccounted
<1> QED BY <1>1, MailInit, MailStep, PTL DEF Spec

-------------------------------------------------------------------------------
(* The server.                                                                 *)

(* Before the boot nothing listens and no request has come.                *)
LEMMA ServerStart == Init => ServerInv
<1> SUFFICES ASSUME S!ServerInit PROVE ServerInv
  BY DEF Init
<1>1. S!NewRequest \in ServerRequest /\ RequestOK(S!NewRequest) /\ S!NewRequest.at = "new"
  BY DEF S!NewRequest, ServerRequest, RequestOK
<1>2. S!NoProbe \in ServerProbe
  <2>1. <<>> \in [{} -> S!Status] OBVIOUS
  <2>2. <<>> \in ProbeResults BY <2>1 DEF ProbeResults
  <2> QED BY <2>2 DEF S!NoProbe, ServerProbe
<1>3. ServerType BY <1>1, <1>2 DEF S!ServerInit, ServerType, Booting
<1>4. ShutdownOK BY DEF S!ServerInit, ShutdownOK
<1>5. ProbeOK BY DEF S!ServerInit, ProbeOK, S!NoProbe
<1> QED BY <1>1, <1>3, <1>4, <1>5 DEF ServerInv, S!ServerInit

(* A step of one request: it enters the middleware only while the server   *)
(* listens, and only a request on its way adds to the audit records.       *)
LEMMA RequestChange ==
  ASSUME ServerInv, NEW r \in Request, NEW f \in ServerRequest, RequestOK(f),
         request' = [request EXCEPT ![r] = f],
         UNCHANGED <<phase, listening, db, lost, left, probe>>,
         queued' \in Nat,
         queued' # queued => r \in S!InFlight,
         f.at \in {"body limit", "handler"} => listening \/ r \in S!InFlight
  PROVE  ServerInv'
<1>1. ServerType' BY DEF ServerInv, ServerType
<1>2. \A q \in Request : request'[q] = IF q = r THEN f ELSE request[q]
  BY DEF ServerInv, ServerType
<1>3. \A q \in Request : RequestOK(request'[q])
  BY <1>2 DEF ServerInv
<1>4. ProbeOK' BY DEF ServerInv, ProbeOK, WorstOf
<1>5. S!InFlight = {} /\ ~listening => S!InFlight' = {} /\ queued' = queued
  BY <1>2 DEF S!InFlight
<1>6. ShutdownOK'
  BY <1>5 DEF ServerInv, ServerType, ShutdownOK
<1> QED BY <1>1, <1>3, <1>4, <1>6 DEF ServerInv

(* Each step of a request through middleware and handler.                  *)
LEMMA ServerRequests ==
  ASSUME ServerInv, NEW r \in Request, S!ServeRequest(r)
  PROVE  ServerInv'
<1> DEFINE g == request[r]
<1>0. /\ g \in ServerRequest /\ RequestOK(g) /\ queued \in Nat
      /\ g.at = "handler" \/ g.at = "body limit" <=> r \in S!InFlight
  BY DEF ServerInv, ServerType, S!InFlight
<1>r. g \in ServerRequest BY <1>0
<1>n. queued \in Nat BY <1>0
<1>i. g.at \in {"handler", "body limit"} => r \in S!InFlight BY <1>0
<1>g. /\ g.late \in BOOLEAN /\ g.code \in Nat /\ g.written \in BOOLEAN /\ g.bodies \in Nat
      /\ g.query \in BOOLEAN
  BY <1>r DEF ServerRequest
<1>b. g.bodies + 1 \in Nat BY <1>g
<1>e. g = [at |-> g.at, late |-> g.late, code |-> g.code, written |-> g.written,
           bodies |-> g.bodies, query |-> g.query]
  BY <1>r DEF ServerRequest
<1> USE DEF S!Change, S!OnlyRequest
<1>1. CASE S!Accept(r)
  <2> DEFINE f == [g EXCEPT !.at = "body limit"]
  <2>fa. /\ f \in ServerRequest
          /\ f.at = "body limit" /\ f.late = g.late /\ f.code = g.code
          /\ f.written = g.written /\ f.bodies = g.bodies /\ f.query = g.query
    BY <1>r, <1>b DEF ServerRequest
  <2> HIDE DEF g, f
  <2>fb. RequestOK(f)
    BY <1>0, <1>g, <1>1, <2>fa DEF RequestOK, S!Accept, g
  <2>2. request' = [request EXCEPT ![r] = f] /\ listening BY <1>1 DEF S!Accept, g, f
  <2> QED BY <1>0, <1>1, <2>fa, <2>fb, <2>2, RequestChange DEF S!Accept
<1>2. CASE S!BodyLimit(r)
  <2> DEFINE f1 == [g EXCEPT !.at = "handler"]
  <2> DEFINE f2 == [g EXCEPT !.at = "answered", !.code = 413, !.written = TRUE, !.bodies = 1]
  <2>f1a. /\ f1 \in ServerRequest
          /\ f1.at = "handler" /\ f1.late = g.late /\ f1.code = g.code
          /\ f1.written = g.written /\ f1.bodies = g.bodies /\ f1.query = g.query
    BY <1>r, <1>b DEF ServerRequest
  <2>f2t. f2 \in ServerRequest
    <3> DEFINE c == 413
    <3> DEFINE b == 1
    <3>1. c \in Nat /\ b \in Nat BY <1>b
    <3> HIDE DEF c, b
    <3>2. [g EXCEPT !.at = "answered", !.code = c, !.written = TRUE, !.bodies = b] \in ServerRequest BY <1>r, <3>1 DEF ServerRequest
    <3> QED BY <3>2 DEF c, b
  <2>f2a. /\ f2.at = "answered" /\ f2.late = g.late /\ f2.code = 413
          /\ f2.written = TRUE /\ f2.bodies = 1 /\ f2.query = g.query
    <3> HIDE DEF g
    <3> QED BY <1>e
  <2>i. r \in S!InFlight BY <1>i, <1>2 DEF S!BodyLimit
  <2> HIDE DEF g, f1, f2
  <2>f1b. RequestOK(f1)
    <3>1. ~g.written /\ ~g.query /\ g.bodies = 0 /\ g.code = 0
      BY <1>0, <1>2 DEF RequestOK, S!BodyLimit, g
    <3> QED BY <2>f1a, <3>1 DEF RequestOK
  <2>f2b. RequestOK(f2)
    BY <2>f2a DEF RequestOK
  <2>2. request' = [request EXCEPT ![r] = f1] \/ request' = [request EXCEPT ![r] = f2]
    BY <1>2 DEF S!BodyLimit, g, f1, f2
  <2>q. queued' = queued /\ UNCHANGED <<phase, listening, db, lost, left, probe>> BY <1>2 DEF S!BodyLimit
  <2>3. CASE request' = [request EXCEPT ![r] = f1]
    BY <1>n, <2>q, <2>i, <2>f1a, <2>f1b, <2>3, RequestChange
  <2>4. CASE request' = [request EXCEPT ![r] = f2]
    BY <1>n, <2>q, <2>i, <2>f2a, <2>f2b, <2>4, <2>f2t, RequestChange
  <2> QED BY <2>2, <2>3, <2>4
<1>3. CASE S!BeginQuery(r)
  <2> DEFINE f1 == [g EXCEPT !.query = TRUE]
  <2> DEFINE f2 == [g EXCEPT !.code = 500, !.written = TRUE, !.bodies = 1]
  <2>f1a. /\ f1 \in ServerRequest
          /\ f1.at = g.at /\ f1.late = g.late /\ f1.code = g.code
          /\ f1.written = g.written /\ f1.bodies = g.bodies /\ f1.query = TRUE
    BY <1>r, <1>b DEF ServerRequest
  <2>f2t. f2 \in ServerRequest
    <3> DEFINE c == 500
    <3> DEFINE b == 1
    <3>1. c \in Nat /\ b \in Nat BY <1>b
    <3> HIDE DEF c, b
    <3>2. [g EXCEPT !.code = c, !.written = TRUE, !.bodies = b] \in ServerRequest BY <1>r, <3>1 DEF ServerRequest
    <3> QED BY <3>2 DEF c, b
  <2>f2a. /\ f2.at = g.at /\ f2.late = g.late /\ f2.code = 500
          /\ f2.written = TRUE /\ f2.bodies = 1 /\ f2.query = g.query
    <3> HIDE DEF g
    <3> QED BY <1>e
  <2>i. r \in S!InFlight BY <1>i, <1>3 DEF S!BeginQuery
  <2> HIDE DEF g, f1, f2
  <2>f1b. RequestOK(f1)
    BY <1>0, <1>g, <1>3, <2>f1a DEF RequestOK, S!BeginQuery, g
  <2>f2b. RequestOK(f2)
    BY <1>0, <1>g, <1>3, <2>f2a DEF RequestOK, S!BeginQuery, g
  <2>2. request' = [request EXCEPT ![r] = f1] \/ request' = [request EXCEPT ![r] = f2]
    BY <1>3 DEF S!BeginQuery, g, f1, f2
  <2>q. queued' = queued /\ UNCHANGED <<phase, listening, db, lost, left, probe>> BY <1>3 DEF S!BeginQuery
  <2>3. CASE request' = [request EXCEPT ![r] = f1]
    BY <1>n, <2>q, <2>i, <2>f1a, <2>f1b, <2>3, RequestChange
  <2>4. CASE request' = [request EXCEPT ![r] = f2]
    BY <1>n, <2>q, <2>i, <2>f2a, <2>f2b, <2>4, <2>f2t, RequestChange
  <2> QED BY <2>2, <2>3, <2>4
<1>4. CASE S!EndQuery(r)
  <2> DEFINE f1 == [g EXCEPT !.query = FALSE, !.code = 200, !.written = TRUE, !.bodies = 1]
  <2> DEFINE f2 == [g EXCEPT !.query = FALSE, !.code = 204]
  <2> DEFINE f3 == [g EXCEPT !.query = FALSE]
  <2>f1t. f1 \in ServerRequest
    <3> DEFINE c == 200
    <3> DEFINE b == 1
    <3>1. c \in Nat /\ b \in Nat BY <1>b
    <3> HIDE DEF c, b
    <3>2. [g EXCEPT !.query = FALSE, !.code = c, !.written = TRUE, !.bodies = b] \in ServerRequest BY <1>r, <3>1 DEF ServerRequest
    <3> QED BY <3>2 DEF c, b
  <2>f1a. /\ f1.at = g.at /\ f1.late = g.late /\ f1.code = 200
          /\ f1.written = TRUE /\ f1.bodies = 1 /\ f1.query = FALSE
    <3> HIDE DEF g
    <3> QED BY <1>e
  <2>f2a. /\ f2 \in ServerRequest
          /\ f2.at = g.at /\ f2.late = g.late /\ f2.code = 204
          /\ f2.written = g.written /\ f2.bodies = g.bodies /\ f2.query = FALSE
    <3> DEFINE c == 204
    <3>0. c \in Nat OBVIOUS
    <3>1. f2 \in ServerRequest
      <4> HIDE DEF c
      <4>1. [g EXCEPT !.query = FALSE, !.code = c] \in ServerRequest BY <1>r, <3>0 DEF ServerRequest
      <4> QED BY <4>1 DEF c
    <3> HIDE DEF g
    <3> QED BY <1>e, <3>1
  <2>f3a. /\ f3 \in ServerRequest
          /\ f3.at = g.at /\ f3.late = g.late /\ f3.code = g.code
          /\ f3.written = g.written /\ f3.bodies = g.bodies /\ f3.query = FALSE
    BY <1>r, <1>b DEF ServerRequest
  <2>i. r \in S!InFlight BY <1>i, <1>4 DEF S!EndQuery
  <2> HIDE DEF g, f1, f2, f3
  <2>f1b. RequestOK(f1)
    BY <1>0, <1>g, <1>4, <2>f1a DEF RequestOK, S!EndQuery, g
  <2>f2b. RequestOK(f2)
    BY <1>0, <1>g, <1>4, <2>f2a DEF RequestOK, S!EndQuery, g
  <2>f3b. RequestOK(f3)
    BY <1>0, <1>g, <1>4, <2>f3a DEF RequestOK, S!EndQuery, g
  <2>2. \/ request' = [request EXCEPT ![r] = f1]
        \/ request' = [request EXCEPT ![r] = f2]
        \/ request' = [request EXCEPT ![r] = f3]
    BY <1>4 DEF S!EndQuery, g, f1, f2, f3
  <2>3. queued' \in Nat
    <3>1. queued' = queued + 1 \/ queued' = queued BY <1>4 DEF S!EndQuery
    <3> QED BY <1>n, <3>1
  <2>q. UNCHANGED <<phase, listening, db, lost, left, probe>> BY <1>4 DEF S!EndQuery
  <2>4. CASE request' = [request EXCEPT ![r] = f1]
    BY <2>q, <2>i, <2>f1b, <2>3, <2>4, <2>f1t, RequestChange
  <2>5. CASE request' = [request EXCEPT ![r] = f2]
    BY <2>q, <2>i, <2>f2a, <2>f2b, <2>3, <2>5, RequestChange
  <2>6. CASE request' = [request EXCEPT ![r] = f3]
    BY <2>q, <2>i, <2>f3a, <2>f3b, <2>3, <2>6, RequestChange
  <2> QED BY <2>2, <2>4, <2>5, <2>6
<1>5. CASE S!DeadlinePasses(r)
  <2> DEFINE f == [g EXCEPT !.late = TRUE]
  <2>fa. /\ f \in ServerRequest
          /\ f.at = g.at /\ f.late = TRUE /\ f.code = g.code
          /\ f.written = g.written /\ f.bodies = g.bodies /\ f.query = g.query
    BY <1>r, <1>b DEF ServerRequest
  <2>i. r \in S!InFlight BY <1>i, <1>5 DEF S!DeadlinePasses
  <2> HIDE DEF g, f
  <2>fb. RequestOK(f)
    BY <1>0, <1>g, <1>5, <2>fa DEF RequestOK, S!DeadlinePasses, g
  <2>2. request' = [request EXCEPT ![r] = f] BY <1>5 DEF S!DeadlinePasses, g, f
  <2> QED BY <1>n, <1>5, <2>i, <2>fa, <2>fb, <2>2, RequestChange DEF S!DeadlinePasses
<1>6. CASE S!HandlerReturns(r)
  <2> DEFINE f1 == [g EXCEPT !.at = "answered", !.code = 503, !.written = TRUE, !.bodies = g.bodies + 1]
  <2> DEFINE f2 == [g EXCEPT !.at = "answered"]
  <2>f1t. f1 \in ServerRequest
    <3> DEFINE c == 503
    <3> DEFINE b == g.bodies + 1
    <3>1. c \in Nat /\ b \in Nat BY <1>b
    <3> HIDE DEF c, b
    <3>2. [g EXCEPT !.at = "answered", !.code = c, !.written = TRUE, !.bodies = b] \in ServerRequest BY <1>r, <3>1 DEF ServerRequest
    <3> QED BY <3>2 DEF c, b
  <2>f1a. /\ f1.at = "answered" /\ f1.late = g.late /\ f1.code = 503
          /\ f1.written = TRUE /\ f1.bodies = g.bodies + 1 /\ f1.query = g.query
    <3> HIDE DEF g
    <3> QED BY <1>e
  <2>f2a. /\ f2 \in ServerRequest
          /\ f2.at = "answered" /\ f2.late = g.late /\ f2.code = g.code
          /\ f2.written = g.written /\ f2.bodies = g.bodies /\ f2.query = g.query
    BY <1>r, <1>b DEF ServerRequest
  <2>i. r \in S!InFlight BY <1>i, <1>6 DEF S!HandlerReturns
  <2> HIDE DEF g, f1, f2
  <2>f1b. S!TimeoutAnswers(g) => RequestOK(f1)
    BY <1>0, <1>g, <1>6, <2>f1a DEF RequestOK, S!HandlerReturns, S!TimeoutAnswers, g
  <2>f2b. ~S!TimeoutAnswers(g) => RequestOK(f2)
    BY <1>0, <1>g, <1>6, <2>f2a DEF RequestOK, S!HandlerReturns, S!TimeoutAnswers, g
  <2>3. IF S!TimeoutAnswers(g) THEN request' = [request EXCEPT ![r] = f1]
                               ELSE request' = [request EXCEPT ![r] = f2]
    BY <1>6 DEF S!HandlerReturns, g, f1, f2
  <2>q. queued' = queued /\ UNCHANGED <<phase, listening, db, lost, left, probe>>
    BY <1>6 DEF S!HandlerReturns
  <2>4. CASE S!TimeoutAnswers(g)
    <3>1. request' = [request EXCEPT ![r] = f1] /\ RequestOK(f1) BY <2>3, <2>4, <2>f1b
    <3> QED BY <1>n, <2>q, <2>i, <2>f1t, <3>1, RequestChange
  <2>5. CASE ~S!TimeoutAnswers(g)
    <3>1. request' = [request EXCEPT ![r] = f2] /\ RequestOK(f2) BY <2>3, <2>5, <2>f2b
    <3> QED BY <1>n, <2>q, <2>i, <2>f2a, <3>1, RequestChange
  <2> QED BY <2>4, <2>5
<1>7. CASE S!Recovery(r)
  <2> DEFINE f == [g EXCEPT !.at = "answered", !.code = 500, !.written = TRUE, !.bodies = g.bodies + 1]
  <2>ft. f \in ServerRequest
    <3> DEFINE c == 500
    <3> DEFINE b == g.bodies + 1
    <3>1. c \in Nat /\ b \in Nat BY <1>b
    <3> HIDE DEF c, b
    <3>2. [g EXCEPT !.at = "answered", !.code = c, !.written = TRUE, !.bodies = b] \in ServerRequest BY <1>r, <3>1 DEF ServerRequest
    <3> QED BY <3>2 DEF c, b
  <2>fa. /\ f.at = "answered" /\ f.late = g.late /\ f.code = 500
          /\ f.written = TRUE /\ f.bodies = g.bodies + 1 /\ f.query = g.query
    <3> HIDE DEF g
    <3> QED BY <1>e
  <2>i. r \in S!InFlight BY <1>i, <1>7 DEF S!Recovery
  <2> HIDE DEF g, f
  <2>0. g.bodies = 0 BY <1>0, <1>g, <1>7 DEF RequestOK, S!Recovery, g
  <2>fb. RequestOK(f)
    BY <2>0, <2>fa DEF RequestOK
  <2>2. request' = [request EXCEPT ![r] = f] BY <1>7 DEF S!Recovery, g, f
  <2>q. queued' = queued /\ UNCHANGED <<phase, listening, db, lost, left, probe>> BY <1>7 DEF S!Recovery
  <2> QED BY <1>n, <2>q, <2>i, <2>fb, <2>2, <2>ft, RequestChange
<1> QED BY <1>1, <1>2, <1>3, <1>4, <1>5, <1>6, <1>7 DEF S!ServeRequest

(* A step that leaves the requests and the probe alone. *)
LEMMA ServerGoesOn ==
  ASSUME ServerInv, UNCHANGED <<request, probe>>, ServerType', ShutdownOK'
  PROVE  ServerInv'
BY DEF ServerInv, ProbeOK, WorstOf

(* The boot sequence.                                                      *)
LEMMA ServerBoots == ASSUME ServerInv, S!Boot PROVE ServerInv'
<1> USE DEF S!Go, ServerInv
<1>1. CASE S!Handle
  <2>1. ServerType' BY <1>1 DEF S!Handle, ServerType, Booting
  <2>2. ShutdownOK' BY <1>1 DEF S!Handle, ShutdownOK, Booting, S!InFlight, ServerType
  <2> QED BY <1>1, <2>1, <2>2, ServerGoesOn DEF S!Handle
<1>2. CASE S!LoadConfiguration \/ S!InitApplication \/ S!StartupMigrations \/ S!BootstrapQueue
  <2>1. /\ phase \in Booting /\ phase' \in Booting \cup {"exited"}
        /\ db' = db \/ db' = "open"
        /\ UNCHANGED <<listening, request, queued, lost, left, probe>>
    BY <1>2 DEF S!LoadConfiguration, S!InitApplication, S!StartupMigrations, S!BootstrapQueue, Booting
  <2>2. ServerType' BY <2>1 DEF ServerType
  <2>3. ~listening /\ db \notin {"closing", "closed"} BY <2>1 DEF ShutdownOK, Booting
  <2>4. ShutdownOK' BY <2>1, <2>3 DEF ShutdownOK, Booting
  <2> QED BY <2>1, <2>2, <2>4, ServerGoesOn
<1> QED BY <1>1, <1>2 DEF S!Boot

(* The audit writer, the signal and each stage of the shutdown.            *)
LEMMA ServerStops ==
  ASSUME ServerInv, phase # "exited", S!StoreAudit \/ S!Signal \/ S!GracefulShutdown
  PROVE  ServerInv'
<1> USE DEF S!Go
<1>t. ServerType /\ ShutdownOK BY DEF ServerInv
<1>n. queued \in Nat /\ lost \in Nat /\ left \in Nat BY <1>t DEF ServerType
<1>1. CASE S!StoreAudit
  <2>1. queued' \in Nat /\ queued # 0 BY <1>n, <1>1 DEF S!StoreAudit
  <2>2. ServerType' BY <1>t, <1>1, <2>1 DEF S!StoreAudit, ServerType
  <2>3. S!InFlight' = S!InFlight BY <1>1 DEF S!StoreAudit, S!InFlight
  <2>4. ShutdownOK' BY <1>t, <1>1, <2>1, <2>3 DEF S!StoreAudit, ShutdownOK
  <2> QED BY <1>1, <2>2, <2>4, ServerGoesOn DEF S!StoreAudit
<1>2. CASE S!Signal
  <2>1. ServerType' BY <1>t, <1>2 DEF S!Signal, ServerType
  <2>2. ShutdownOK' BY <1>t, <1>2 DEF S!Signal, ShutdownOK, S!InFlight
  <2> QED BY <1>2, <2>1, <2>2, ServerGoesOn DEF S!Signal
<1>3. CASE S!ShutdownBegins
  <2>1. Budget \in Nat BY DeliveriesAssumption DEF DeliveriesAssumption, S!ServerAssumption
  <2>2. ServerType' BY <1>t, <1>3, <2>1 DEF S!ShutdownBegins, ServerType, Stopping
  <2>3. ShutdownOK' BY <1>t, <1>3 DEF S!ShutdownBegins, ShutdownOK, Booting
  <2> QED BY <1>3, <2>2, <2>3, ServerGoesOn DEF S!ShutdownBegins
<1>4. CASE S!Tick
  <2>1. left' \in Nat /\ (left' > 0 => left > 0)
    <3>1. left' = left - 1 /\ left > 0 BY <1>4 DEF S!Tick
    <3> QED BY <1>n, <3>1
  <2>2. ServerType' BY <1>t, <1>4, <2>1 DEF S!Tick, ServerType
  <2>3. S!InFlight' = S!InFlight BY <1>4 DEF S!Tick, S!InFlight
  <2>4. ShutdownOK' BY <1>t, <1>4, <2>1, <2>3 DEF S!Tick, ShutdownOK
  <2> QED BY <1>4, <2>2, <2>4, ServerGoesOn DEF S!Tick
<1>5. CASE S!ShutdownServer
  <2>1. ServerType' BY <1>t, <1>5 DEF S!ShutdownServer, ServerType, Stopping
  <2>2. S!InFlight' = S!InFlight BY <1>5 DEF S!ShutdownServer, S!InFlight
  <2>3. S!InFlight = {} \/ ~(left' > 0)
    <3>1. S!InFlight = {} \/ left' = 0 BY <1>5 DEF S!ShutdownServer, S!ServerIdle
    <3> QED BY <3>1
  <2>4. ShutdownOK' BY <1>t, <1>5, <2>2, <2>3 DEF S!ShutdownServer, ShutdownOK
  <2> QED BY <1>5, <2>1, <2>4, ServerGoesOn DEF S!ShutdownServer
<1>6. CASE S!ShutdownStarters
  <2>0. lost' = lost + queued /\ queued' = 0 /\ (queued = 0 \/ left = 0)
    BY <1>6 DEF S!ShutdownStarters
  <2>1. lost' \in Nat /\ queued' \in Nat BY <1>n, <2>0
  <2>2. ServerType' BY <1>t, <1>6, <2>1 DEF S!ShutdownStarters, ServerType, Stopping
  <2>3. S!InFlight' = S!InFlight BY <1>6 DEF S!ShutdownStarters, S!InFlight
  <2>4. lost = 0 BY <1>t, <1>6 DEF S!ShutdownStarters, ShutdownOK
  <2>5. left > 0 => lost' = 0 /\ queued' = 0 BY <1>n, <2>0, <2>4
  <2>6. ShutdownOK' BY <1>t, <1>6, <2>3, <2>5 DEF S!ShutdownStarters, ShutdownOK, Booting
  <2> QED BY <1>6, <2>2, <2>6, ServerGoesOn DEF S!ShutdownStarters
<1>7. CASE S!ShutdownTracer
  <2>1. ServerType' BY <1>t, <1>7 DEF S!ShutdownTracer, ServerType, Stopping
  <2>2. S!InFlight' = S!InFlight BY <1>7 DEF S!ShutdownTracer, S!InFlight
  <2>3. ShutdownOK' BY <1>t, <1>7, <2>2 DEF S!ShutdownTracer, ShutdownOK, Booting
  <2> QED BY <1>7, <2>1, <2>3, ServerGoesOn DEF S!ShutdownTracer
<1>8. CASE S!CloseDatabase
  <2>1. ServerType' BY <1>t, <1>8 DEF S!CloseDatabase, ServerType, Stopping
  <2>2. S!InFlight' = S!InFlight BY <1>8 DEF S!CloseDatabase, S!InFlight
  <2>3. ShutdownOK' BY <1>t, <1>8, <2>2 DEF S!CloseDatabase, ShutdownOK, Booting
  <2> QED BY <1>8, <2>1, <2>3, ServerGoesOn DEF S!CloseDatabase
<1> QED BY <1>1, <1>2, <1>3, <1>4, <1>5, <1>6, <1>7, <1>8 DEF S!GracefulShutdown

(* A step of the probe. *)
LEMMA ProbeChange ==
  ASSUME ServerInv, probe' \in ServerProbe, ProbeOK',
         UNCHANGED <<phase, listening, request, db, queued, lost, left>>
  PROVE  ServerInv'
BY DEF ServerInv, ServerType, ShutdownOK, S!InFlight

(* The health probe: checks return and their results are visited.          *)
LEMMA ServerProbes ==
  ASSUME ServerInv,
         \/ S!ReadinessHandler \/ S!GetHealth \/ S!Answer
         \/ \E c \in Checker : S!CheckReturns(c) \/ S!VisitResult(c)
  PROVE  ServerInv'
<1> USE DEF S!OnlyProbe
<1>0. probe \in ServerProbe /\ ProbeOK BY DEF ServerInv, ServerType
<1>1. CASE S!ReadinessHandler
  <2>1. probe' \in ServerProbe BY <1>0, <1>1 DEF S!ReadinessHandler, ServerProbe
  <2>2. ProbeOK' BY <1>0, <1>1 DEF S!ReadinessHandler, ServerProbe, ProbeOK
  <2> QED BY <1>1, <2>1, <2>2, ProbeChange DEF S!ReadinessHandler
<1>2. CASE S!GetHealth
  <2>1. probe' \in ServerProbe BY <1>0, <1>2 DEF S!GetHealth, ServerProbe, S!Status
  <2>2. ProbeOK' BY <1>0, <1>2 DEF S!GetHealth, ServerProbe, ProbeOK, WorstOf
  <2> QED BY <1>2, <2>1, <2>2, ProbeChange DEF S!GetHealth
<1>3. CASE S!Answer
  <2>1. probe' \in ServerProbe BY <1>0, <1>3 DEF S!Answer, ServerProbe
  <2>2. /\ probe'.results = probe.results /\ probe'.seen = probe.seen
        /\ probe'.answer = probe.answer /\ probe'.at = "answered"
    BY <1>0, <1>3 DEF S!Answer, ServerProbe
  <2>3. ProbeOK' BY <1>0, <1>3, <2>2 DEF S!Answer, ProbeOK, WorstOf
  <2> QED BY <1>3, <2>1, <2>3, ProbeChange DEF S!Answer
<1>4. ASSUME NEW c \in Checker, S!CheckReturns(c) PROVE ServerInv'
  <2>1. PICK s \in S!CheckerStatus(c) :
          probe' = [probe EXCEPT !.results = [d \in DOMAIN probe.results \cup {c} |->
                                                IF d = c THEN s ELSE probe.results[d]]]
    BY <1>4 DEF S!CheckReturns
  <2> DEFINE D == DOMAIN probe.results \cup {c}
  <2> DEFINE results == [d \in D |-> IF d = c THEN s ELSE probe.results[d]]
  <2>2. s \in S!Status BY DEF S!CheckerStatus, S!Status
  <2>3. PICK E \in SUBSET Checker : probe.results \in [E -> S!Status]
    BY <1>0 DEF ServerProbe, ProbeResults
  <2>4. D = E \cup {c} BY <2>3
  <2>5. D \in SUBSET Checker /\ results \in [D -> S!Status] BY <2>2, <2>3, <2>4
  <2>6. results \in ProbeResults BY <2>5 DEF ProbeResults
  <2>7. probe' = [probe EXCEPT !.results = results] BY <2>1
  <2> HIDE DEF results, D
  <2>8. probe' \in ServerProbe /\ probe'.at = probe.at /\ probe'.seen = probe.seen
    BY <1>0, <2>6, <2>7 DEF ServerProbe
  <2>9. ProbeOK' BY <1>0, <1>4, <2>8 DEF ProbeOK, S!CheckReturns
  <2> QED BY <1>4, <2>8, <2>9, ProbeChange DEF S!CheckReturns
<1>5. ASSUME NEW c \in Checker, S!VisitResult(c) PROVE ServerInv'
  <2> DEFINE a == S!Worse(probe.answer, probe.results[c])
  <2>1. probe' = [probe EXCEPT !.seen = probe.seen \cup {c}, !.answer = a]
    BY <1>5 DEF S!VisitResult
  <2>2. probe.at = "summing" /\ probe.answer # "down" /\ DOMAIN probe.results = Checker
        /\ probe.answer = WorstOf(probe.seen)
    BY <1>0, <1>5 DEF S!VisitResult, ProbeOK
  <2>3. probe.results \in [Checker -> S!Status]
    BY <1>0, <2>2 DEF ServerProbe, ProbeResults
  <2>4. a \in S!Status
    BY <1>0, <2>2, <2>3 DEF S!Worse, S!Status, WorstOf
  <2>5. a = WorstOf(probe.seen \cup {c})
    BY <2>2, <2>3 DEF S!Worse, S!Status, WorstOf
  <2> HIDE DEF a
  <2>6. /\ probe' \in ServerProbe /\ probe'.at = "summing" /\ probe'.results = probe.results
        /\ probe'.seen = probe.seen \cup {c} /\ probe'.answer = a
    BY <1>0, <2>1, <2>2, <2>4 DEF ServerProbe
  <2>7. ProbeOK' BY <2>2, <2>5, <2>6 DEF ProbeOK, WorstOf
  <2> QED BY <1>5, <2>6, <2>7, ProbeChange DEF S!VisitResult
<1> QED BY <1>1, <1>2, <1>3, <1>4, <1>5

(* One step of any component keeps the server sound.                       *)
LEMMA ServerStep == ServerInv /\ [Next]_vars => ServerInv'
<1> SUFFICES ASSUME ServerInv, [Next]_vars PROVE ServerInv'
  OBVIOUS
<1>1. CASE UNCHANGED serverVars
  <2>1. ServerType' BY <1>1 DEF serverVars, ServerInv, ServerType
  <2>2. ShutdownOK' BY <1>1 DEF serverVars, ServerInv, ShutdownOK, S!InFlight
  <2>3. ProbeOK' BY <1>1 DEF serverVars, ServerInv, ProbeOK, WorstOf
  <2>4. \A r \in Request : RequestOK(request'[r]) BY <1>1 DEF serverVars, ServerInv
  <2> QED BY <2>1, <2>2, <2>3, <2>4 DEF ServerInv
<1>2. CASE S!ServerNext
  BY <1>2, ServerBoots, ServerRequests, ServerStops, ServerProbes DEF S!ServerNext
<1> QED BY <1>1, <1>2 DEF Next, vars, MailScene, IntakeScene, JobsScene, StepsScene, AuditScene, ServerScene

(* Unless the ten seconds ran out, gracefulShutdown closes the database    *)
(* with no request on its way and no audit record left; a finished request *)
(* has one body, whatever deadline, panic or limit met it; a probe answers *)
(* the worst status in whatever order the results are visited.             *)
THEOREM ServerIsSound == Spec => []ServerSound
<1>1. ServerInv => ServerSound
  <2> SUFFICES ASSUME ServerInv PROVE S!ServerSound
    BY DEF ServerSound
  <2>1. db = "closed" /\ left > 0 => S!InFlight = {} /\ lost = 0 /\ queued = 0
    BY DEF ServerInv, ShutdownOK
  <2>2. \A r \in Request : request[r].at = "answered" =>
          request[r].bodies = (IF request[r].code = 204 THEN 0 ELSE 1)
    BY DEF ServerInv, RequestOK
  <2>3. probe.at = "answered" => probe.answer = WorstOf(Checker)
    BY DEF ServerInv, ServerType, ServerProbe, ProbeOK, WorstOf
  <2> QED BY <2>1, <2>2, <2>3 DEF S!ServerSound, WorstOf
<1> QED BY <1>1, ServerStart, ServerStep, PTL DEF Spec

-------------------------------------------------------------------------------
(* The audit log.                                                              *)

(* What an insertion at the end and a removal at the front do to a queue.  *)
LEMMA QueueEnds ==
  ASSUME NEW X, NEW s \in Seq(X)
  PROVE  /\ \A x \in X : Append(s, x) \in Seq(X) /\ Elements(Append(s, x)) = Elements(s) \cup {x}
         /\ s # <<>> => /\ Head(s) \in X /\ Tail(s) \in Seq(X)
                        /\ Elements(s) = {Head(s)} \cup Elements(Tail(s))
<1>1. ASSUME NEW x \in X PROVE Append(s, x) \in Seq(X) /\ Elements(Append(s, x)) = Elements(s) \cup {x}
  <2>1. /\ Append(s, x) \in Seq(X) /\ DOMAIN Append(s, x) = 1 .. Len(s) + 1 /\ DOMAIN s = 1 .. Len(s)
        /\ \A i \in 1 .. Len(s) : Append(s, x)[i] = s[i]
        /\ Append(s, x)[Len(s) + 1] = x /\ Len(s) \in Nat
    OBVIOUS
  <2> QED BY <2>1 DEF Elements
<1>2. ASSUME s # <<>>
      PROVE  Head(s) \in X /\ Tail(s) \in Seq(X) /\ Elements(s) = {Head(s)} \cup Elements(Tail(s))
  <2>1. /\ Head(s) = s[1] /\ Tail(s) \in Seq(X) /\ Len(s) \in Nat \ {0} /\ DOMAIN s = 1 .. Len(s)
        /\ DOMAIN Tail(s) = 1 .. Len(s) - 1
        /\ \A i \in 1 .. Len(s) - 1 : Tail(s)[i] = s[i + 1]
    BY <1>2
  <2>2. Head(s) \in X BY <2>1
  <2>3. ASSUME NEW i \in DOMAIN s PROVE s[i] \in {Head(s)} \cup Elements(Tail(s))
    <3>1. CASE i = 1 BY <2>1, <3>1
    <3>2. CASE i # 1
      <4>1. i - 1 \in DOMAIN Tail(s) BY <2>1, <3>2
      <4>2. Tail(s)[i - 1] = s[i] BY <2>1, <4>1
      <4> QED BY <4>1, <4>2 DEF Elements
    <3> QED BY <3>1, <3>2
  <2>4. ASSUME NEW i \in DOMAIN Tail(s) PROVE Tail(s)[i] \in Elements(s)
    <3>1. i + 1 \in DOMAIN s BY <2>1
    <3>2. Tail(s)[i] = s[i + 1] BY <2>1
    <3> QED BY <3>1, <3>2 DEF Elements
  <2>5. Head(s) \in Elements(s) BY <2>1 DEF Elements
  <2> QED BY <2>1, <2>2, <2>3, <2>4, <2>5 DEF Elements
<1> QED BY <1>1, <1>2

(* The order of a history is a strict order. *)
LEMMA NewerIsTransitive ==
  ASSUME NEW kind, NEW a \in AuditRow, NEW b \in AuditRow, NEW c \in AuditRow,
         A!Newer(kind, a, b), A!Newer(kind, b, c)
  PROVE  A!Newer(kind, a, c)
<1>1. /\ a.id \in Nat /\ b.id \in Nat /\ c.id \in Nat
      /\ a.made \in Nat /\ b.made \in Nat /\ c.made \in Nat
  BY DEF AuditRow
<1>2. CASE kind = "own" BY <1>1, <1>2 DEF A!Newer
<1>3. CASE kind # "own" BY <1>1, <1>3 DEF A!Newer
<1> QED BY <1>2, <1>3

(* The queue, the batch and the table are empty.                           *)
LEMMA AuditStart == Init => AuditInv
<1> SUFFICES ASSUME A!AuditInit PROVE AuditInv
  BY DEF Init
<1>1. AuditType
  <2>1. /\ filing \in [Entry -> AuditFiling] /\ trail \subseteq AuditRow
        /\ nextRow \in Nat /\ day \in Nat /\ timeouts \in Nat /\ reader = A!NoReader
    BY DEF A!AuditInit, AuditFiling
  <2>2. auditQueue \in Seq(Entry) /\ auditBatch \in Seq(Entry)
    BY DEF A!AuditInit
  <2>3. writer \in AuditWriter
    BY DEF A!AuditInit, AuditWriter
  <2> QED BY <2>1, <2>2, <2>3 DEF AuditType
<1>2. WriterOK
  BY DEF A!AuditInit, WriterOK
<1>3. TrailOK /\ ReaderOK
  BY DEF A!AuditInit, TrailOK, ReaderOK
<1> QED BY <1>1, <1>2, <1>3 DEF AuditInv

(* A reader's place stands when the table only loses rows and gains rows   *)
(* with new ids, and when time passes.                                     *)
LEMMA ReaderKeepsPlace ==
  ASSUME AuditType, ReaderOK, reader' = reader, day' \in {day, day + 1},
         nextRow' \in Nat, nextRow' >= nextRow,
         \A row \in trail' : row \in trail \/ row.id >= nextRow
  PROVE  ReaderOK'
<1> SUFFICES ASSUME reader # A!NoReader
             PROVE  /\ \A row \in reader.due : row.id < nextRow' /\ (reader.kind = "all" => row.made < day')
                    /\ \A row \in reader.due \cap trail' :
                         A!InHistory(reader.kind, row)' =>
                           \/ row \in Elements(reader.got)
                           \/ reader.more /\ \A c \in reader.after : A!Newer(reader.kind, c, row)
  BY DEF ReaderOK, A!Newer, A!NoReader
<1>1. /\ reader \in AuditReader /\ reader.due \subseteq AuditRow /\ reader.kind \in {"own", "all"}
      /\ day \in Nat /\ nextRow \in Nat /\ AuditRange \in Nat
  BY DeliveriesAssumption DEF AuditType, AuditReader, A!AuditAssumption
<1>2. ASSUME NEW row \in reader.due
      PROVE  /\ row.id \in Nat /\ row.made \in Nat /\ row.id < nextRow
             /\ reader.kind = "all" => row.made < day
  BY <1>1 DEF ReaderOK, AuditRow
<1>3. ASSUME NEW row \in reader.due PROVE row.id < nextRow' /\ (reader.kind = "all" => row.made < day')
  BY <1>1, <1>2
<1>4. ASSUME NEW row \in reader.due \cap trail', A!InHistory(reader.kind, row)'
      PROVE  row \in trail /\ A!InHistory(reader.kind, row)
  <2>1. row \in trail BY <1>1, <1>2
  <2>2. CASE reader.kind = "own" BY <1>4, <2>1, <2>2 DEF A!InHistory
  <2>3. CASE reader.kind = "all"
    <3>1. row.made + AuditRange >= day' BY <1>4, <2>3 DEF A!InHistory
    <3>2. row.made + AuditRange >= day /\ row.made < day BY <1>1, <1>2, <2>3, <3>1
    <3> QED BY <2>1, <2>3, <3>2 DEF A!InHistory
  <2> QED BY <1>1, <2>2, <2>3
<1> QED BY <1>3, <1>4 DEF ReaderOK

(* Storing a batch, or losing it, leaves every other record where it was.  *)
LEMMA AuditStores ==
  ASSUME AuditType, TrailOK, ReaderOK, NEW batch \in Seq(Entry), NEW kept \in BOOLEAN,
         A!Store(batch, kept), UNCHANGED <<day, reader>>
  PROVE  /\ filing' \in [Entry -> AuditFiling] /\ trail' \subseteq AuditRow /\ nextRow' \in Nat
         /\ TrailOK' /\ ReaderOK'
         /\ \A e \in Entry : filing'[e].at = IF e \in Elements(batch)
                                             THEN IF kept THEN "stored" ELSE "lost"
                                             ELSE filing[e].at
<1>1. filing \in [Entry -> AuditFiling] /\ nextRow \in Nat /\ trail \subseteq AuditRow
  BY DEF AuditType
<1>2. Len(batch) \in Nat /\ DOMAIN batch = 1 .. Len(batch) OBVIOUS
<1>3. nextRow' = nextRow + Len(batch) BY DEF A!Store
<1>4. nextRow' \in Nat /\ nextRow' >= nextRow BY <1>1, <1>2, <1>3
<1>5. ASSUME NEW row \in A!AuditLogRows(batch)
      PROVE  row \in AuditRow /\ row.id >= nextRow /\ row.id < nextRow'
  <2>1. PICK i \in 1 .. Len(batch) :
          row = [id |-> nextRow + i - 1, made |-> filing[batch[i]].made, entry |-> batch[i]]
    BY DEF A!AuditLogRows
  <2>2. batch[i] \in Entry BY <1>2
  <2>3. filing[batch[i]].made \in Nat BY <1>1, <2>2 DEF AuditFiling
  <2>4. nextRow + i - 1 \in Nat /\ nextRow + i - 1 >= nextRow /\ nextRow + i - 1 < nextRow'
    BY <1>1, <1>2, <1>3
  <2> QED BY <2>1, <2>2, <2>3, <2>4 DEF AuditRow
<1>6. trail' \subseteq trail \cup A!AuditLogRows(batch) BY DEF A!Store
<1>7. trail' \subseteq AuditRow BY <1>1, <1>5, <1>6
<1>8. TrailOK'
  <2> SUFFICES ASSUME NEW row \in trail' PROVE row.id < nextRow'
    BY DEF TrailOK
  <2>1. CASE row \in trail
    <3>1. row.id \in Nat /\ row.id < nextRow BY <1>1, <2>1 DEF TrailOK, AuditRow
    <3> QED BY <1>1, <1>4, <3>1
  <2>2. CASE row \in A!AuditLogRows(batch) BY <1>5, <2>2
  <2> QED BY <1>6, <2>1, <2>2
<1>9. ReaderOK' BY <1>4, <1>5, <1>6, ReaderKeepsPlace
<1>10. ASSUME NEW e \in Entry
       PROVE  /\ filing'[e] \in AuditFiling
              /\ filing'[e].at = IF e \in Elements(batch) THEN IF kept THEN "stored" ELSE "lost"
                                 ELSE filing[e].at
  <2>1. filing[e] \in AuditFiling BY <1>1
  <2>2. filing'[e] = IF e \in Elements(batch)
                     THEN [filing[e] EXCEPT !.at = IF kept THEN "stored" ELSE "lost"] ELSE filing[e]
    BY DEF A!Store, A!ToSet, Elements
  <2> QED BY <2>1, <2>2 DEF AuditFiling
<1>11. filing' = [e \in Entry |-> filing'[e]] BY DEF A!Store
<1>12. filing' \in [Entry -> AuditFiling] BY <1>10, <1>11
<1> QED BY <1>4, <1>7, <1>8, <1>9, <1>10, <1>12

(* The requests: their records are made, queued or stored. *)
LEMMA AuditRecords ==
  ASSUME AuditInv, NEW e \in Entry, A!RecordRequest(e) \/ A!Write(e) \/ A!CreateDirect(e)
  PROVE  AuditInv'
<1>0. /\ AuditType /\ WriterOK /\ TrailOK /\ ReaderOK
      /\ filing \in [Entry -> AuditFiling] /\ filing[e] \in AuditFiling /\ day \in Nat
      /\ nextRow \in Nat /\ auditQueue \in Seq(Entry) /\ auditBatch \in Seq(Entry) /\ writer \in AuditWriter
  BY DEF AuditInv, AuditType
<1>1. CASE A!RecordRequest(e)
  <2> DEFINE f == [at |-> IF writer.async /\ ~writer.stopped THEN "locked" ELSE "direct", made |-> day]
  <2>1. f \in AuditFiling /\ f.at \in {"locked", "direct"}
        /\ (f.at = "locked" => writer.async /\ ~writer.stopped)
    BY <1>0 DEF AuditFiling
  <2> HIDE DEF f
  <2>2. filing' = [filing EXCEPT ![e] = f] BY <1>1 DEF A!RecordRequest, f
  <2>3. UNCHANGED <<auditQueue, auditBatch, writer, trail, nextRow, day, reader, timeouts>>
    BY <1>1 DEF A!RecordRequest
  <2>4. AuditType' BY <1>0, <2>1, <2>2, <2>3 DEF AuditType
  <2>5. WriterOK' BY <1>0, <2>1, <2>2, <2>3 DEF WriterOK
  <2>6. TrailOK' BY <1>0, <2>3 DEF TrailOK
  <2>7. ReaderOK' BY <1>0, <2>3, ReaderKeepsPlace
  <2> QED BY <2>4, <2>5, <2>6, <2>7 DEF AuditInv
<1>2. CASE A!Write(e)
  <2> DEFINE q == [filing[e] EXCEPT !.at = "queued"]
  <2> DEFINE d == [filing[e] EXCEPT !.at = "direct"]
  <2>1. q \in AuditFiling /\ q.at = "queued" /\ d \in AuditFiling /\ d.at = "direct"
    BY <1>0 DEF AuditFiling
  <2>2. \/ filing' = [filing EXCEPT ![e] = q] /\ auditQueue' = Append(auditQueue, e)
        \/ filing' = [filing EXCEPT ![e] = d] /\ auditQueue' = auditQueue
    BY <1>2 DEF A!Write
  <2> HIDE DEF q, d
  <2>3. UNCHANGED <<auditBatch, writer, trail, nextRow, day, reader, timeouts>>
    BY <1>2 DEF A!Write
  <2>4. /\ Append(auditQueue, e) \in Seq(Entry)
        /\ Elements(Append(auditQueue, e)) = Elements(auditQueue) \cup {e}
    BY <1>0, QueueEnds
  <2>5. writer.async /\ ~writer.stopped /\ writer.at # "done"
    BY <1>0, <1>2 DEF WriterOK, A!Write
  <2>6. AuditType' BY <1>0, <2>1, <2>2, <2>3, <2>4 DEF AuditType
  <2>7. \A x \in Entry : \/ filing'[x] = filing[x]
                         \/ x = e /\ filing'[x].at = "direct"
                         \/ x = e /\ filing'[x].at = "queued" /\ e \in Elements(auditQueue')
    BY <1>0, <2>1, <2>2, <2>4
  <2>8. Elements(auditQueue) \subseteq Elements(auditQueue') BY <2>2, <2>4
  <2>9. WriterOK' BY <1>0, <2>3, <2>5, <2>7, <2>8 DEF WriterOK
  <2>10. TrailOK' BY <1>0, <2>3 DEF TrailOK
  <2>11. ReaderOK' BY <1>0, <2>3, ReaderKeepsPlace
  <2> QED BY <2>6, <2>9, <2>10, <2>11 DEF AuditInv
<1>3. CASE A!CreateDirect(e)
  <2> DEFINE batch == <<e>>
  <2> DEFINE kept == e \notin Unstorable
  <2>1. batch \in Seq(Entry) /\ Elements(batch) = {e} /\ kept \in BOOLEAN BY DEF Elements
  <2>2. A!Store(batch, kept) /\ UNCHANGED <<auditQueue, auditBatch, writer, day, reader, timeouts>>
    BY <1>3 DEF A!CreateDirect
  <2>k. kept \/ e \in Unstorable OBVIOUS
  <2> HIDE DEF batch, kept
  <2>3. /\ filing' \in [Entry -> AuditFiling] /\ trail' \subseteq AuditRow /\ nextRow' \in Nat
        /\ TrailOK' /\ ReaderOK'
        /\ \A x \in Entry : filing'[x].at = IF x \in Elements(batch)
                                            THEN IF kept THEN "stored" ELSE "lost"
                                            ELSE filing[x].at
    BY <1>0, <2>1, <2>2, AuditStores
  <2>4. AuditType' BY <1>0, <2>2, <2>3 DEF AuditType
  <2>u. UNCHANGED <<auditQueue, auditBatch, writer, timeouts>> BY <2>2
  <2>w. \A x \in Entry : filing'[x].at = filing[x].at \/ filing'[x].at = "stored"
                         \/ (filing'[x].at = "lost" /\ x \in Unstorable)
    BY <2>1, <2>3, <2>k
  <2>5. WriterOK' BY <1>0, <2>u, <2>w DEF WriterOK
  <2> QED BY <2>3, <2>4, <2>5 DEF AuditInv
<1> QED BY <1>1, <1>2, <1>3

(* run's own steps before a flush, and the shutdown. *)
LEMMA AuditRuns ==
  ASSUME AuditInv, A!TakeEntry \/ A!FlushTick \/ A!SeeStop \/ A!Drained \/ A!Shutdown
  PROVE  AuditInv'
<1>0. /\ AuditType /\ WriterOK /\ TrailOK /\ ReaderOK /\ day \in Nat
      /\ nextRow \in Nat /\ auditQueue \in Seq(Entry) /\ auditBatch \in Seq(Entry) /\ writer \in AuditWriter
  BY DEF AuditInv, AuditType
<1>1. UNCHANGED <<filing, trail, nextRow, day, reader, timeouts>>
  BY DEF A!TakeEntry, A!FlushTick, A!SeeStop, A!Drained, A!Shutdown
<1>2. TrailOK' BY <1>0, <1>1 DEF TrailOK
<1>3. ReaderOK' BY <1>0, <1>1, ReaderKeepsPlace
<1>4. CASE A!TakeEntry
  <2>1. /\ Head(auditQueue) \in Entry /\ Tail(auditQueue) \in Seq(Entry)
        /\ Elements(auditQueue) = {Head(auditQueue)} \cup Elements(Tail(auditQueue))
    BY <1>0, <1>4, QueueEnds DEF A!TakeEntry
  <2>2. /\ Append(auditBatch, Head(auditQueue)) \in Seq(Entry)
        /\ Elements(Append(auditBatch, Head(auditQueue))) = Elements(auditBatch) \cup {Head(auditQueue)}
    BY <1>0, <2>1, QueueEnds
  <2>3. /\ auditBatch' = Append(auditBatch, Head(auditQueue)) /\ auditQueue' = Tail(auditQueue)
        /\ \/ writer' = [writer EXCEPT !.at = "flush"]
           \/ writer' = [writer EXCEPT !.at = "loop"]
    BY <1>4 DEF A!TakeEntry
  <2>4. /\ writer' \in AuditWriter /\ writer'.at # "done" /\ writer'.stopped = writer.stopped
        /\ writer'.async = writer.async /\ writer'.draining = writer.draining
        /\ writer'.expired = writer.expired
    BY <1>0, <2>3 DEF AuditWriter
  <2>5. AuditType' BY <1>0, <1>1, <2>1, <2>2, <2>3, <2>4 DEF AuditType
  <2>6. Elements(auditQueue) \cup Elements(auditBatch) = Elements(auditQueue') \cup Elements(auditBatch')
    BY <2>1, <2>2, <2>3
  <2>7. WriterOK' BY <1>0, <1>1, <2>4, <2>6 DEF WriterOK
  <2> QED BY <1>2, <1>3, <2>5, <2>7 DEF AuditInv
<1>5. CASE A!FlushTick
  <2>1. /\ UNCHANGED <<auditQueue, auditBatch>> /\ writer' \in AuditWriter
        /\ writer'.stopped = writer.stopped
        /\ writer'.async = writer.async /\ writer'.draining = writer.draining
        /\ writer'.expired = writer.expired /\ writer'.at = "flush"
    BY <1>0, <1>5 DEF A!FlushTick, AuditWriter
  <2>2. AuditType' BY <1>0, <1>1, <2>1 DEF AuditType
  <2>3. WriterOK' BY <1>0, <1>1, <2>1 DEF WriterOK, Elements
  <2> QED BY <1>2, <1>3, <2>2, <2>3 DEF AuditInv
<1>6. CASE A!SeeStop
  <2>1. /\ UNCHANGED <<auditQueue, auditBatch>> /\ writer' \in AuditWriter
        /\ writer'.stopped = writer.stopped /\ writer.stopped
        /\ writer'.async = writer.async /\ writer'.draining = TRUE
        /\ writer'.expired = writer.expired /\ writer'.at = writer.at /\ writer.at = "loop"
    BY <1>0, <1>6 DEF A!SeeStop, AuditWriter
  <2>2. AuditType' BY <1>0, <1>1, <2>1 DEF AuditType
  <2>3. WriterOK' BY <1>0, <1>1, <2>1 DEF WriterOK, Elements
  <2> QED BY <1>2, <1>3, <2>2, <2>3 DEF AuditInv
<1>7. CASE A!Drained
  <2>1. /\ UNCHANGED <<auditQueue, auditBatch>> /\ writer' \in AuditWriter
        /\ writer'.stopped = writer.stopped
        /\ writer'.async = writer.async /\ writer'.draining = writer.draining
        /\ writer'.expired = writer.expired
        /\ writer'.at = "done" => auditBatch = <<>> /\ auditQueue = <<>> /\ writer.draining
    BY <1>0, <1>7 DEF A!Drained, AuditWriter
  <2>2. AuditType' BY <1>0, <1>1, <2>1 DEF AuditType
  <2>3. WriterOK' BY <1>0, <1>1, <2>1 DEF WriterOK, Elements
  <2> QED BY <1>2, <1>3, <2>2, <2>3 DEF AuditInv
<1>8. CASE A!Shutdown
  <2>1. /\ UNCHANGED <<auditQueue, auditBatch>> /\ writer' \in AuditWriter
        /\ writer'.stopped = TRUE /\ \A e \in Entry : filing[e].at # "locked"
        /\ writer'.async = writer.async /\ writer'.draining = writer.draining
        /\ writer'.expired = writer.expired /\ writer'.at = writer.at
    BY <1>0, <1>8 DEF A!Shutdown, AuditWriter
  <2>2. AuditType' BY <1>0, <1>1, <2>1 DEF AuditType
  <2>3. WriterOK' BY <1>0, <1>1, <2>1 DEF WriterOK, Elements
  <2> QED BY <1>2, <1>3, <2>2, <2>3 DEF AuditInv
<1> QED BY <1>4, <1>5, <1>6, <1>7, <1>8

(* A flush: all at once, or row by row. *)
LEMMA AuditFlushes == AuditInv /\ (A!FlushBatch \/ A!FlushRow) => AuditInv'
<1> SUFFICES ASSUME AuditInv, A!FlushBatch \/ A!FlushRow PROVE AuditInv'
  OBVIOUS
<1>0. /\ AuditType /\ WriterOK /\ TrailOK /\ ReaderOK /\ day \in Nat /\ timeouts \in Nat
      /\ nextRow \in Nat /\ auditQueue \in Seq(Entry) /\ auditBatch \in Seq(Entry) /\ writer \in AuditWriter
  BY DEF AuditInv, AuditType
<1>1. UNCHANGED <<auditQueue, day, reader>> BY DEF A!FlushBatch, A!FlushRow
<1>2. CASE A!FlushBatch /\ A!Store(auditBatch, TRUE) /\ auditBatch' = <<>> /\ UNCHANGED timeouts
           /\ writer' = [writer EXCEPT !.at = "loop"]
  <2>1. /\ filing' \in [Entry -> AuditFiling] /\ trail' \subseteq AuditRow /\ nextRow' \in Nat
        /\ TrailOK' /\ ReaderOK'
        /\ \A x \in Entry : filing'[x].at = IF x \in Elements(auditBatch) THEN "stored" ELSE filing[x].at
    BY <1>0, <1>1, <1>2, AuditStores
  <2>2. /\ writer' \in AuditWriter /\ writer'.at = "loop" /\ writer'.stopped = writer.stopped
        /\ writer'.async = writer.async /\ writer'.draining = writer.draining
        /\ writer'.expired = writer.expired
    BY <1>0, <1>2 DEF AuditWriter
  <2>3. auditBatch' \in Seq(Entry) BY <1>2
  <2>4. AuditType' BY <1>0, <1>1, <1>2, <2>1, <2>2, <2>3 DEF AuditType
  <2>5. WriterOK' BY <1>0, <1>1, <1>2, <2>1, <2>2 DEF WriterOK
  <2> QED BY <2>1, <2>4, <2>5 DEF AuditInv
<1>3. CASE /\ UNCHANGED <<filing, auditBatch, trail, nextRow>> /\ writer.at # "done"
           /\ \/ writer' = [writer EXCEPT !.at = "rows"] /\ UNCHANGED timeouts
              \/ writer' = [writer EXCEPT !.at = "rows", !.expired = TRUE] /\ timeouts' = timeouts + 1
              \/ writer' = [writer EXCEPT !.at = "loop", !.expired = FALSE] /\ UNCHANGED timeouts
  <2>1. /\ writer' \in AuditWriter /\ writer'.at # "done" /\ writer'.stopped = writer.stopped
        /\ writer'.async = writer.async /\ writer'.draining = writer.draining
        /\ writer'.expired => writer.expired \/ timeouts' = timeouts + 1
    BY <1>0, <1>3 DEF AuditWriter
  <2>2. timeouts' = timeouts \/ timeouts' = timeouts + 1 BY <1>3
  <2>3. timeouts' \in Nat /\ (timeouts > 0 => timeouts' > 0) /\ (timeouts' = timeouts + 1 => timeouts' > 0)
    BY <1>0, <2>2
  <2>4. AuditType' BY <1>0, <1>1, <1>3, <2>1, <2>3 DEF AuditType
  <2>5. writer'.expired => timeouts' > 0 BY <1>0, <2>1, <2>3 DEF WriterOK
  <2>6. \A e \in Entry : filing'[e].at = "lost" => e \in Unstorable \/ timeouts' > 0
    BY <1>0, <1>3, <2>3 DEF WriterOK
  <2>7. WriterOK' BY <1>0, <1>1, <1>3, <2>1, <2>5, <2>6 DEF WriterOK, Elements
  <2>8. TrailOK' BY <1>0, <1>3 DEF TrailOK
  <2>9. ReaderOK' BY <1>0, <1>1, <1>3, ReaderKeepsPlace
  <2> QED BY <2>4, <2>7, <2>8, <2>9 DEF AuditInv
<1>4. CASE A!FlushRow /\ auditBatch # <<>>
  <2> DEFINE batch == <<Head(auditBatch)>>
  <2> DEFINE kept == ~writer.expired /\ Head(auditBatch) \notin Unstorable
  <2>1. /\ Head(auditBatch) \in Entry /\ Tail(auditBatch) \in Seq(Entry)
        /\ Elements(auditBatch) = {Head(auditBatch)} \cup Elements(Tail(auditBatch))
    BY <1>0, <1>4, QueueEnds
  <2>2. A!Store(batch, kept) /\ auditBatch' = Tail(auditBatch) /\ UNCHANGED <<writer, timeouts>>
        /\ writer.at = "rows"
    BY <1>4 DEF A!FlushRow
  <2>3. batch \in Seq(Entry) /\ Elements(batch) = {Head(auditBatch)} /\ kept \in BOOLEAN
    BY <2>1 DEF Elements
  <2>4. kept \/ Head(auditBatch) \in Unstorable \/ timeouts > 0
    BY <1>0 DEF WriterOK
  <2> HIDE DEF batch, kept
  <2>5. /\ filing' \in [Entry -> AuditFiling] /\ trail' \subseteq AuditRow /\ nextRow' \in Nat
        /\ TrailOK' /\ ReaderOK'
        /\ \A x \in Entry : filing'[x].at = IF x \in Elements(batch)
                                            THEN IF kept THEN "stored" ELSE "lost"
                                            ELSE filing[x].at
    BY <1>0, <1>1, <2>2, <2>3, AuditStores
  <2>6. AuditType' BY <1>0, <1>1, <2>1, <2>2, <2>5 DEF AuditType
  <2>7. WriterOK' BY <1>0, <1>1, <2>1, <2>2, <2>3, <2>4, <2>5 DEF WriterOK
  <2> QED BY <2>5, <2>6, <2>7 DEF AuditInv
<1>5. CASE A!FlushBatch BY <1>2, <1>3, <1>5 DEF A!FlushBatch
<1>6. CASE A!FlushRow BY <1>3, <1>4, <1>6 DEF A!FlushRow
<1> QED BY <1>5, <1>6

(* A page: it follows on what the reader has, and what it leaves out is    *)
(* behind its last row.                                                    *)
LEMMA PageFollows ==
  ASSUME AuditType, ReaderOK, TrailOK, reader # A!NoReader, reader.more,
         NEW n \in 0 .. PageLimit, NEW page \in [1 .. n -> A!Matching], A!IsSlice(page),
         reader' = [reader EXCEPT !.got = @ \o page, !.after = A!FollowsOn(page),
                                  !.more = A!FollowsOn(page) # {}],
         UNCHANGED <<trail, nextRow, day>>
  PROVE  reader' \in AuditReader /\ ReaderOK'
<1> DEFINE kind == reader.kind
<1> DEFINE got == reader.got
<1>0. /\ reader \in AuditReader /\ trail \subseteq AuditRow /\ PageLimit \in Nat \ {0}
      /\ nextRow \in Nat /\ day \in Nat
  BY DeliveriesAssumption DEF AuditType, A!AuditAssumption
<1>1. /\ got \in Seq(AuditRow) /\ Len(got) \in Nat /\ DOMAIN got = 1 .. Len(got)
      /\ reader.due \subseteq AuditRow /\ kind \in {"own", "all"}
  BY <1>0 DEF AuditReader
<1>2. A!Matching \subseteq AuditRow BY <1>0 DEF A!Matching
<1>3. page \in Seq(AuditRow) /\ Len(page) = n /\ DOMAIN page = 1 .. n /\ n \in Nat
  BY <1>0, <1>2
<1>4. ASSUME NEW i \in 1 .. n
      PROVE  /\ page[i] \in AuditRow /\ page[i] \in A!Matching
             /\ \A c \in reader.after : A!Newer(kind, c, page[i])
  BY <1>2, <1>3 DEF A!Matching
<1> DEFINE all == got \o page
<1>5. /\ all \in Seq(AuditRow) /\ Len(all) = Len(got) + n /\ DOMAIN all = 1 .. Len(got) + n
      /\ \A i \in 1 .. Len(got) : all[i] = got[i]
      /\ \A i \in Len(got) + 1 .. Len(got) + n : all[i] = page[i - Len(got)]
      /\ \A i \in 1 .. n : all[Len(got) + i] = page[i]
  <2>1. /\ all \in Seq(AuditRow) /\ Len(all) = Len(got) + n /\ DOMAIN all = 1 .. Len(got) + n
    BY <1>1, <1>3
  <2>2. \A i \in 1 .. Len(got) : all[i] = got[i] BY <1>1, <1>3
  <2>3. \A i \in Len(got) + 1 .. Len(got) + n : all[i] = page[i - Len(got)] BY <1>1, <1>3
  <2>4. \A i \in 1 .. n : all[Len(got) + i] = page[i]
    <3> HIDE DEF all
    <3> SUFFICES ASSUME NEW i \in 1 .. n PROVE all[Len(got) + i] = page[i]
      OBVIOUS
    <3> DEFINE l == Len(got)
    <3>0. l \in Nat /\ n \in Nat BY <1>1, <1>3
    <3>1. l + i \in l + 1 .. l + n /\ (l + i) - l = i
      <4> HIDE DEF l
      <4> QED BY <3>0
    <3> QED BY <2>3, <3>1
  <2> QED BY <2>1, <2>2, <2>3, <2>4
<1>6. A!FollowsOn(page) = IF A!Matching = Elements(page) THEN {} ELSE {page[n]}
  BY <1>3 DEF A!FollowsOn, A!ToSet, Elements
<1>7. A!Matching # Elements(page) => n \in 1 .. n
  <2>1. n < PageLimit => A!Matching = Elements(page) BY <1>3 DEF A!IsSlice, A!ToSet, Elements
  <2> QED BY <1>0, <1>3, <2>1
<1> DEFINE after == A!FollowsOn(page)
<1>8. after \subseteq AuditRow BY <1>4, <1>6, <1>7
<1> HIDE DEF all, after
<1>9. reader' = [reader EXCEPT !.got = all, !.after = after, !.more = after # {}] BY DEF all, after
<1>10. /\ reader' \in AuditReader /\ reader'.kind = kind /\ reader'.got = all
       /\ reader'.after = after /\ reader'.more = (after # {}) /\ reader'.due = reader.due
  <2> DEFINE m == after # {}
  <2>1. m \in BOOLEAN OBVIOUS
  <2>2. all \in Seq(AuditRow) BY <1>5
  <2>3. reader' = [reader EXCEPT !.got = all, !.after = after, !.more = m] BY <1>9
  <2>4. reader \in AuditReader BY <1>0
  <2> HIDE DEF m
  <2>5. /\ reader' \in AuditReader /\ reader'.kind = reader.kind /\ reader'.got = all
        /\ reader'.after = after /\ reader'.more = m /\ reader'.due = reader.due
    BY <1>8, <2>1, <2>2, <2>3, <2>4 DEF AuditReader
  <2> QED BY <2>5 DEF m
<1>11. ASSUME NEW i \in DOMAIN all, NEW j \in DOMAIN all, i < j
       PROVE  A!Newer(kind, all[i], all[j])
  <2>1. CASE j \in 1 .. Len(got)
    <3>1. i \in 1 .. Len(got) BY <1>1, <1>5, <1>11, <2>1
    <3> QED BY <1>1, <1>5, <1>11, <2>1, <3>1 DEF ReaderOK
  <2>2. CASE i \in Len(got) + 1 .. Len(got) + n
    <3> DEFINE k == i - Len(got)
    <3> DEFINE l == j - Len(got)
    <3> DEFINE m == Len(got)
    <3>0. m \in Nat /\ i \in m + 1 .. m + n /\ j \in 1 .. m + n /\ i < j BY <1>1, <1>5, <1>11, <2>2
    <3>1. k \in 1 .. n /\ l \in 1 .. n /\ k < l /\ j \in Len(got) + 1 .. Len(got) + n
      <4> HIDE DEF m
      <4>1. i - m \in 1 .. n /\ j - m \in 1 .. n /\ i - m < j - m /\ j \in m + 1 .. m + n BY <1>3, <3>0
      <4> QED BY <4>1 DEF m
    <3>2. all[i] = page[k] /\ all[j] = page[l] BY <1>5, <2>2, <3>1
    <3> HIDE DEF k, l
    <3>3. A!Newer(kind, page[k], page[l]) BY <1>3, <3>1 DEF A!IsSlice
    <3> QED BY <3>2, <3>3
  <2>3. CASE i \in 1 .. Len(got) /\ j \in Len(got) + 1 .. Len(got) + n
    <3> DEFINE l == j - Len(got)
    <3> DEFINE last == got[Len(got)]
    <3>1. l \in 1 .. n /\ Len(got) \in 1 .. Len(got) /\ got # <<>> BY <1>1, <1>3, <2>3
    <3>2. all[i] = got[i] /\ all[j] = page[l] BY <1>5, <2>3
    <3>3. got[i] \in AuditRow /\ last \in AuditRow /\ page[l] \in AuditRow
      BY <1>1, <1>4, <2>3, <3>1
    <3>4. last \in reader.after BY <3>1 DEF ReaderOK
    <3>5. A!Newer(kind, last, page[l]) BY <1>4, <3>1, <3>4
    <3> HIDE DEF l
    <3>6. CASE i = Len(got) BY <3>2, <3>5, <3>6
    <3>7. CASE i < Len(got)
      <4>1. A!Newer(kind, got[i], last) BY <1>1, <2>3, <3>1, <3>7 DEF ReaderOK
      <4> HIDE DEF last, kind, got
      <4>2. A!Newer(kind, got[i], page[l]) BY <4>1, <3>3, <3>5, NewerIsTransitive
      <4> QED BY <3>2, <4>2
    <3> QED BY <1>1, <2>3, <3>6, <3>7
  <2> QED BY <1>1, <1>5, <1>3, <2>1, <2>2, <2>3
<1>12. after # {} => all # <<>> /\ after = {all[Len(all)]}
  <2> SUFFICES ASSUME after # {} PROVE all # <<>> /\ after = {all[Len(all)]}
    OBVIOUS
  <2>1. A!Matching # Elements(page) /\ after = {page[n]} BY <1>6 DEF after
  <2>2. n \in 1 .. n BY <1>7, <2>1
  <2>3. all[Len(got) + n] = page[n] BY <1>5, <2>2
  <2>4. Len(all) = Len(got) + n /\ Len(got) + n # 0 BY <1>1, <1>3, <1>5, <2>2
  <2>5. all # <<>> BY <2>4, <1>5
  <2> QED BY <2>1, <2>3, <2>4, <2>5
<1>13. Elements(got) \subseteq Elements(all)
  <2> SUFFICES ASSUME NEW i \in DOMAIN got PROVE got[i] \in Elements(all)
    BY DEF Elements
  <2>1. i \in DOMAIN all /\ all[i] = got[i] BY <1>1, <1>3, <1>5
  <2> QED BY <2>1 DEF Elements
<1>14. Elements(page) \subseteq Elements(all)
  <2> SUFFICES ASSUME NEW i \in 1 .. n PROVE page[i] \in Elements(all)
    BY <1>3 DEF Elements
  <2>1. Len(got) + i \in DOMAIN all /\ all[Len(got) + i] = page[i] BY <1>1, <1>3, <1>5
  <2> QED BY <2>1 DEF Elements
<1>15. ASSUME NEW row \in reader.due \cap trail, A!InHistory(kind, row)
       PROVE  row \in Elements(all) \/ (after # {} /\ \A c \in after : A!Newer(kind, c, row))
  <2>1. CASE row \in Elements(got) BY <1>13, <2>1
  <2>2. CASE row \in Elements(page) BY <1>14, <2>2
  <2>3. CASE row \notin Elements(got) /\ row \notin Elements(page)
    <3>1. row \in A!Matching BY <1>15, <2>3 DEF ReaderOK, A!Matching
    <3>2. A!Matching # Elements(page) BY <2>3, <3>1
    <3>3. n \in 1 .. n BY <1>7, <3>2
    <3>4. A!Newer(kind, page[n], row)
      BY <1>3, <2>3, <3>1, <3>3 DEF A!IsSlice, A!ToSet, Elements
    <3> QED BY <1>6, <3>2, <3>4 DEF after
  <2> QED BY <2>1, <2>2, <2>3
<1>16. \A row \in reader.due : row.id < nextRow /\ (kind = "all" => row.made < day)
  BY DEF ReaderOK
<1> HIDE DEF kind, got
<1>17. \A k \in {"own", "all"}, row \in reader.due : A!InHistory(k, row)' <=> A!InHistory(k, row)
  BY DEF A!InHistory
<1>18. \A row \in reader.due \cap trail : A!InHistory(reader.kind, row)' => A!InHistory(kind, row)
  BY <1>1, <1>10, <1>17
<1>19. ReaderOK'
  <2>1. \A i, j \in DOMAIN reader'.got : i < j => A!Newer(reader'.kind, reader'.got[i], reader'.got[j])
    BY <1>10, <1>11
  <2>2. reader'.more => \/ reader'.got = <<>> /\ reader'.after = {}
                        \/ reader'.got # <<>> /\ reader'.after = {reader'.got[Len(reader'.got)]}
    BY <1>10, <1>12
  <2>3. \A row \in reader'.due : row.id < nextRow' /\ (reader'.kind = "all" => row.made < day')
    BY <1>10, <1>16
  <2>4. \A row \in reader'.due \cap trail' : A!InHistory(reader.kind, row)' =>
          \/ row \in Elements(reader'.got)
          \/ reader'.more /\ \A c \in reader'.after : A!Newer(reader'.kind, c, row)
    BY <1>10, <1>15, <1>18
  <2> QED BY <2>1, <2>2, <2>3, <2>4 DEF ReaderOK, A!Newer
<1> QED BY <1>10, <1>19

(* A reader pages, rows are pruned, time passes.                           *)
LEMMA AuditReads ==
  ASSUME AuditInv, A!History \/ A!AuditMaintenance \/ A!DayPasses
  PROVE  AuditInv'
<1>0. /\ AuditType /\ WriterOK /\ TrailOK /\ ReaderOK
      /\ nextRow \in Nat /\ day \in Nat /\ trail \subseteq AuditRow
  BY DEF AuditInv, AuditType
<1>1. UNCHANGED <<filing, auditQueue, auditBatch, writer, nextRow, timeouts>>
  BY DEF A!History, A!AuditMaintenance, A!DayPasses, A!ListAfter, A!NextPage, A!LeaveHistory, A!PruneBefore
<1>2. WriterOK' BY <1>0, <1>1 DEF WriterOK, Elements
<1>3. ASSUME UNCHANGED <<trail, day>>, reader' \in AuditReader \cup {A!NoReader}, ReaderOK'
      PROVE  AuditInv'
  <2>1. AuditType' BY <1>0, <1>1, <1>3 DEF AuditType, A!NoReader
  <2>2. TrailOK' BY <1>0, <1>1, <1>3 DEF TrailOK
  <2> QED BY <1>2, <1>3, <2>1, <2>2 DEF AuditInv
<1>4. ASSUME NEW kind \in {"own", "all"}, A!ListAfter(kind) PROVE AuditInv'
  <2> DEFINE due == {row \in trail : A!InHistory(kind, row)}
  <2>1. due \subseteq trail /\ \A row \in due : row.id < nextRow /\ (kind = "all" => row.made < day)
    BY <1>0 DEF TrailOK, A!InHistory
  <2> HIDE DEF due
  <2>2. /\ reader' = [kind |-> kind, after |-> {}, got |-> <<>>, more |-> TRUE, due |-> due]
        /\ UNCHANGED <<trail, day>>
    BY <1>4 DEF A!ListAfter, due
  <2>3. /\ reader' \in AuditReader /\ reader'.kind = kind /\ reader'.after = {} /\ reader'.got = <<>>
        /\ reader'.more = TRUE /\ reader'.due = due
    <3>1. <<>> \in Seq(AuditRow) /\ due \subseteq AuditRow BY <1>0, <2>1
    <3> QED BY <2>2, <3>1 DEF AuditReader
  <2>4. ReaderOK' BY <1>1, <2>1, <2>2, <2>3 DEF ReaderOK
  <2> QED BY <1>3, <2>2, <2>3, <2>4
<1>5. CASE A!NextPage
  <2>1. reader # A!NoReader /\ reader.more /\ UNCHANGED <<trail, day, nextRow>>
    BY <1>5 DEF A!NextPage
  <2>2. PICK n \in 0 .. PageLimit : \E page \in [1 .. n -> A!Matching] :
          /\ A!IsSlice(page)
          /\ reader' = [reader EXCEPT !.got = @ \o page, !.after = A!FollowsOn(page),
                                      !.more = A!FollowsOn(page) # {}]
    BY <1>5 DEF A!NextPage
  <2>3. reader' \in AuditReader /\ ReaderOK' BY <1>0, <2>1, <2>2, PageFollows
  <2> QED BY <1>3, <2>1, <2>3
<1>6. CASE A!LeaveHistory
  <2>1. reader' = A!NoReader /\ UNCHANGED <<trail, day>> BY <1>6 DEF A!LeaveHistory
  <2>2. ReaderOK' BY <2>1 DEF ReaderOK, A!NoReader
  <2> QED BY <1>3, <2>1, <2>2
<1>7. ASSUME NEW before \in 1 .. MaxDay, A!PruneBefore(before) PROVE AuditInv'
  <2>1. trail' \subseteq trail /\ UNCHANGED <<day, reader>> BY <1>7 DEF A!PruneBefore
  <2>2. AuditType' BY <1>0, <1>1, <2>1 DEF AuditType, A!NoReader
  <2>3. TrailOK' BY <1>0, <1>1, <2>1 DEF TrailOK
  <2>4. ReaderOK' BY <1>0, <1>1, <2>1, ReaderKeepsPlace
  <2> QED BY <1>2, <2>2, <2>3, <2>4 DEF AuditInv
<1>8. CASE A!DayPasses
  <2>1. UNCHANGED <<trail, reader>> /\ day' = day + 1 BY <1>8 DEF A!DayPasses
  <2>d. day' \in Nat BY <1>0, <2>1
  <2>2. AuditType' BY <1>0, <1>1, <2>1, <2>d DEF AuditType, A!NoReader
  <2>3. TrailOK' BY <1>0, <1>1, <2>1 DEF TrailOK
  <2>4. ReaderOK' BY <1>0, <1>1, <2>1, ReaderKeepsPlace
  <2> QED BY <1>2, <2>2, <2>3, <2>4 DEF AuditInv
<1> QED BY <1>4, <1>5, <1>6, <1>7, <1>8 DEF A!History, A!AuditMaintenance

(* One step of any component keeps the audit log sound.                    *)
LEMMA AuditStep == AuditInv /\ [Next]_vars => AuditInv'
<1> SUFFICES ASSUME AuditInv, [Next]_vars PROVE AuditInv'
  OBVIOUS
<1>1. CASE UNCHANGED auditVars
  BY <1>1 DEF auditVars, AuditInv, AuditType, WriterOK, TrailOK, ReaderOK, A!NoReader, A!InHistory,
              A!Newer, Elements
<1>2. CASE A!AuditNext
  BY <1>2, AuditRecords, AuditRuns, AuditFlushes, AuditReads
     DEF A!AuditNext, A!AuditMiddleware, A!AuditRun
<1> QED BY <1>1, <1>2 DEF Next, vars, MailScene, IntakeScene, JobsScene, StepsScene, AuditScene, ServerScene

(* The audit log: when run has ended no record it accepted is left, and a  *)
(* record is lost only when the database refused it or a flush ran out of  *)
(* time; paging newest first returns each row that was there when it began *)
(* and still is, once and in order, while rows are added and pruned.       *)
THEOREM AuditIsSound == Spec => []AuditSound
<1>1. AuditInv => AuditSound
  <2> SUFFICES ASSUME AuditInv PROVE A!AuditKept /\ A!PagesComplete
    BY DEF AuditSound
  <2>1. A!AuditKept BY DEF AuditInv, WriterOK, A!AuditKept, Elements
  <2>2. A!PagesComplete BY DEF AuditInv, ReaderOK, A!PagesComplete, A!ToSet, Elements
  <2> QED BY <2>1, <2>2
<1> QED BY <1>1, AuditStart, AuditStep, PTL DEF Spec

(***************************************************************************)
(* Retried steps.                                                          *)
(***************************************************************************)

RetryPolicies == [max : Nat, initial : Nat, limit : Nat]
StepStage == {"idle", "top", "task", "delay", "end"}
StepResult == {"none", "ok", "failed", "fatal", "exhausted", "canceled"}

StepType ==
  step \in [at : StepStage, policy : RetryPolicies \cup {Bare}, calls : Nat, delay : Nat,
            waits : Seq(Nat), live : BOOLEAN, callsAtEnd : Nat, last : StepResult, result : StepResult]

(* Where the loop is, the tries and the delays there were so far: a delay  *)
(* follows every failed try but the last one.                              *)
DelaysFollowTries ==
  LET p == step.policy  n == step.calls  k == Len(step.waits) IN
  /\ step.at = "idle" => p = Bare /\ n = 0 /\ step.callsAtEnd = 0 /\ k = 0
  /\ p = Bare => step.at \notin {"top", "delay"} /\ step.result # "exhausted"
  /\ p # Bare => p.max > 0 /\ n <= p.max /\ (~step.live => n = step.callsAtEnd)
  /\ p # Bare /\ step.at = "top" =>
       \/ n = 0 /\ k = 0
       \/ step.last = "failed" /\ k = IF n < p.max THEN n ELSE p.max - 1
  /\ p # Bare /\ step.at = "task" => n > 0 /\ k = n - 1
  /\ p # Bare /\ step.at = "delay" => step.last = "failed" /\ n < p.max /\ k = n
  /\ step.result # "none" => step.at = "end"

StepInv == StepType /\ DelaysFollowTries /\ R!RetriedStepSound

(* A sequence and one more.                                                *)
LEMMA OneMore ==
  ASSUME NEW type, NEW q \in Seq(type), NEW x \in type
  PROVE  /\ Append(q, x) \in Seq(type) /\ Len(Append(q, x)) = Len(q) + 1
         /\ DOMAIN Append(q, x) = 1 .. (Len(q) + 1) /\ DOMAIN q = 1 .. Len(q) /\ Len(q) \in Nat
         /\ \A i \in DOMAIN q : Append(q, x)[i] = q[i]
         /\ Append(q, x)[Len(q) + 1] = x
         /\ \A i \in DOMAIN Append(q, x) : i = Len(q) + 1 \/ i \in DOMAIN q
OBVIOUS

(* The fields of a step.                                                   *)
LEMMA StepFields ==
  ASSUME StepType
  PROVE  /\ step.at \in StepStage /\ step.policy \in RetryPolicies \cup {Bare}
         /\ step.calls \in Nat /\ step.delay \in Nat /\ step.callsAtEnd \in Nat
         /\ step.waits \in Seq(Nat) /\ step.live \in BOOLEAN
         /\ step.last \in StepResult /\ step.result \in StepResult
         /\ Bare \notin RetryPolicies
BY DeliveriesAssumption DEF StepType, R!RetriedStepAssumption, RetryPolicies

(* Nothing was tried at first.                                             *)
LEMMA StepStart == Init => StepInv
<1> SUFFICES ASSUME R!RetriedStepInit PROVE StepInv
  BY DEF Init
<1>1. <<>> \in Seq(Nat) /\ Len(<<>>) = 0 OBVIOUS
<1> QED BY <1>1 DEF R!RetriedStepInit, StepInv, StepType, DelaysFollowTries, R!RetriedStepSound,
             StepStage, StepResult

(* A policy that is given is one with a try, and is not the bare one.      *)
LEMMA NormalizedPolicy ==
  ASSUME NEW p \in Policy
  PROVE  /\ R!Normalize(p) \in RetryPolicies \ {Bare} /\ R!Normalize(p).max > 0
         /\ p.initial \in Nat /\ p # Bare
<1>1. p \in RetryPolicies /\ Bare \notin RetryPolicies
  BY DeliveriesAssumption DEF R!RetriedStepAssumption, RetryPolicies
<1>2. p.max \in Nat /\ p.initial \in Nat /\ p.limit \in Nat BY <1>1 DEF RetryPolicies
<1>3. R!Normalize(p) = [p EXCEPT !.max = IF p.max < 1 THEN 3 ELSE p.max,
                                 !.limit = IF p.limit = 0 THEN 1000 ELSE p.limit]
  BY DEF R!Normalize
<1> DEFINE m == IF p.max < 1 THEN 3 ELSE p.max
<1> DEFINE l == IF p.limit = 0 THEN 1000 ELSE p.limit
<1>4. m \in Nat /\ l \in Nat /\ m > 0 BY <1>2
<1>5. R!Normalize(p) = [p EXCEPT !.max = m, !.limit = l] BY <1>3
<1> HIDE DEF m, l
<1>6. R!Normalize(p) \in RetryPolicies /\ R!Normalize(p).max = m BY <1>1, <1>4, <1>5 DEF RetryPolicies
<1> QED BY <1>1, <1>2, <1>4, <1>6

(* Run.                                                                    *)
LEMMA RunStep == ASSUME StepInv, NEW p \in Policy \cup {Bare}, R!Run(p) PROVE StepInv'
<1>0. StepType /\ DelaysFollowTries /\ R!RetriedStepSound BY DEF StepInv
<1>1. CASE p = Bare
  <2>1. step' = [step EXCEPT !.at = "task", !.calls = 1] /\ step.policy = Bare /\ step.result = "none"
    BY <1>0, <1>1, StepFields DEF R!Run, DelaysFollowTries
  <2> QED BY <1>0, <2>1, StepFields DEF StepInv, StepType, DelaysFollowTries, R!RetriedStepSound, StepStage
<1>2. CASE p # Bare
  <2> DEFINE n == R!Normalize(p)
  <2>1. step' = [step EXCEPT !.at = "top", !.policy = n, !.delay = p.initial]
    BY <1>2 DEF R!Run
  <2>2. n \in RetryPolicies \ {Bare} /\ n.max > 0 /\ p.initial \in Nat /\ n.max \in Nat /\ n.limit \in Nat
    BY <1>2, NormalizedPolicy DEF RetryPolicies
  <2> HIDE DEF n
  <2>3. step.calls = 0 /\ step.callsAtEnd = 0 /\ Len(step.waits) = 0 /\ step.result = "none"
    BY <1>0, StepFields DEF R!Run, DelaysFollowTries
  <2>4. StepType' BY <1>0, <2>1, <2>2, StepFields DEF StepType, StepStage
  <2>5. DelaysFollowTries' BY <1>0, <2>1, <2>2, <2>3, StepFields DEF StepType, DelaysFollowTries
  <2>6. R!RetriedStepSound' BY <1>0, <2>1, <2>2, <2>3, StepFields DEF StepType, R!RetriedStepSound
  <2> QED BY <2>4, <2>5, <2>6 DEF StepInv
<1> QED BY <1>1, <1>2

(* The fields of a policy that is given.                                   *)
LEMMA PolicyFields ==
  ASSUME StepType, step.policy # Bare
  PROVE  step.policy.max \in Nat /\ step.policy.limit \in Nat
BY StepFields DEF RetryPolicies

(* RunTop.                                                                 *)
LEMMA RunTopStep == ASSUME StepInv, R!RunTop PROVE StepInv'
<1>0. StepType /\ DelaysFollowTries /\ R!RetriedStepSound BY DEF StepInv
<1>1. step.policy # Bare /\ step.at = "top" /\ step.result = "none"
  BY <1>0, StepFields DEF R!RunTop, DelaysFollowTries
<1>2. CASE step.calls = step.policy.max
  <2>1. step' = [step EXCEPT !.at = "end", !.result = "exhausted"] BY <1>2 DEF R!RunTop
  <2>2. StepType' BY <1>0, <2>1, StepFields DEF StepType, StepStage, StepResult
  <2>3. DelaysFollowTries' BY <1>0, <1>1, <2>1, StepFields, PolicyFields DEF StepType, DelaysFollowTries
  <2>4. R!RetriedStepSound'
    BY <1>0, <1>1, <1>2, <2>1, StepFields, PolicyFields DEF StepType, DelaysFollowTries, R!RetriedStepSound
  <2> QED BY <2>2, <2>3, <2>4 DEF StepInv
<1>3. CASE step.calls # step.policy.max /\ ~step.live
  <2>1. step' = [step EXCEPT !.at = "end", !.result = "canceled"] BY <1>3 DEF R!RunTop
  <2>2. StepType' BY <1>0, <2>1, StepFields DEF StepType, StepStage, StepResult
  <2>3. DelaysFollowTries' BY <1>0, <1>1, <2>1, StepFields, PolicyFields DEF StepType, DelaysFollowTries
  <2>4. R!RetriedStepSound' BY <1>0, <1>1, <2>1, StepFields, PolicyFields DEF StepType, R!RetriedStepSound
  <2> QED BY <2>2, <2>3, <2>4 DEF StepInv
<1>4. CASE step.calls # step.policy.max /\ step.live
  <2> DEFINE n == step.calls + 1
  <2>1. n \in Nat BY <1>0, StepFields
  <2>2. step' = [step EXCEPT !.at = "task", !.calls = n] BY <1>4 DEF R!RunTop
  <2>3. StepType'
    <3> HIDE DEF n
    <3> QED BY <1>0, <2>1, <2>2, StepFields DEF StepType, StepStage
  <2>4. DelaysFollowTries'
    BY <1>0, <1>1, <1>4, <2>2, StepFields, PolicyFields DEF StepType, DelaysFollowTries
  <2>5. R!RetriedStepSound'
    BY <1>0, <1>1, <1>4, <2>2, StepFields, PolicyFields DEF StepType, DelaysFollowTries, R!RetriedStepSound
  <2> QED BY <2>3, <2>4, <2>5 DEF StepInv
<1> QED BY <1>0, <1>2, <1>3, <1>4, StepFields

(* What a delay can be.                                                    *)
LEMMA DelayWithinLimit ==
  ASSUME StepType, step.policy # Bare, NEW wait \in R!RetryDelays
  PROVE  wait \in Nat /\ wait <= step.policy.limit + step.policy.limit \div 10
<1> DEFINE limit == step.policy.limit
<1> DEFINE delay == IF step.delay > limit THEN limit ELSE step.delay
<1>1. limit \in Nat /\ delay \in Nat /\ delay <= limit BY StepFields, PolicyFields
<1>2. wait \in {delay - delay \div 10, delay, delay + delay \div 10} BY DEF R!RetryDelays
<1> HIDE DEF limit, delay
<1>3. delay \div 10 \in Nat /\ limit \div 10 \in Nat /\ delay \div 10 <= delay
      /\ delay \div 10 <= limit \div 10
  BY <1>1
<1>4. wait \in Nat /\ wait <= limit + limit \div 10 BY <1>1, <1>2, <1>3
<1> QED BY <1>4 DEF limit

(* TaskReturns.                                                            *)
LEMMA TaskReturnsStep ==
  ASSUME StepInv, NEW outcome \in {"ok", "failed", "fatal"}, R!TaskReturns(outcome)
  PROVE  StepInv'
<1>0. StepType /\ DelaysFollowTries /\ R!RetriedStepSound BY DEF StepInv
<1>1. step.at = "task" /\ step.result = "none" BY <1>0, StepFields DEF R!TaskReturns, DelaysFollowTries
<1>2. CASE outcome # "failed" \/ step.policy = Bare
  <2>1. step' = [step EXCEPT !.at = "end", !.last = outcome, !.result = outcome]
    BY <1>2 DEF R!TaskReturns
  <2> QED BY <1>0, <1>1, <1>2, <2>1, StepFields, PolicyFields
          DEF StepInv, StepType, DelaysFollowTries, R!RetriedStepSound, StepStage, StepResult
<1>3. CASE outcome = "failed" /\ step.policy # Bare /\ step.calls < step.policy.max
  <2>1. PICK wait \in R!RetryDelays :
          step' = [step EXCEPT !.at = "delay", !.last = outcome, !.delay = 2 * step.delay,
                               !.waits = Append(step.waits, wait)]
    BY <1>3 DEF R!TaskReturns
  <2>2. wait \in Nat /\ wait <= step.policy.limit + step.policy.limit \div 10
    BY <1>0, <1>3, DelayWithinLimit
  <2> DEFINE w == Append(step.waits, wait)
  <2> DEFINE d == 2 * step.delay
  <2>3. d \in Nat BY <1>0, StepFields
  <2> HIDE DEF w
  <2>4. step.waits \in Seq(Nat) BY <1>0, StepFields
  <2>5. /\ w \in Seq(Nat) /\ Len(w) = Len(step.waits) + 1
        /\ \A i \in DOMAIN w : w[i] = wait \/ (i \in DOMAIN step.waits /\ w[i] = step.waits[i])
    <3>1. /\ w \in Seq(Nat) /\ Len(w) = Len(step.waits) + 1
          /\ \A i \in DOMAIN step.waits : w[i] = step.waits[i]
      BY <2>2, <2>4, OneMore DEF w
    <3>2. w[Len(step.waits) + 1] = wait BY <2>2, <2>4, OneMore DEF w
    <3>3. \A i \in DOMAIN w : i = Len(step.waits) + 1 \/ i \in DOMAIN step.waits
      BY <2>2, <2>4, OneMore DEF w
    <3> QED BY <3>1, <3>2, <3>3
  <2>6. step' = [step EXCEPT !.at = "delay", !.last = outcome, !.delay = d, !.waits = w]
    BY <2>1 DEF w
  <2> HIDE DEF d
  <2>7. StepType' BY <1>0, <2>3, <2>5, <2>6, StepFields DEF StepType, StepStage, StepResult
  <2>8. /\ step'.at = "delay" /\ step'.last = "failed" /\ step'.waits = w /\ step'.policy = step.policy
        /\ step'.calls = step.calls /\ step'.live = step.live /\ step'.callsAtEnd = step.callsAtEnd
        /\ step'.result = step.result
    BY <1>0, <1>3, <2>6 DEF StepType
  <2>9. DelaysFollowTries'
    BY <1>0, <1>1, <1>3, <2>5, <2>8, StepFields, PolicyFields DEF DelaysFollowTries
  <2>10. R!RetriedStepSound'
    BY <1>0, <1>1, <1>3, <2>2, <2>5, <2>8, StepFields, PolicyFields DEF R!RetriedStepSound
  <2> QED BY <2>7, <2>9, <2>10 DEF StepInv
<1>4. CASE outcome = "failed" /\ step.policy # Bare /\ ~(step.calls < step.policy.max)
  <2>1. step' = [step EXCEPT !.at = "top", !.last = outcome] BY <1>4 DEF R!TaskReturns
  <2>2. StepType' BY <1>0, <2>1, StepFields DEF StepType, StepStage, StepResult
  <2>3. DelaysFollowTries' BY <1>0, <1>1, <1>4, <2>1, StepFields, PolicyFields DEF StepType, DelaysFollowTries
  <2>4. R!RetriedStepSound'
    BY <1>0, <1>1, <2>1, StepFields, PolicyFields DEF StepType, R!RetriedStepSound
  <2> QED BY <2>2, <2>3, <2>4 DEF StepInv
<1> QED BY <1>2, <1>3, <1>4

(* DelayEnds, and the end of the context.                                  *)
LEMMA DelayEndsStep == ASSUME StepInv, R!DelayEnds \/ R!StepContextEnds PROVE StepInv'
<1>0. StepType /\ DelaysFollowTries /\ R!RetriedStepSound BY DEF StepInv
<1>1. CASE R!DelayEnds
  <2>1. /\ step.policy # Bare /\ step.at = "delay" /\ step.result = "none"
        /\ \/ step' = [step EXCEPT !.at = "top"]
           \/ ~step.live /\ step' = [step EXCEPT !.at = "end", !.result = "canceled"]
    BY <1>0, <1>1, StepFields DEF R!DelayEnds, DelaysFollowTries
  <2>2. StepType' BY <1>0, <2>1, StepFields DEF StepType, StepStage, StepResult
  <2>3. DelaysFollowTries' BY <1>0, <2>1, StepFields, PolicyFields DEF StepType, DelaysFollowTries
  <2>4. R!RetriedStepSound' BY <1>0, <2>1, StepFields, PolicyFields DEF StepType, R!RetriedStepSound
  <2> QED BY <2>2, <2>3, <2>4 DEF StepInv
<1>2. CASE R!StepContextEnds
  BY <1>0, <1>2, StepFields, PolicyFields
  DEF R!StepContextEnds, StepInv, StepType, DelaysFollowTries, R!RetriedStepSound
<1> QED BY <1>1, <1>2

(* One step of any component keeps the retried step sound.                 *)
LEMMA StepStep == StepInv /\ [Next]_vars => StepInv'
<1> SUFFICES ASSUME StepInv, [Next]_vars PROVE StepInv'
  OBVIOUS
<1>1. CASE UNCHANGED stepsVars
  BY <1>1 DEF stepsVars, StepInv, StepType, DelaysFollowTries, R!RetriedStepSound
<1>2. CASE R!RetriedStepNext
  BY <1>2, RunStep, RunTopStep, TaskReturnsStep, DelayEndsStep DEF R!RetriedStepNext
<1> QED BY <1>1, <1>2
        DEF Next, vars, MailScene, IntakeScene, JobsScene, StepsScene, AuditScene, ServerScene

(***************************************************************************)
(* Jobs between the drivers of a queue and a worker.                       *)
(***************************************************************************)

Hands == Caller \cup {Poller}
JobPayloads == [job : Job, attempts : Nat]
JobHand == [at : {"waiting", "handling", "working"}, driver : J!Objects, queue : Queue,
            payload : JobPayloads]
Ended == {"new", "under way", "done", "lost", "caller told", "dropped", "reported", "cleared"}

Histories == [Job -> [handled : Nat, ended : Ended]]

JobPlaces ==
  /\ store \in [J!Objects -> [Queue -> Seq(JobPayloads)]]
  /\ goroutine \in [Hands -> JobHand \cup {J!Idle}]
  /\ sleeping \subseteq [queue : Queue, payload : JobPayloads]

JobsType ==
  /\ drivers \in [sync : J!Objects, memory : {0, J!Memory}]
  /\ made \in 2 .. (MaxBootstraps + 2)
  /\ JobPlaces
  /\ chosen \in [driver : {"sync", "memory"}, queue : Queue]
  /\ registered \subseteq Job
  /\ workerDriver \in [driver : J!Objects, queue : Queue] \cup {[driver |-> 0, queue |-> NoQueue]}
  /\ history \in Histories

(* A queue without job j, and one with the payload p and no other of its   *)
(* job.                                                                    *)
Never(q, j) == \A i \in DOMAIN q : q[i].job # j
Once(q, p) == \E i \in DOMAIN q : q[i] = p /\ \A k \in DOMAIN q : q[k].job = p.job => k = i

NotStored(j) == \A o \in J!Objects, q \in Queue : Never(store[o][q], j)
NotAsleep(j) == \A d \in sleeping : d.payload.job # j
NotHeld(j) == \A g \in Hands : goroutine[g].payload.job # j

(* The attempts a payload carries are the times its job was handled, one   *)
(* more while the worker, which counts first, works on it.                 *)
Counted(p) == p.attempts = history[p.job].handled /\ p.attempts <= Retries[p.job]

HandCounted(g) ==
  LET p == goroutine[g].payload  j == p.job IN
  /\ goroutine[g].at = "working" =>
       /\ g = Poller /\ p.attempts = history[j].handled + 1
       /\ history[j].handled <= Retries[j] /\ j \in registered
  /\ goroutine[g].at # "working" => Counted(p) /\ (g = Poller => p.attempts < Retries[j])
  /\ goroutine[g].at = "handling" => j \in registered

StoredOnce(j) == \E o \in J!Objects, q \in Queue, p \in JobPayloads :
  /\ p.job = j /\ Counted(p) /\ Once(store[o][q], p)
  /\ \A o2 \in J!Objects, q2 \in Queue : <<o2, q2>> # <<o, q>> => Never(store[o2][q2], j)
AsleepOnce(j) == \E d \in sleeping :
  /\ d.payload.job = j /\ Counted(d.payload)
  /\ \A e \in sleeping : e.payload.job = j => e = d
HeldOnce(j) == \E g \in Hands :
  /\ goroutine[g].payload.job = j /\ HandCounted(g)
  /\ \A f \in Hands : goroutine[f].payload.job = j => f = g

(* Where a job is, and what its payload says there.                        *)
JobPlace(j) ==
  \/ history[j].ended # "under way" /\ NotStored(j) /\ NotAsleep(j) /\ NotHeld(j)
  \/ history[j].ended = "under way" /\ StoredOnce(j) /\ NotAsleep(j) /\ NotHeld(j)
  \/ history[j].ended = "under way" /\ NotStored(j) /\ AsleepOnce(j) /\ NotHeld(j)
  \/ history[j].ended = "under way" /\ NotStored(j) /\ NotAsleep(j) /\ HeldOnce(j)

(* A job that was handled is of a registered type, and one that is new was *)
(* not handled.                                                            *)
JobCount(j) ==
  /\ history[j].handled > 0 => j \in registered
  /\ history[j].ended = "new" => history[j].handled = 0
  /\ history[j].handled <= Retries[j] + 1
  /\ history[j].ended = "reported" /\ history[j].handled > 0 => history[j].handled >= Retries[j]
  /\ history[j].ended # "lost"

JobsInv == JobsType /\ \A j \in Job : JobPlace(j) /\ JobCount(j)

(* What is assumed of the constants.                                       *)
LEMMA JobConstants ==
  /\ \A j \in Job : Retries[j] \in Nat /\ OwnQueue[j] \in Queue \cup {NoQueue}
  /\ NoQueue \notin Queue /\ NoQueue \notin Job /\ Poller \notin Caller
  /\ MaxBootstraps \in Nat /\ IsFiniteSet(Job)
<1>1. J!IsFiniteSet(Job) => IsFiniteSet(Job) BY DEF J!IsFiniteSet, IsFiniteSet
<1> QED BY <1>1, DeliveriesAssumption DEF J!JobDispatchAssumption

(* What is there when nothing is: an idle goroutine has no job.            *)
LEMMA JobFields ==
  ASSUME JobsType
  PROVE  /\ \A o \in J!Objects, q \in Queue : store[o][q] \in Seq(JobPayloads)
         /\ \A g \in Hands : \/ goroutine[g] = J!Idle
                             \/ goroutine[g] # J!Idle /\ goroutine[g] \in JobHand
         /\ \A h \in JobHand : h.payload \in JobPayloads /\ h.payload.job \in Job /\ h.payload.attempts \in Nat
                             /\ h.at # "idle"
         /\ J!Idle.payload.job = NoQueue /\ J!Idle.at = "idle"
         /\ \A j \in Job : history[j].handled \in Nat /\ history[j].ended \in Ended
         /\ J!DefaultDriver \in J!Objects
<1>1. J!Memory \in J!Objects BY JobConstants DEF J!Memory, J!Objects
<1>2. J!DefaultDriver \in J!Objects
  <2>1. drivers[chosen.driver] \in {drivers.sync, drivers.memory} BY DEF JobsType
  <2>2. drivers.sync \in J!Objects /\ (drivers.memory # 0 => drivers.memory \in J!Objects)
    BY <1>1 DEF JobsType
  <2> QED BY <2>1, <2>2 DEF J!DefaultDriver
<1>3. \A o \in J!Objects, q \in Queue : store[o][q] \in Seq(JobPayloads) BY DEF JobsType, JobPlaces
<1>4. J!Idle.payload.job = NoQueue /\ J!Idle.at = "idle" BY DEF J!Idle, J!NoPayload
<1>5. ASSUME NEW h \in JobHand
      PROVE  h.payload \in JobPayloads /\ h.payload.job \in Job /\ h.payload.attempts \in Nat
             /\ h.at # "idle"
  BY DEF JobHand, JobPayloads
<1>6. \A g \in Hands : \/ goroutine[g] = J!Idle
                       \/ goroutine[g] # J!Idle /\ goroutine[g] \in JobHand
  BY <1>4, <1>5 DEF JobsType, JobPlaces
<1>7. \A j \in Job : history[j].handled \in Nat /\ history[j].ended \in Ended
  BY DEF JobsType, Histories
<1> QED BY <1>2, <1>3, <1>4, <1>5, <1>6, <1>7

(* Queues with one more at the end, and with the first taken.              *)
LEMMA AppendedQueue ==
  ASSUME NEW s \in Seq(JobPayloads), NEW x \in JobPayloads
  PROVE  /\ Append(s, x) \in Seq(JobPayloads)
         /\ \A j : j # x.job /\ Never(s, j) => Never(Append(s, x), j)
         /\ \A p \in JobPayloads : p.job # x.job /\ Once(s, p) => Once(Append(s, x), p)
         /\ Never(s, x.job) => Once(Append(s, x), x)
<1> DEFINE t == Append(s, x)
<1>1. /\ t \in Seq(JobPayloads) /\ DOMAIN t = 1 .. (Len(s) + 1) /\ DOMAIN s = 1 .. Len(s) /\ Len(s) \in Nat
      /\ \A i \in 1 .. Len(s) : t[i] = s[i]
      /\ t[Len(s) + 1] = x
  OBVIOUS
<1> HIDE DEF t
<1>2. \A i \in DOMAIN t : (i \in DOMAIN s /\ t[i] = s[i]) \/ (i = Len(s) + 1 /\ t[i] = x) BY <1>1
<1>3. \A i \in DOMAIN s : i \in DOMAIN t /\ t[i] = s[i] /\ i # Len(s) + 1 BY <1>1
<1>4. Len(s) + 1 \in DOMAIN t BY <1>1
<1>5. \A j : j # x.job /\ Never(s, j) => Never(t, j) BY <1>2 DEF Never
<1>6. ASSUME NEW p \in JobPayloads, p.job # x.job, Once(s, p) PROVE Once(t, p)
  BY <1>2, <1>3, <1>6 DEF Once
<1>7. ASSUME Never(s, x.job) PROVE Once(t, x)
  BY <1>1, <1>2, <1>4, <1>7 DEF Once, Never
<1> QED BY <1>1, <1>5, <1>6, <1>7 DEF t

(* A queue whose first payload is taken.                                   *)
LEMMA ShortenedQueue ==
  ASSUME NEW s \in Seq(JobPayloads), s # <<>>
  PROVE  /\ Tail(s) \in Seq(JobPayloads) /\ Head(s) \in JobPayloads
         /\ 1 \in DOMAIN s /\ s[1] = Head(s)
         /\ \A j : Never(s, j) => Never(Tail(s), j)
         /\ \A p \in JobPayloads : p.job # Head(s).job /\ Once(s, p) => Once(Tail(s), p)
         /\ Once(s, Head(s)) => Never(Tail(s), Head(s).job)
<1> DEFINE t == Tail(s)
<1> DEFINE h == Head(s)
<1>1. /\ t \in Seq(JobPayloads) /\ h \in JobPayloads /\ Len(s) \in Nat \ {0}
      /\ DOMAIN s = 1 .. Len(s) /\ DOMAIN t = 1 .. (Len(s) - 1) /\ h = s[1]
      /\ \A i \in 1 .. (Len(s) - 1) : t[i] = s[i + 1]
  OBVIOUS
<1> HIDE DEF t, h
<1>2. 1 \in DOMAIN s BY <1>1
<1>3. \A i \in DOMAIN t : i + 1 \in DOMAIN s /\ i + 1 # 1 /\ t[i] = s[i + 1] BY <1>1
<1>4. \A i \in DOMAIN s : i # 1 => i - 1 \in DOMAIN t /\ t[i - 1] = s[i] BY <1>1
<1>5. \A j : Never(s, j) => Never(t, j) BY <1>3 DEF Never
<1>6. ASSUME NEW p \in JobPayloads, p.job # h.job, Once(s, p) PROVE Once(t, p)
  <2>1. PICK i \in DOMAIN s : s[i] = p /\ \A k \in DOMAIN s : s[k].job = p.job => k = i
    BY <1>6 DEF Once
  <2>2. i - 1 \in DOMAIN t /\ t[i - 1] = p BY <1>1, <1>4, <1>6, <2>1
  <2>3. ASSUME NEW k \in DOMAIN t, t[k].job = p.job PROVE k = i - 1
    <3>1. k + 1 = i BY <1>3, <2>1, <2>3
    <3> QED BY <1>1, <3>1
  <2> QED BY <2>2, <2>3 DEF Once
<1>7. ASSUME Once(s, h) PROVE Never(t, h.job)
  <2>1. PICK i \in DOMAIN s : s[i] = h /\ \A k \in DOMAIN s : s[k].job = h.job => k = i
    BY <1>7 DEF Once
  <2>2. i = 1 BY <1>1, <1>2, <2>1
  <2> QED BY <1>3, <2>1, <2>2 DEF Never
<1> QED BY <1>1, <1>2, <1>5, <1>6, <1>7 DEF t, h

(* A step leaves job i alone: in the queues, asleep, in a hand.            *)
KeepsQueues(i) == \A o \in J!Objects, q \in Queue :
  /\ Never(store[o][q], i) => Never(store'[o][q], i)
  /\ \A p \in JobPayloads : p.job = i /\ Once(store[o][q], p) => Once(store'[o][q], p)
KeepsSleep(i) ==
  \A d : d \in sleeping \cup sleeping' /\ d.payload.job = i => d \in sleeping /\ d \in sleeping'
KeepsHands(i) == \A f \in Hands :
  goroutine[f].payload.job = i \/ goroutine'[f].payload.job = i => goroutine'[f] = goroutine[f]

(* What a step leaves alone stays where it is.                             *)
LEMMA OthersStay ==
  ASSUME JobsType, NEW j \in Job, JobPlace(j),
         history'[j] = history[j], registered \subseteq registered',
         KeepsQueues(j), KeepsSleep(j), KeepsHands(j)
  PROVE  JobPlace(j)'
<1>0. /\ \A o \in J!Objects, q \in Queue :
           /\ Never(store[o][q], j) => Never(store'[o][q], j)
           /\ \A p \in JobPayloads : p.job = j /\ Once(store[o][q], p) => Once(store'[o][q], p)
      /\ \A d : d \in sleeping \cup sleeping' /\ d.payload.job = j => d \in sleeping /\ d \in sleeping'
      /\ \A g \in Hands : goroutine[g].payload.job = j \/ goroutine'[g].payload.job = j =>
           goroutine'[g] = goroutine[g]
  BY DEF KeepsQueues, KeepsSleep, KeepsHands
<1>1. NotStored(j) => NotStored(j)' BY <1>0 DEF NotStored
<1>2. NotAsleep(j) => NotAsleep(j)' BY <1>0 DEF NotAsleep
<1>3. NotHeld(j) => NotHeld(j)' BY <1>0 DEF NotHeld
<1>4. \A p \in JobPayloads : p.job = j /\ Counted(p) => Counted(p)' BY DEF Counted
<1>5. ASSUME StoredOnce(j) PROVE StoredOnce(j)'
  <2>1. PICK o \in J!Objects, q \in Queue, p \in JobPayloads :
          /\ p.job = j /\ Counted(p) /\ Once(store[o][q], p)
          /\ \A o2 \in J!Objects, q2 \in Queue : <<o2, q2>> # <<o, q>> => Never(store[o2][q2], j)
    BY <1>5 DEF StoredOnce
  <2>2. p.job = j /\ Counted(p)' /\ Once(store[o][q], p)' BY <1>0, <1>4, <2>1
  <2>3. \A o2 \in J!Objects, q2 \in Queue : <<o2, q2>> # <<o, q>> => Never(store[o2][q2], j)' BY <1>0, <2>1
  <2> QED BY <2>2, <2>3 DEF StoredOnce
<1>6. ASSUME AsleepOnce(j) PROVE AsleepOnce(j)'
  <2>1. PICK d \in sleeping : /\ d.payload.job = j /\ Counted(d.payload)
                              /\ \A e \in sleeping : e.payload.job = j => e = d
    BY <1>6 DEF AsleepOnce
  <2>2. d.payload \in JobPayloads BY DEF JobsType, JobPlaces
  <2>3. d \in sleeping' /\ Counted(d.payload)' BY <1>0, <1>4, <2>1, <2>2
  <2> QED BY <1>0, <2>1, <2>3 DEF AsleepOnce
<1>7. ASSUME HeldOnce(j) PROVE HeldOnce(j)'
  <2>1. PICK g \in Hands : /\ goroutine[g].payload.job = j /\ HandCounted(g)
                           /\ \A f \in Hands : goroutine[f].payload.job = j => f = g
    BY <1>7 DEF HeldOnce
  <2>2. goroutine'[g] = goroutine[g] BY <1>0, <2>1
  <2>3. HandCounted(g)' BY <2>1, <2>2 DEF HandCounted, Counted
  <2> QED BY <1>0, <2>1, <2>2, <2>3 DEF HeldOnce
<1> QED BY <1>1, <1>2, <1>3, <1>5, <1>6, <1>7 DEF JobPlace

(* Nobody but goroutine g has job j.                                       *)
Loose(g, j) ==
  /\ NotStored(j) /\ NotAsleep(j)
  /\ \A f \in Hands : goroutine[f].payload.job = j => f = g

(* A goroutine that holds a job is alone with it.                          *)
LEMMA HolderAlone ==
  ASSUME JobsInv, NEW g \in Hands, goroutine[g] # J!Idle
  PROVE  /\ goroutine[g] \in JobHand
         /\ goroutine[g].payload.job \in Job
         /\ Loose(g, goroutine[g].payload.job)
         /\ history[goroutine[g].payload.job].ended = "under way"
         /\ HandCounted(g)
<1> DEFINE j == goroutine[g].payload.job
<1>1. goroutine[g] \in JobHand /\ j \in Job BY JobFields DEF JobsInv
<1>2. JobPlace(j) BY <1>1 DEF JobsInv
<1>3. ~NotHeld(j) BY DEF NotHeld
<1>4. history[j].ended = "under way" /\ NotStored(j) /\ NotAsleep(j) /\ HeldOnce(j)
  BY <1>2, <1>3 DEF JobPlace
<1>5. PICK h \in Hands : /\ HandCounted(h)
                         /\ \A f \in Hands : goroutine[f].payload.job = j => f = h
  BY <1>4 DEF HeldOnce
<1>6. h = g BY <1>5
<1> QED BY <1>1, <1>4, <1>5, <1>6 DEF Loose

(* A job that is new is nowhere.                                           *)
LEMMA NewIsNowhere ==
  ASSUME JobsInv, NEW j \in Job, history[j].ended = "new", NEW g \in Hands
  PROVE  Loose(g, j) /\ history[j].handled = 0
<1>1. JobPlace(j) /\ JobCount(j) BY DEF JobsInv
<1> QED BY <1>1 DEF JobPlace, JobCount, Loose, NotHeld

(* The job at the head of a queue is there and nowhere else.               *)
LEMMA HeadAlone ==
  ASSUME JobsInv, NEW o \in J!Objects, NEW q \in Queue, store[o][q] # <<>>
  PROVE  LET p == Head(store[o][q]) IN
         /\ p \in JobPayloads /\ p.job \in Job /\ Counted(p)
         /\ history[p.job].ended = "under way"
         /\ NotAsleep(p.job) /\ NotHeld(p.job) /\ Once(store[o][q], p)
         /\ \A o2 \in J!Objects, q2 \in Queue : <<o2, q2>> # <<o, q>> => Never(store[o2][q2], p.job)
<1> DEFINE s == store[o][q]
<1> DEFINE p == Head(s)
<1>1. s \in Seq(JobPayloads) BY JobFields DEF JobsInv
<1>2. p \in JobPayloads /\ 1 \in DOMAIN s /\ s[1] = p BY <1>1, ShortenedQueue
<1>3. p.job \in Job BY <1>2 DEF JobPayloads
<1>4. JobPlace(p.job) BY <1>3 DEF JobsInv
<1>5. ~Never(s, p.job) BY <1>2 DEF Never
<1>6. ~NotStored(p.job) BY <1>5 DEF NotStored
<1>7. /\ history[p.job].ended = "under way" /\ StoredOnce(p.job) /\ NotAsleep(p.job) /\ NotHeld(p.job)
  BY <1>4, <1>6 DEF JobPlace
<1>8. PICK o1 \in J!Objects, q1 \in Queue, p1 \in JobPayloads :
        /\ p1.job = p.job /\ Counted(p1) /\ Once(store[o1][q1], p1)
        /\ \A o2 \in J!Objects, q2 \in Queue : <<o2, q2>> # <<o1, q1>> => Never(store[o2][q2], p.job)
  BY <1>7 DEF StoredOnce
<1>9. o1 = o /\ q1 = q BY <1>5, <1>8
<1>10. p1 = p BY <1>2, <1>8, <1>9 DEF Once
<1> QED BY <1>2, <1>3, <1>7, <1>8, <1>9, <1>10

(* One payload more in a queue.                                            *)
LEMMA OneQueued ==
  ASSUME JobsType, NEW o \in J!Objects, NEW q \in Queue, NEW p \in JobPayloads, J!Enqueue(o, q, p),
         NEW j \in Job, p.job = j
  PROVE  /\ store' \in [J!Objects -> [Queue -> Seq(JobPayloads)]]
         /\ store'[o][q] = Append(store[o][q], p)
         /\ \A o2 \in J!Objects, q2 \in Queue : <<o2, q2>> # <<o, q>> => store'[o2][q2] = store[o2][q2]
         /\ NotStored(j) /\ Counted(p)' => StoredOnce(j)'
<1>1. store \in [J!Objects -> [Queue -> Seq(JobPayloads)]] BY DEF JobsType, JobPlaces
<1> DEFINE t == Append(store[o][q], p)
<1>2. store[o][q] \in Seq(JobPayloads) /\ t \in Seq(JobPayloads) BY <1>1, AppendedQueue
<1>3. store' = [store EXCEPT ![o][q] = t] BY DEF J!Enqueue
<1>4. Never(store[o][q], p.job) => Once(t, p)
  BY <1>2, AppendedQueue
<1> HIDE DEF t
<1>5. store' \in [J!Objects -> [Queue -> Seq(JobPayloads)]] BY <1>1, <1>2, <1>3
<1>6. store'[o][q] = t BY <1>1, <1>3
<1>7. \A o2 \in J!Objects, q2 \in Queue : <<o2, q2>> # <<o, q>> => store'[o2][q2] = store[o2][q2]
  BY <1>1, <1>3
<1>8. ASSUME NotStored(j), Counted(p)' PROVE StoredOnce(j)'
  <2>1. Never(store[o][q], j) BY <1>8 DEF NotStored
  <2>2. Once(store[o][q], p)' BY <1>4, <1>6, <2>1
  <2>3. \A o2 \in J!Objects, q2 \in Queue : <<o2, q2>> # <<o, q>> => Never(store[o2][q2], j)'
    BY <1>7, <1>8 DEF NotStored
  <2> QED BY <1>8, <2>2, <2>3 DEF StoredOnce
<1> QED BY <1>5, <1>6, <1>7, <1>8 DEF t

(* It is there for its own job only.                                       *)
LEMMA OneQueuedKeeps ==
  ASSUME JobsType, NEW o \in J!Objects, NEW q \in Queue, NEW p \in JobPayloads, J!Enqueue(o, q, p),
         NEW i \in Job, p.job # i
  PROVE  KeepsQueues(i)
<1>0. store[o][q] \in Seq(JobPayloads) /\ p.job \in Job
  <2>1. store[o][q] \in Seq(JobPayloads) BY DEF JobsType, JobPlaces
  <2>2. p.job \in Job BY DEF JobPayloads
  <2> QED BY <2>1, <2>2
<1>1. /\ store'[o][q] = Append(store[o][q], p)
      /\ \A o2 \in J!Objects, q2 \in Queue : <<o2, q2>> # <<o, q>> => store'[o2][q2] = store[o2][q2]
  BY <1>0, OneQueued
<1>2. /\ Never(store[o][q], i) => Never(store'[o][q], i)
      /\ \A r \in JobPayloads : r.job = i /\ Once(store[o][q], r) => Once(store'[o][q], r)
  BY <1>0, <1>1, AppendedQueue
<1> QED BY <1>1, <1>2 DEF KeepsQueues

(* One goroutine does something else.                                      *)
LEMMA OneHand ==
  ASSUME JobsType, NEW g \in Hands, NEW x \in JobHand \cup {J!Idle}, goroutine' = [goroutine EXCEPT ![g] = x]
  PROVE  /\ goroutine' \in [Hands -> JobHand \cup {J!Idle}]
         /\ goroutine'[g] = x
         /\ \A f \in Hands : f # g => goroutine'[f] = goroutine[f]
<1>1. goroutine \in [Hands -> JobHand \cup {J!Idle}] BY DEF JobsType, JobPlaces
<1> QED BY <1>1

(* The hand that had job j has it no more.                                 *)
LEMMA LooseHand ==
  ASSUME JobsType, NEW g \in Hands, goroutine' = [goroutine EXCEPT ![g] = J!Idle],
         NEW j \in Job, \A f \in Hands : goroutine[f].payload.job = j => f = g
  PROVE  NotHeld(j)'
<1>1. goroutine'[g] = J!Idle /\ \A f \in Hands : f # g => goroutine'[f] = goroutine[f] BY OneHand
<1>2. J!Idle.payload.job = NoQueue /\ NoQueue \notin Job BY JobFields, JobConstants
<1> QED BY <1>1, <1>2 DEF NotHeld

(* The jobs of the other hands are not touched.                            *)
LEMMA LooseHandKeeps ==
  ASSUME JobsType, NEW g \in Hands, NEW x \in JobHand \cup {J!Idle}, goroutine' = [goroutine EXCEPT ![g] = x],
         NEW j \in Job, goroutine[g] = J!Idle \/ goroutine[g].payload.job = j,
         x = J!Idle \/ x.payload.job = j,
         NEW i \in Job, i # j
  PROVE  KeepsHands(i)
<1>1. goroutine'[g] = x /\ \A f \in Hands : f # g => goroutine'[f] = goroutine[f] BY OneHand
<1>2. J!Idle.payload.job = NoQueue /\ NoQueue \notin Job BY JobFields, JobConstants
<1>3. goroutine[g].payload.job # i /\ x.payload.job # i BY <1>2
<1> QED BY <1>1, <1>3 DEF KeepsHands

(* A goroutine that waits or handles says what its payload says.           *)
LEMMA HeldCounted ==
  ASSUME NEW g \in Hands, NEW p \in JobPayloads, NEW x \in JobHand,
         x.payload = p, x.at \in {"waiting", "handling"}, goroutine'[g] = x,
         x.at = "handling" => p.job \in registered', Counted(p)', g = Poller => p.attempts < Retries[p.job]
  PROVE  HandCounted(g)'
<1>1. Counted(p)' /\ goroutine'[g].payload = p /\ goroutine'[g].at = x.at OBVIOUS
<1>2. p.attempts = history'[p.job].handled /\ p.attempts <= Retries[p.job] BY <1>1 DEF Counted
<1>3. goroutine'[g].at # "working" BY <1>1
<1>4. goroutine'[g].at = "handling" => goroutine'[g].payload.job \in registered' BY <1>1
<1>5. Counted(goroutine[g].payload)' BY <1>1, <1>2 DEF Counted
<1> QED BY <1>1, <1>2, <1>3, <1>4, <1>5 DEF HandCounted

(* A payload that a goroutine queues is in that queue.                     *)
LEMMA QueuedKeeps ==
  ASSUME JobsInv, NEW g \in Hands, NEW o \in J!Objects, NEW q \in Queue, NEW p \in JobPayloads,
         NEW j \in Job, p.job = j,
         Loose(g, j), goroutine[g] = J!Idle \/ goroutine[g].payload.job = j,
         registered' = registered,
         \A i \in Job : i # j => history'[i] = history[i],
         history'[j].ended = "under way", Counted(p)',
         J!Enqueue(o, q, p), J!Return(g), UNCHANGED sleeping
  PROVE  JobPlaces' /\ \A i \in Job : JobPlace(i)'
<1>1. JobsType BY DEF JobsInv
<1>2. sleeping \subseteq [queue : Queue, payload : JobPayloads] BY <1>1 DEF JobsType, JobPlaces
<1>3. NotStored(j) /\ NotAsleep(j) /\ \A f \in Hands : goroutine[f].payload.job = j => f = g BY DEF Loose
<1>4. \A i \in Job : JobPlace(i) BY DEF JobsInv
<1>5. goroutine' = [goroutine EXCEPT ![g] = J!Idle] BY DEF J!Return
<1>6. goroutine' \in [Hands -> JobHand \cup {J!Idle}] /\ NotHeld(j)'
  <2>1. \A f \in Hands : goroutine[f].payload.job = j => f = g BY <1>3
  <2>2. goroutine' \in [Hands -> JobHand \cup {J!Idle}] BY <1>1, <1>5, OneHand
  <2>3. NotHeld(j)' BY <1>1, <1>5, <2>1, LooseHand
  <2> QED BY <2>2, <2>3
<1>7. store' \in [J!Objects -> [Queue -> Seq(JobPayloads)]] /\ StoredOnce(j)'
  BY <1>1, <1>3, OneQueued
<1>8. NotAsleep(j)' BY <1>3 DEF NotAsleep
<1>9. JobPlace(j)' BY <1>6, <1>7, <1>8 DEF JobPlace
<1>10. ASSUME NEW i \in Job, i # j PROVE JobPlace(i)'
  <2>1. KeepsSleep(i) BY DEF KeepsSleep
  <2>2. KeepsQueues(i) BY <1>1, <1>10, OneQueuedKeeps
  <2>3. KeepsHands(i) BY <1>1, <1>5, <1>10, LooseHandKeeps
  <2>4. JobPlace(i) /\ history'[i] = history[i] /\ registered \subseteq registered' BY <1>4, <1>10
  <2> QED BY <1>1, <2>1, <2>2, <2>3, <2>4, OthersStay
<1> QED BY <1>2, <1>6, <1>7, <1>9, <1>10 DEF JobPlaces

(* What a goroutine hands to a driver, holds itself or leaves to the memory *)
(* driver's timer is in one place.                                         *)
Handed(g, o, q, p) == J!Push(g, o, q, p) \/ J!PushDelayed(g, o, q, p)

(* Handing on keeps every job in its place.                                *)
LEMMA HandedKeeps ==
  ASSUME JobsInv, NEW g \in Hands, NEW o \in J!Objects, NEW q \in Queue, NEW p \in JobPayloads,
         NEW j \in Job, p.job = j,
         Loose(g, j), goroutine[g] = J!Idle \/ goroutine[g].payload.job = j,
         registered' = registered,
         \A i \in Job : i # j => history'[i] = history[i],
         history'[j].ended = "under way", Counted(p)', g = Poller => p.attempts < Retries[j],
         Handed(g, o, q, p)
  PROVE  JobPlaces' /\ \A i \in Job : JobPlace(i)'
<1>0. JobsType BY DEF JobsInv
<1>1. j \in Job /\ p.attempts \in Nat BY DEF JobPayloads
<1>2. /\ store \in [J!Objects -> [Queue -> Seq(JobPayloads)]]
      /\ sleeping \subseteq [queue : Queue, payload : JobPayloads]
  BY <1>0 DEF JobsType, JobPlaces
<1>3. NotStored(j) /\ NotAsleep(j) /\ \A f \in Hands : goroutine[f].payload.job = j => f = g BY DEF Loose
<1>4. \A i \in Job : JobPlace(i) BY DEF JobsInv
<1>5. CASE J!Enqueue(o, q, p) /\ J!Return(g) /\ UNCHANGED sleeping
  BY <1>5, QueuedKeeps
<1>6. ASSUME NEW x \in JobHand, x.payload = p, x.at \in {"waiting", "handling"},
             x.at = "handling" => j \in registered, goroutine' = [goroutine EXCEPT ![g] = x],
             UNCHANGED <<store, sleeping>>
      PROVE  JobPlaces' /\ \A i \in Job : JobPlace(i)'
  <2>1. x # J!Idle BY <1>0, <1>6, JobFields
  <2>2. goroutine'[g] = x BY <1>0, <1>6, OneHand
  <2>3. x.at = "handling" => p.job \in registered' BY <1>6
  <2>4. HandCounted(g)' BY <1>6, <2>2, <2>3, HeldCounted
  <2>5. goroutine' \in [Hands -> JobHand \cup {J!Idle}] /\ HeldOnce(j)'
    <3>1. goroutine'[g].payload.job = j /\ \A f \in Hands : f # g => goroutine'[f] = goroutine[f]
      BY <1>0, <1>6, OneHand
    <3>2. \A f \in Hands : goroutine'[f].payload.job = j => f = g BY <1>3, <3>1
    <3>3. HeldOnce(j)' BY <2>4, <3>1, <3>2 DEF HeldOnce
    <3> QED BY <1>0, <1>6, <3>3, OneHand
  <2>6. NotAsleep(j)' /\ NotStored(j)' BY <1>3, <1>6 DEF NotAsleep, NotStored
  <2>7. JobPlace(j)' BY <2>5, <2>6 DEF JobPlace
  <2>8. ASSUME NEW i \in Job, i # j PROVE JobPlace(i)'
    <3>1. KeepsSleep(i) BY <1>6 DEF KeepsSleep
    <3>2. KeepsQueues(i) BY <1>6 DEF KeepsQueues
    <3>3. KeepsHands(i) BY <1>0, <1>6, <2>8, LooseHandKeeps
    <3>4. JobPlace(i) /\ history'[i] = history[i] /\ registered \subseteq registered' BY <1>4, <2>8
    <3> QED BY <1>0, <3>1, <3>2, <3>3, <3>4, OthersStay
  <2> QED BY <1>2, <1>6, <2>5, <2>7, <2>8 DEF JobPlaces
<1>7. CASE /\ sleeping' = sleeping \cup {[queue |-> q, payload |-> p]}
           /\ J!Return(g) /\ UNCHANGED store
  <2> DEFINE d == [queue |-> q, payload |-> p]
  <2>1. goroutine' = [goroutine EXCEPT ![g] = J!Idle] BY <1>7 DEF J!Return
  <2>2. goroutine' \in [Hands -> JobHand \cup {J!Idle}] /\ NotHeld(j)'
    <3>1. \A f \in Hands : goroutine[f].payload.job = j => f = g BY <1>3
    <3>2. goroutine' \in [Hands -> JobHand \cup {J!Idle}] BY <1>0, <2>1, OneHand
    <3>3. NotHeld(j)' BY <1>0, <2>1, <3>1, LooseHand
    <3> QED BY <3>2, <3>3
  <2>3. sleeping' = sleeping \cup {d} /\ d.payload = p /\ d \in [queue : Queue, payload : JobPayloads]
    BY <1>7
  <2> HIDE DEF d
  <2>4. NotStored(j)' BY <1>3, <1>7 DEF NotStored
  <2>5. AsleepOnce(j)' BY <1>3, <2>3 DEF AsleepOnce, NotAsleep
  <2>6. JobPlace(j)' BY <2>2, <2>4, <2>5 DEF JobPlace
  <2>7. ASSUME NEW i \in Job, i # j PROVE JobPlace(i)'
    <3>1. KeepsSleep(i) BY <2>3, <2>7 DEF KeepsSleep
    <3>2. KeepsQueues(i) BY <1>7 DEF KeepsQueues
    <3>3. KeepsHands(i) BY <1>0, <2>1, <2>7, LooseHandKeeps
    <3>4. JobPlace(i) /\ history'[i] = history[i] /\ registered \subseteq registered' BY <1>4, <2>7
    <3> QED BY <1>0, <3>1, <3>2, <3>3, <3>4, OthersStay
  <2> QED BY <1>2, <1>7, <2>2, <2>3, <2>6, <2>7 DEF JobPlaces
<1>8. ASSUME NEW at \in {"waiting", "handling"}, at = "handling" => j \in registered,
             goroutine' = [goroutine EXCEPT ![g] = [at |-> at, driver |-> o, queue |-> q, payload |-> p]],
             UNCHANGED <<store, sleeping>>
      PROVE  JobPlaces' /\ \A i \in Job : JobPlace(i)'
  BY <1>6, <1>8 DEF JobHand
<1>9. CASE J!Push(g, o, q, p)
  <2>1. \/ j \in registered /\ UNCHANGED <<store, sleeping>>
           /\ goroutine' = [goroutine EXCEPT
                  ![g] = [at |-> "handling", driver |-> o, queue |-> q, payload |-> p]]
        \/ J!Enqueue(o, q, p) /\ J!Return(g) /\ UNCHANGED sleeping
    BY <1>9 DEF J!Push, J!DeserializeJob, J!CreateJob
  <2> QED BY <1>5, <1>8, <2>1
<1>10. CASE J!PushDelayed(g, o, q, p)
  <2>1. \/ /\ UNCHANGED <<store, sleeping>>
           /\ goroutine' = [goroutine EXCEPT
                  ![g] = [at |-> "waiting", driver |-> o, queue |-> q, payload |-> p]]
        \/ /\ sleeping' = sleeping \cup {[queue |-> q, payload |-> p]}
           /\ J!Return(g) /\ UNCHANGED store
    BY <1>10 DEF J!PushDelayed
  <2> QED BY <1>7, <1>8, <2>1
<1> QED BY <1>9, <1>10 DEF Handed

(* A job that ends in a goroutine's hands is nowhere.                      *)
LEMMA EndedKeeps ==
  ASSUME JobsInv, NEW g \in Hands, NEW j \in Job, goroutine[g].payload.job = j, Loose(g, j),
         registered' = registered,
         \A i \in Job : i # j => history'[i] = history[i],
         history'[j].ended # "under way",
         J!Return(g), UNCHANGED <<store, sleeping>>
  PROVE  JobPlaces' /\ \A i \in Job : JobPlace(i)'
<1>0. JobsType /\ \A i \in Job : JobPlace(i) BY DEF JobsInv
<1>1. NotStored(j) /\ NotAsleep(j) /\ \A f \in Hands : goroutine[f].payload.job = j => f = g BY DEF Loose
<1>2. goroutine' = [goroutine EXCEPT ![g] = J!Idle] BY DEF J!Return
<1>3. goroutine' \in [Hands -> JobHand \cup {J!Idle}] /\ NotHeld(j)'
  <2>1. \A f \in Hands : goroutine[f].payload.job = j => f = g BY <1>1
  <2>2. goroutine' \in [Hands -> JobHand \cup {J!Idle}] BY <1>0, <1>2, OneHand
  <2>3. NotHeld(j)' BY <1>0, <1>2, <2>1, LooseHand
  <2> QED BY <2>2, <2>3
<1>4. JobPlace(j)' BY <1>1, <1>3 DEF JobPlace, NotStored, NotAsleep
<1>5. ASSUME NEW i \in Job, i # j PROVE JobPlace(i)'
  <2>1. KeepsSleep(i) /\ KeepsQueues(i) BY DEF KeepsSleep, KeepsQueues
  <2>2. KeepsHands(i) BY <1>0, <1>2, <1>5, LooseHandKeeps
  <2> QED BY <1>0, <1>5, <2>1, <2>2, OthersStay
<1> QED BY <1>0, <1>3, <1>4, <1>5 DEF JobsType, JobPlaces

(* The count of a job that is not handled, in any step.                    *)
LEMMA CountStays ==
  ASSUME NEW i \in Job, JobCount(i), history'[i] = history[i], registered \subseteq registered'
  PROVE  JobCount(i)'
BY DEF JobCount

(* Bootstrap, RegisterJob and NewWorker move no job.                       *)
LEMMA NothingMoves ==
  ASSUME JobsInv, JobsType', registered \subseteq registered',
         UNCHANGED <<store, goroutine, sleeping, history>>
  PROVE  JobsInv'
<1>1. ASSUME NEW i \in Job PROVE JobPlace(i)' /\ JobCount(i)'
  <2>1. KeepsQueues(i) /\ KeepsSleep(i) /\ KeepsHands(i) BY DEF KeepsQueues, KeepsSleep, KeepsHands
  <2>2. JobsType /\ JobPlace(i) /\ JobCount(i) BY DEF JobsInv
  <2>3. history'[i] = history[i] OBVIOUS
  <2> QED BY <2>1, <2>2, <2>3, OthersStay, CountStays
<1> QED BY <1>1 DEF JobsInv

(* Bootstrap: the driver it makes is an object that was none before.       *)
LEMMA BootstrapStep ==
  ASSUME JobsInv, NEW name \in {"sync", "memory"}, NEW q \in Queue \cup {NoQueue}, J!Bootstrap(name, q)
  PROVE  JobsInv'
<1>0. JobsType BY DEF JobsInv
<1>1. UNCHANGED <<store, registered, goroutine, workerDriver, sleeping, history>> BY DEF J!Bootstrap
<1>2. drivers' \in [sync : J!Objects, memory : {0, J!Memory}] /\ made' \in 2 .. (MaxBootstraps + 2)
  <2>1. CASE name = "sync"
    <3>1. made' = made + 1 /\ drivers' = [drivers EXCEPT !.sync = made + 1] BY <2>1 DEF J!Bootstrap
    <3>2. made + 1 \in J!Objects /\ made + 1 \in 2 .. (MaxBootstraps + 2)
      BY <1>0, JobConstants DEF J!Bootstrap, JobsType, J!Objects
    <3> QED BY <1>0, <3>1, <3>2 DEF JobsType
  <2>2. CASE name = "memory"
    BY <1>0, <2>2 DEF J!Bootstrap, JobsType
  <2> QED BY <2>1, <2>2
<1>3. chosen' \in [driver : {"sync", "memory"}, queue : Queue]
  <2>1. chosen' = [driver |-> name, queue |-> IF q # NoQueue THEN q ELSE chosen.queue]
    BY DEF J!Bootstrap
  <2>2. chosen.queue \in Queue BY <1>0 DEF JobsType
  <2> QED BY <2>1, <2>2
<1>4. JobsType' BY <1>0, <1>1, <1>2, <1>3 DEF JobsType, JobPlaces
<1> QED BY <1>1, <1>4, NothingMoves

(* RegisterJob.                                                            *)
LEMMA RegisterJobStep == ASSUME JobsInv, NEW j \in Job, J!RegisterJob(j) PROVE JobsInv'
<1>1. JobsType' /\ registered \subseteq registered' /\ UNCHANGED <<store, goroutine, sleeping, history>>
  BY DEF J!RegisterJob, JobsInv, JobsType, JobPlaces
<1> QED BY <1>1, NothingMoves

(* NewWorker.                                                              *)
LEMMA NewWorkerStep == ASSUME JobsInv, NEW q \in Queue, J!NewWorker(q) PROVE JobsInv'
<1>1. J!DefaultDriver \in J!Objects BY JobFields DEF JobsInv
<1>2. workerDriver' = [driver |-> J!DefaultDriver, queue |-> q]
      /\ UNCHANGED <<drivers, store, chosen, registered, goroutine, sleeping, made, history>>
  BY DEF J!NewWorker
<1>3. workerDriver' \in [driver : J!Objects, queue : Queue] BY <1>1, <1>2
<1>4. JobsType' BY <1>2, <1>3 DEF JobsInv, JobsType, JobPlaces
<1> QED BY <1>2, <1>4, NothingMoves

(* DispatchTaskTo, LaterTo: a job that is new is given to the default      *)
(* driver.                                                                 *)
LEMMA DispatchStep ==
  ASSUME JobsInv, NEW g \in Caller, NEW asked \in Queue \cup {NoQueue}, NEW j \in Job, NEW delay \in 0 .. 1,
         J!DispatchTo(g, asked, j) \/ J!LaterTo(g, asked, delay, j)
  PROVE  JobsInv'
<1>0. JobsType BY DEF JobsInv
<1> DEFINE o == J!DefaultDriver
<1> DEFINE given == IF asked # NoQueue THEN asked ELSE chosen.queue
<1> DEFINE own == IF OwnQueue[j] # NoQueue THEN OwnQueue[j] ELSE given
<1>1. given \in Queue /\ own \in Queue BY <1>0, JobConstants DEF JobsType
<1>2. o \in J!Objects BY <1>0, JobFields
<1>3. PICK p \in JobPayloads : p = J!Serialized(j) /\ p.job = j /\ p.attempts = 0
  <2>1. J!Serialized(j) = [job |-> j, attempts |-> 0] BY DEF J!Serialized
  <2> QED BY <2>1 DEF JobPayloads
<1>4. /\ goroutine[g] = J!Idle /\ history[j].ended = "new"
      /\ history' = [history EXCEPT ![j].ended = "under way"]
      /\ UNCHANGED <<drivers, chosen, registered, workerDriver, made>>
  BY DEF J!DispatchTo, J!LaterTo, J!Moves, J!Ends
<1>5. Handed(g, o, own, p) \/ Handed(g, o, given, p)
  BY <1>3 DEF J!DispatchTo, J!LaterTo, Handed
<1> HIDE DEF o, given, own
<1>6. PICK q \in Queue : Handed(g, o, q, p) BY <1>1, <1>5
<1>7. g \in Hands /\ g # Poller BY JobConstants DEF Hands
<1>8. Loose(g, j) /\ history[j].handled = 0 BY <1>4, <1>7, NewIsNowhere
<1>9. /\ history' \in Histories
      /\ history'[j].ended = "under way"
      /\ \A i \in Job : i # j => history'[i] = history[i]
  BY <1>0, <1>4, <1>8 DEF JobsType, Histories, Ended
<1>10. Counted(p)'
  <2>1. history[j].handled \in Nat /\ Retries[j] \in Nat BY <1>0, JobConstants, JobFields
  <2>2. history'[j].handled = history[j].handled BY <1>0, <1>4 DEF JobsType, Histories
  <2>3. p.attempts = history'[j].handled /\ p.attempts <= Retries[j] BY <1>3, <1>8, <2>1, <2>2
  <2> QED BY <1>3, <2>3 DEF Counted
<1>11. JobPlaces' /\ \A i \in Job : JobPlace(i)'
  BY <1>2, <1>3, <1>4, <1>6, <1>7, <1>8, <1>9, <1>10, HandedKeeps
<1>12. JobsType' BY <1>0, <1>4, <1>9, <1>11 DEF JobsType
<1>13. ASSUME NEW i \in Job PROVE JobCount(i)'
  <2>1. CASE i # j BY <1>4, <1>9, <2>1, CountStays DEF JobsInv
  <2>2. JobCount(j)'
    <3>1. JobCount(j) /\ history'[j].handled = history[j].handled
      BY <1>0, <1>4 DEF JobsInv, JobsType, Histories
    <3> QED BY <1>4, <1>9, <3>1 DEF JobCount
  <2> QED BY <2>1, <2>2
<1> QED BY <1>11, <1>12, <1>13 DEF JobsInv

(* The timer in PushDelayed fires, and its payload is pushed.              *)
LEMMA TimerFiresStep == ASSUME JobsInv, NEW g \in Hands, J!TimerFires(g) PROVE JobsInv'
<1>0. JobsType BY DEF JobsInv
<1>1. /\ goroutine[g].at = "waiting"
      /\ J!Push(g, goroutine[g].driver, goroutine[g].queue, goroutine[g].payload)
      /\ UNCHANGED <<drivers, chosen, registered, workerDriver, made, history>>
  BY DEF J!TimerFires
<1>2. goroutine[g] # J!Idle BY <1>0, <1>1, JobFields
<1>3. PICK p \in JobPayloads, o \in J!Objects, q \in Queue, j \in Job :
        p = goroutine[g].payload /\ o = goroutine[g].driver /\ q = goroutine[g].queue /\ p.job = j
  BY <1>2, HolderAlone DEF JobHand, JobPayloads
<1>4. /\ Loose(g, j) /\ history[j].ended = "under way" /\ HandCounted(g) BY <1>2, <1>3, HolderAlone
<1>5. Counted(p) /\ (g = Poller => p.attempts < Retries[j]) BY <1>1, <1>3, <1>4 DEF HandCounted
<1>6. Counted(p)' BY <1>1, <1>5 DEF Counted
<1>7. Handed(g, o, q, p) BY <1>1, <1>3 DEF Handed
<1>8. history'[j].ended = "under way" /\ \A i \in Job : history'[i] = history[i] BY <1>1, <1>4
<1>9. goroutine[g].payload.job = j /\ registered' = registered BY <1>1, <1>3
<1>10. JobPlaces' /\ \A i \in Job : JobPlace(i)' BY <1>3, <1>4, <1>5, <1>6, <1>7, <1>8, <1>9, HandedKeeps
<1>11. JobsType' BY <1>0, <1>1, <1>10 DEF JobsType
<1>12. \A i \in Job : JobCount(i)' BY <1>1, CountStays DEF JobsInv
<1> QED BY <1>10, <1>11, <1>12 DEF JobsInv

(* The context of a push that waits ends first.                            *)
LEMMA ContextEndsStep == ASSUME JobsInv, NEW g \in Hands, J!ContextEnds(g) PROVE JobsInv'
<1>0. JobsType BY DEF JobsInv
<1>1. PICK how \in {"dropped", "caller told"} :
        history' = [history EXCEPT ![goroutine[g].payload.job].ended = how]
  BY DEF J!ContextEnds, J!Ends
<1>2. /\ goroutine[g].at = "waiting" /\ J!Return(g)
      /\ UNCHANGED <<drivers, store, chosen, registered, workerDriver, sleeping, made>>
  BY DEF J!ContextEnds
<1>3. goroutine[g] # J!Idle BY <1>0, <1>2, JobFields
<1>4. PICK j \in Job : j = goroutine[g].payload.job BY <1>3, HolderAlone
<1>5. Loose(g, j) BY <1>3, <1>4, HolderAlone
<1>6. /\ history' \in Histories /\ history'[j].ended = how /\ history'[j].handled = history[j].handled
      /\ \A i \in Job : i # j => history'[i] = history[i]
  <2>1. history' = [history EXCEPT ![j].ended = how] /\ how \in Ended BY <1>1, <1>4 DEF Ended
  <2>2. history \in Histories BY <1>0 DEF JobsType
  <2> HIDE <1>1
  <2> QED BY <2>1, <2>2 DEF Histories
<1>7. JobPlaces' /\ \A i \in Job : JobPlace(i)' BY <1>2, <1>4, <1>5, <1>6, EndedKeeps
<1>8. JobsType' BY <1>0, <1>2, <1>6, <1>7 DEF JobsType
<1>9. ASSUME NEW i \in Job PROVE JobCount(i)'
  <2>1. CASE i # j BY <1>2, <1>6, <2>1, CountStays DEF JobsInv
  <2>2. JobCount(j)' BY <1>2, <1>6 DEF JobsInv, JobCount
  <2> QED BY <2>1, <2>2
<1> QED BY <1>7, <1>8, <1>9 DEF JobsInv

(* A payload counted once more.                                            *)
LEMMA OneMoreAttempt ==
  ASSUME NEW p \in JobPayloads
  PROVE  LET r == [p EXCEPT !.attempts = @ + 1] IN
         r \in JobPayloads /\ r.job = p.job /\ r.attempts = p.attempts + 1
<1>1. p.attempts + 1 \in Nat BY DEF JobPayloads
<1> QED BY <1>1 DEF JobPayloads

(* The handler returned in SyncDriver.Push: the job is done, or queued     *)
(* again with one attempt more, or its caller is told. A worker, which     *)
(* pushed it with attempts to spare, always queues it again.               *)
LEMMA SyncHandledStep ==
  ASSUME JobsInv, NEW g \in Hands, NEW ok \in BOOLEAN, J!SyncHandled(g, ok)
  PROVE  JobsInv'
<1>0. JobsType BY DEF JobsInv
<1> DEFINE again == ~ok /\ goroutine[g].payload.attempts < Retries[goroutine[g].payload.job]
<1>1. /\ goroutine[g].at = "handling" /\ J!Return(g)
      /\ UNCHANGED <<drivers, chosen, registered, workerDriver, sleeping, made>>
  BY DEF J!SyncHandled
<1>2. goroutine[g] # J!Idle BY <1>0, <1>1, JobFields
<1>3. PICK p \in JobPayloads, o \in J!Objects, q \in Queue, j \in Job :
        p = goroutine[g].payload /\ o = goroutine[g].driver /\ q = goroutine[g].queue /\ p.job = j
  BY <1>2, HolderAlone DEF JobHand, JobPayloads
<1>4. Loose(g, j) /\ HandCounted(g) BY <1>2, <1>3, HolderAlone
<1>5. Counted(p) /\ (g = Poller => p.attempts < Retries[j]) /\ j \in registered
  BY <1>1, <1>3, <1>4 DEF HandCounted
<1>6. p.attempts \in Nat /\ Retries[j] \in Nat /\ p.attempts = history[j].handled /\ p.attempts <= Retries[j]
  BY <1>3, <1>5, JobConstants DEF Counted, JobPayloads
<1>7. PICK how \in Ended :
        /\ how = IF ok THEN "done" ELSE IF again THEN "under way"
                 ELSE IF g = Poller THEN "lost" ELSE "caller told"
        /\ history' = [history EXCEPT ![j] = [handled |-> @.handled + 1, ended |-> how]]
  BY <1>3 DEF J!SyncHandled, Ended
<1>8. /\ again => J!Enqueue(o, q, [p EXCEPT !.attempts = @ + 1])
      /\ ~again => store' = store
  BY <1>3 DEF J!SyncHandled, J!Enqueue
<1>9. again <=> ~ok /\ p.attempts < Retries[j] BY <1>3
<1> HIDE DEF again
<1>10. how # "lost" /\ how # "reported" /\ how # "new" BY <1>5, <1>7, <1>9
<1>11. history' \in Histories /\ \A i \in Job : i # j => history'[i] = history[i]
  <2>1. [handled |-> history[j].handled + 1, ended |-> how] \in [handled : Nat, ended : Ended]
    <3>1. history[j].handled \in Nat BY <1>0, JobFields
    <3> QED BY <3>1
  <2>2. history' = [history EXCEPT ![j] = [handled |-> history[j].handled + 1, ended |-> how]]
    BY <1>7
  <2>3. history \in Histories BY <1>0 DEF JobsType
  <2> QED BY <2>1, <2>2, <2>3 DEF Histories
<1>12. history'[j].ended = how /\ history'[j].handled = history[j].handled + 1
  BY <1>0, <1>7 DEF JobsType, Histories
<1>13. goroutine[g].payload.job = j /\ registered' = registered BY <1>1, <1>3
<1>14. JobPlaces' /\ \A i \in Job : JobPlace(i)'
  <2>1. CASE again
    <3>1. PICK r \in JobPayloads : r = [p EXCEPT !.attempts = @ + 1] /\ r.job = j /\ r.attempts = p.attempts + 1
      BY <1>3, OneMoreAttempt
    <3>2. r.attempts \in Nat /\ r.attempts = history'[j].handled /\ r.attempts <= Retries[j]
      BY <1>6, <1>9, <1>12, <2>1, <3>1
    <3>3. Counted(r)' BY <3>1, <3>2 DEF Counted
    <3>4. J!Enqueue(o, q, r) /\ J!Return(g) /\ UNCHANGED sleeping BY <1>1, <1>8, <2>1, <3>1
    <3>5. history'[j].ended = "under way" BY <1>7, <1>9, <1>12, <2>1
    <3> QED BY <1>4, <1>11, <1>13, <3>1, <3>3, <3>4, <3>5, QueuedKeeps
  <2>2. CASE ~again
    <3>1. how # "under way" BY <1>7, <2>2
    <3>2. history'[j].ended # "under way" BY <1>12, <3>1
    <3> QED BY <1>1, <1>4, <1>8, <1>11, <1>13, <2>2, <3>2, EndedKeeps
  <2> QED BY <2>1, <2>2
<1>15. JobsType' BY <1>0, <1>1, <1>11, <1>14 DEF JobsType
<1>16. ASSUME NEW i \in Job PROVE JobCount(i)'
  <2>1. CASE i # j BY <1>1, <1>11, <2>1, CountStays DEF JobsInv
  <2>2. JobCount(j)'
    <3>1. history'[j].handled \in Nat /\ history'[j].handled <= Retries[j] + 1 BY <1>6, <1>12
    <3> QED BY <1>1, <1>5, <1>10, <1>12, <3>1 DEF JobCount
  <2> QED BY <2>1, <2>2
<1> QED BY <1>14, <1>15, <1>16 DEF JobsInv

(* The memory driver's timer fires.                                        *)
LEMMA MemoryDeliversStep == ASSUME JobsInv, NEW d \in sleeping, J!MemoryDelivers(d) PROVE JobsInv'
<1>0. JobsType BY DEF JobsInv
<1>1. /\ sleeping' = sleeping \ {d} /\ J!Enqueue(J!Memory, d.queue, d.payload)
      /\ UNCHANGED <<drivers, chosen, registered, goroutine, workerDriver, made, history>>
  BY DEF J!MemoryDelivers
<1>2. PICK p \in JobPayloads, q \in Queue, j \in Job : p = d.payload /\ q = d.queue /\ p.job = j
  <2>1. d \in [queue : Queue, payload : JobPayloads] BY <1>0 DEF JobsType, JobPlaces
  <2>2. d.payload \in JobPayloads /\ d.queue \in Queue BY <2>1
  <2> QED BY <2>2 DEF JobPayloads
<1>3. J!Memory \in J!Objects BY JobConstants DEF J!Memory, J!Objects
<1>4. J!Enqueue(J!Memory, q, p) BY <1>1, <1>2
<1>5. history[j].ended = "under way" /\ NotStored(j) /\ NotHeld(j) /\ AsleepOnce(j)
  <2>1. ~NotAsleep(j) BY <1>2 DEF NotAsleep
  <2>2. JobPlace(j) BY DEF JobsInv
  <2> QED BY <2>1, <2>2 DEF JobPlace
<1>6. Counted(p) /\ \A e \in sleeping : e.payload.job = j => e = d BY <1>2, <1>5 DEF AsleepOnce
<1>7. Counted(p)' BY <1>1, <1>6 DEF Counted
<1>8. store' \in [J!Objects -> [Queue -> Seq(JobPayloads)]] /\ StoredOnce(j)'
  BY <1>0, <1>2, <1>3, <1>4, <1>5, <1>7, OneQueued
<1>9. NotAsleep(j)' BY <1>1, <1>6 DEF NotAsleep
<1>10. NotHeld(j)' BY <1>1, <1>5 DEF NotHeld
<1>11. history'[j].ended = "under way" BY <1>1, <1>5
<1>12. JobPlace(j)' BY <1>8, <1>9, <1>10, <1>11 DEF JobPlace
<1>13. ASSUME NEW i \in Job, i # j PROVE JobPlace(i)'
  <2>1. KeepsSleep(i) BY <1>1, <1>2, <1>13 DEF KeepsSleep
  <2>2. KeepsQueues(i) BY <1>0, <1>2, <1>3, <1>4, <1>13, OneQueuedKeeps
  <2>3. KeepsHands(i) BY <1>1 DEF KeepsHands
  <2>4. JobPlace(i) /\ history'[i] = history[i] /\ registered \subseteq registered' BY <1>1 DEF JobsInv
  <2> QED BY <1>0, <2>1, <2>2, <2>3, <2>4, OthersStay
<1>14. JobsType' BY <1>0, <1>1, <1>8 DEF JobsType, JobPlaces
<1>15. \A i \in Job : JobCount(i)' BY <1>1, CountStays DEF JobsInv
<1> QED BY <1>12, <1>13, <1>14, <1>15 DEF JobsInv

(* The handler returned in executeJob: the worker hands a job with         *)
(* attempts to spare to its driver, and reports any other failure.         *)
LEMMA WorkerHandledStep ==
  ASSUME JobsInv, NEW ok \in BOOLEAN, NEW delay \in 0 .. 1, J!WorkerHandled(ok, delay)
  PROVE  JobsInv'
<1>0. JobsType BY DEF JobsInv
<1> DEFINE retry == ~ok /\ goroutine[Poller].payload.attempts < Retries[goroutine[Poller].payload.job]
<1>1. /\ goroutine[Poller].at = "working"
      /\ UNCHANGED <<drivers, chosen, registered, workerDriver, made>>
  BY DEF J!WorkerHandled
<1>2. Poller \in Hands /\ goroutine[Poller] # J!Idle BY <1>0, <1>1, JobFields DEF Hands
<1>3. PICK p \in JobPayloads, o \in J!Objects, q \in Queue, j \in Job :
        /\ p = goroutine[Poller].payload /\ o = goroutine[Poller].driver
        /\ q = goroutine[Poller].queue /\ p.job = j
  BY <1>2, HolderAlone DEF JobHand, JobPayloads
<1>4. Loose(Poller, j) /\ HandCounted(Poller) BY <1>2, <1>3, HolderAlone
<1>5. p.attempts = history[j].handled + 1 /\ history[j].handled <= Retries[j] /\ j \in registered
  BY <1>1, <1>3, <1>4 DEF HandCounted
<1>6. p.attempts \in Nat /\ Retries[j] \in Nat /\ history[j].handled \in Nat
  BY <1>0, <1>3, JobConstants, JobFields DEF JobPayloads
<1>7. PICK how \in Ended :
        /\ how = IF ok THEN "done" ELSE IF retry THEN "under way" ELSE "reported"
        /\ history' = [history EXCEPT ![j] = [handled |-> @.handled + 1, ended |-> how]]
  BY <1>3 DEF J!WorkerHandled, Ended
<1>8. /\ retry => Handed(Poller, o, q, p)
      /\ ~retry => J!Return(Poller) /\ UNCHANGED <<store, sleeping>>
  BY <1>3 DEF J!WorkerHandled, Handed
<1>9. retry <=> ~ok /\ p.attempts < Retries[j] BY <1>3
<1> HIDE DEF retry
<1>10. /\ how # "lost" /\ how # "new"
       /\ how = "reported" => ~(p.attempts < Retries[j])
  BY <1>7, <1>9
<1>11. history' \in Histories /\ \A i \in Job : i # j => history'[i] = history[i]
  <2>1. [handled |-> history[j].handled + 1, ended |-> how] \in [handled : Nat, ended : Ended]
    <3>1. history[j].handled + 1 \in Nat BY <1>6
    <3> QED BY <3>1
  <2>2. history' = [history EXCEPT ![j] = [handled |-> history[j].handled + 1, ended |-> how]]
    BY <1>7
  <2>3. history \in Histories BY <1>0 DEF JobsType
  <2> QED BY <2>1, <2>2, <2>3 DEF Histories
<1>12. history'[j].ended = how /\ history'[j].handled = history[j].handled + 1
  BY <1>0, <1>7 DEF JobsType, Histories
<1>13. goroutine[Poller].payload.job = j /\ registered' = registered BY <1>1, <1>3
<1>14. JobPlaces' /\ \A i \in Job : JobPlace(i)'
  <2>1. CASE retry
    <3>1. p.attempts = history'[j].handled /\ p.attempts <= Retries[j] /\ p.attempts < Retries[j]
      BY <1>5, <1>6, <1>9, <1>12, <2>1
    <3>2. Counted(p)' BY <1>3, <3>1 DEF Counted
    <3>3. how = "under way" BY <1>7, <1>9, <2>1
    <3>4. history'[j].ended = "under way" BY <1>12, <3>3
    <3> QED BY <1>2, <1>3, <1>4, <1>8, <1>11, <1>13, <2>1, <3>1, <3>2, <3>4, HandedKeeps
  <2>2. CASE ~retry
    <3>1. how # "under way" BY <1>7, <2>2
    <3>2. history'[j].ended # "under way" BY <1>12, <3>1
    <3> QED BY <1>2, <1>4, <1>8, <1>11, <1>13, <2>2, <3>2, EndedKeeps
  <2> QED BY <2>1, <2>2
<1>15. JobsType' BY <1>0, <1>1, <1>11, <1>14 DEF JobsType
<1>16. ASSUME NEW i \in Job PROVE JobCount(i)'
  <2>1. CASE i # j BY <1>1, <1>11, <2>1, CountStays DEF JobsInv
  <2>2. JobCount(j)'
    <3>1. history'[j].handled \in Nat /\ history'[j].handled <= Retries[j] + 1 BY <1>5, <1>6, <1>12
    <3>2. how = "reported" => history'[j].handled >= Retries[j] BY <1>5, <1>6, <1>10, <1>12
    <3> QED BY <1>1, <1>5, <1>10, <1>12, <3>1, <3>2 DEF JobCount
  <2> QED BY <2>1, <2>2
<1> QED BY <1>14, <1>15, <1>16 DEF JobsInv

(* The head of a queue is taken.                                           *)
LEMMA HeadTaken ==
  ASSUME JobsInv, NEW o \in J!Objects, NEW q \in Queue, store[o][q] # <<>>,
         store' = [store EXCEPT ![o][q] = Tail(@)], NEW p \in JobPayloads, p = Head(store[o][q]),
         NEW j \in Job, p.job = j
  PROVE  /\ store' \in [J!Objects -> [Queue -> Seq(JobPayloads)]] /\ NotStored(j)'
         /\ store'[o][q] = Tail(store[o][q])
         /\ \A o2 \in J!Objects, q2 \in Queue : <<o2, q2>> # <<o, q>> => store'[o2][q2] = store[o2][q2]
<1>1. store \in [J!Objects -> [Queue -> Seq(JobPayloads)]] BY DEF JobsInv, JobsType, JobPlaces
<1>2. store[o][q] \in Seq(JobPayloads) /\ Tail(store[o][q]) \in Seq(JobPayloads) BY <1>1, ShortenedQueue
<1>3. PICK t \in Seq(JobPayloads) : t = Tail(store[o][q]) BY <1>2
<1>4. store' = [store EXCEPT ![o][q] = t] BY <1>3
<1>5. store' \in [J!Objects -> [Queue -> Seq(JobPayloads)]] BY <1>1, <1>4
<1>6. store'[o][q] = t BY <1>1, <1>4
<1>7. \A o2 \in J!Objects, q2 \in Queue : <<o2, q2>> # <<o, q>> => store'[o2][q2] = store[o2][q2]
  BY <1>1, <1>4
<1>8. Once(store[o][q], p) BY HeadAlone
<1>9. Never(t, j) BY <1>2, <1>3, <1>8, ShortenedQueue
<1>10. \A o2 \in J!Objects, q2 \in Queue : <<o2, q2>> # <<o, q>> => Never(store[o2][q2], j)
  BY HeadAlone
<1>11. NotStored(j)' BY <1>6, <1>7, <1>9, <1>10 DEF NotStored
<1> QED BY <1>3, <1>5, <1>6, <1>7, <1>11

(* Taking the head leaves the other jobs of the queue alone.               *)
LEMMA HeadTakenKeeps ==
  ASSUME JobsInv, NEW o \in J!Objects, NEW q \in Queue, store[o][q] # <<>>,
         store' = [store EXCEPT ![o][q] = Tail(@)], NEW p \in JobPayloads, p = Head(store[o][q]),
         NEW i \in Job, p.job # i
  PROVE  KeepsQueues(i)
<1>1. store[o][q] \in Seq(JobPayloads) BY DEF JobsInv, JobsType, JobPlaces
<1>2. PICK j \in Job : p.job = j BY DEF JobPayloads
<1>3. /\ store'[o][q] = Tail(store[o][q])
      /\ \A o2 \in J!Objects, q2 \in Queue : <<o2, q2>> # <<o, q>> => store'[o2][q2] = store[o2][q2]
  <2>1. store'[o][q] = Tail(store[o][q]) BY <1>2, HeadTaken
  <2>2. \A o2 \in J!Objects, q2 \in Queue : <<o2, q2>> # <<o, q>> => store'[o2][q2] = store[o2][q2]
    BY <1>2, HeadTaken
  <2> QED BY <2>1, <2>2
<1>4. /\ Never(store[o][q], i) => Never(store'[o][q], i)
      /\ \A r \in JobPayloads : r.job = i /\ Once(store[o][q], r) => Once(store'[o][q], r)
  BY <1>1, <1>3, ShortenedQueue
<1> QED BY <1>3, <1>4 DEF KeepsQueues

(* The worker takes the head of its queue: it reports a job of a type that *)
(* is not registered, which nobody ever handled, or counts it and handles  *)
(* it.                                                                     *)
LEMMA PopStep == ASSUME JobsInv, J!Pop PROVE JobsInv'
<1>0. JobsType BY DEF JobsInv
<1>1. /\ workerDriver.driver # 0 /\ goroutine[Poller] = J!Idle
      /\ store[workerDriver.driver][workerDriver.queue] # <<>>
      /\ store' = [store EXCEPT ![workerDriver.driver][workerDriver.queue] = Tail(@)]
      /\ J!ExecuteJob(Head(store[workerDriver.driver][workerDriver.queue]))
      /\ UNCHANGED <<drivers, chosen, registered, workerDriver, sleeping, made>>
  BY DEF J!Pop
<1>2. PICK o \in J!Objects, q \in Queue : workerDriver.driver = o /\ workerDriver.queue = q
  BY <1>0, <1>1 DEF JobsType
<1>3. store[o][q] # <<>> /\ store' = [store EXCEPT ![o][q] = Tail(@)] BY <1>1, <1>2
<1>4. PICK p \in JobPayloads, j \in Job : p = Head(store[o][q]) /\ p.job = j BY <1>3, HeadAlone
<1>5. Counted(p) /\ history[j].ended = "under way" /\ NotAsleep(j) /\ NotHeld(j)
  BY <1>3, <1>4, HeadAlone
<1>6. p.attempts \in Nat /\ p.attempts = history[j].handled /\ p.attempts <= Retries[j] /\ Retries[j] \in Nat
  BY <1>4, <1>5, JobConstants DEF Counted, JobPayloads
<1>7. store' \in [J!Objects -> [Queue -> Seq(JobPayloads)]] /\ NotStored(j)' BY <1>3, <1>4, HeadTaken
<1>8. \A i \in Job : i # j => KeepsQueues(i) BY <1>3, <1>4, HeadTakenKeeps
<1>9. \A i \in Job : KeepsSleep(i) BY <1>1 DEF KeepsSleep
<1>10. NotAsleep(j)' BY <1>1, <1>5 DEF NotAsleep
<1>11. Poller \in Hands BY DEF Hands
<1>12. CASE j \notin registered
  <2>1. history' = [history EXCEPT ![j].ended = "reported"] /\ goroutine' = goroutine
    BY <1>1, <1>2, <1>4, <1>12 DEF J!ExecuteJob, J!CreateJob, J!Ends
  <2>2. /\ history' \in Histories /\ history'[j].ended = "reported"
        /\ \A i \in Job : i # j => history'[i] = history[i]
    BY <1>0, <2>1 DEF JobsType, Histories, Ended
  <2>3. history'[j].handled = history[j].handled BY <1>0, <2>1 DEF JobsType, Histories
  <2>4. NotHeld(j)' BY <1>5, <2>1 DEF NotHeld
  <2>5. JobPlace(j)' BY <1>7, <1>10, <2>2, <2>4 DEF JobPlace
  <2>6. JobCount(j)' BY <1>1, <1>12, <2>2, <2>3 DEF JobsInv, JobCount
  <2>7. ASSUME NEW i \in Job, i # j PROVE JobPlace(i)' /\ JobCount(i)'
    <3>1. KeepsHands(i) BY <2>1 DEF KeepsHands
    <3>2. JobPlace(i) /\ JobCount(i) /\ history'[i] = history[i] /\ registered \subseteq registered'
      BY <1>1, <2>2, <2>7 DEF JobsInv
    <3>3. KeepsQueues(i) /\ KeepsSleep(i) BY <1>8, <1>9, <2>7
    <3> QED BY <1>0, <3>1, <3>2, <3>3, OthersStay, CountStays
  <2>8. JobsType' BY <1>0, <1>1, <1>7, <2>1, <2>2 DEF JobsType, JobPlaces
  <2> QED BY <2>5, <2>6, <2>7, <2>8 DEF JobsInv
<1>13. CASE j \in registered
  <2>1. PICK r \in JobPayloads : r = [p EXCEPT !.attempts = @ + 1] /\ r.job = j /\ r.attempts = p.attempts + 1
    BY <1>4, OneMoreAttempt
  <2>2. PICK x \in JobHand : /\ x = [at |-> "working", driver |-> o, queue |-> q, payload |-> r]
                             /\ x.at = "working" /\ x.payload = r
    <3>1. [at |-> "working", driver |-> o, queue |-> q, payload |-> r] \in JobHand BY DEF JobHand
    <3> QED BY <3>1
  <2>3. goroutine' = [goroutine EXCEPT ![Poller] = x] /\ history' = history
    BY <1>1, <1>2, <1>4, <1>13, <2>1, <2>2 DEF J!ExecuteJob, J!CreateJob
  <2>4. /\ goroutine' \in [Hands -> JobHand \cup {J!Idle}] /\ goroutine'[Poller] = x
        /\ \A f \in Hands : f # Poller => goroutine'[f] = goroutine[f]
    BY <1>0, <1>11, <2>3, OneHand
  <2>5. r.attempts = history[j].handled + 1 /\ history[j].handled <= Retries[j] BY <1>6, <2>1
  <2>6. HandCounted(Poller)'
    <3>1. goroutine'[Poller].at = "working" /\ goroutine'[Poller].payload = r BY <2>2, <2>4
    <3>2. r.attempts = history'[j].handled + 1 /\ history'[j].handled <= Retries[j] BY <2>3, <2>5
    <3>3. r.job = j /\ j \in registered' BY <1>1, <1>13, <2>1
    <3> QED BY <3>1, <3>2, <3>3 DEF HandCounted
  <2>7. HeldOnce(j)'
    <3>1. goroutine'[Poller].payload.job = j BY <2>1, <2>2, <2>4
    <3>2. \A f \in Hands : goroutine'[f].payload.job = j => f = Poller
      BY <1>5, <2>4 DEF NotHeld
    <3> QED BY <1>11, <2>6, <3>1, <3>2 DEF HeldOnce
  <2>8. history'[j].ended = "under way" BY <1>5, <2>3
  <2>9. JobPlace(j)' BY <1>7, <1>10, <2>7, <2>8 DEF JobPlace
  <2>10. ASSUME NEW i \in Job, i # j PROVE JobPlace(i)'
    <3>1. x.payload.job = j /\ goroutine' = [goroutine EXCEPT ![Poller] = x] BY <2>1, <2>2, <2>3
    <3>2. goroutine[Poller] = J!Idle BY <1>1
    <3>3. KeepsHands(i) BY <1>0, <1>11, <2>10, <3>1, <3>2, LooseHandKeeps
    <3>4. JobPlace(i) /\ history'[i] = history[i] /\ registered \subseteq registered'
      BY <1>1, <2>3 DEF JobsInv
    <3>5. KeepsQueues(i) /\ KeepsSleep(i) BY <1>8, <1>9, <2>10
    <3> QED BY <1>0, <3>3, <3>4, <3>5, OthersStay
  <2>11. JobsType' BY <1>0, <1>1, <1>7, <2>3, <2>4 DEF JobsType, JobPlaces
  <2>12. \A i \in Job : JobCount(i)' BY <1>1, <2>3, CountStays DEF JobsInv
  <2> QED BY <2>9, <2>10, <2>11, <2>12 DEF JobsInv
<1> QED BY <1>12, <1>13

(* A queue of the default driver is emptied: its jobs were there alone.    *)
LEMMA ClearStep == ASSUME JobsInv, NEW q \in Queue, J!Clear(q) PROVE JobsInv'
<1>0. JobsType BY DEF JobsInv
<1>1. PICK o \in J!Objects : o = J!DefaultDriver BY <1>0, JobFields
<1> DEFINE gone == {p.job : p \in J!ToSet(store[o][q])}
<1>2. /\ store' = [store EXCEPT ![o][q] = <<>>]
      /\ history' = [j \in Job |-> IF j \in gone THEN [history[j] EXCEPT !.ended = "cleared"] ELSE history[j]]
      /\ UNCHANGED <<drivers, chosen, registered, goroutine, workerDriver, sleeping, made>>
  BY <1>1 DEF J!Clear
<1>3. \A j \in Job : j \in gone <=> ~Never(store[o][q], j)
  <2>1. \A j : j \in gone <=> \E i \in DOMAIN store[o][q] : store[o][q][i].job = j BY DEF J!ToSet
  <2> QED BY <2>1 DEF Never
<1> HIDE DEF gone
<1>4. store \in [J!Objects -> [Queue -> Seq(JobPayloads)]] /\ history \in Histories
  BY <1>0 DEF JobsType, JobPlaces
<1>5. /\ store' \in [J!Objects -> [Queue -> Seq(JobPayloads)]] /\ store'[o][q] = <<>>
      /\ \A o2 \in J!Objects, q2 \in Queue : <<o2, q2>> # <<o, q>> => store'[o2][q2] = store[o2][q2]
  <2>1. PICK t \in Seq(JobPayloads) : t = <<>>
    <3>1. <<>> \in Seq(JobPayloads) OBVIOUS
    <3> QED BY <3>1
  <2>2. store' = [store EXCEPT ![o][q] = t] BY <1>2, <2>1
  <2>3. store' \in [J!Objects -> [Queue -> Seq(JobPayloads)]] /\ store'[o][q] = t BY <1>4, <2>2
  <2>4. \A o2 \in J!Objects, q2 \in Queue : <<o2, q2>> # <<o, q>> => store'[o2][q2] = store[o2][q2]
    BY <1>4, <2>2
  <2> QED BY <2>1, <2>3, <2>4
<1>6. \A j : Never(<<>>, j) BY DEF Never
<1>7. \A j \in Job : /\ history'[j].handled = history[j].handled
                     /\ history'[j].ended = IF j \in gone THEN "cleared" ELSE history[j].ended
                     /\ history'[j] \in [handled : Nat, ended : Ended]
                     /\ j \notin gone => history'[j] = history[j]
  BY <1>2, <1>4 DEF Histories, Ended
<1>8. history' \in Histories BY <1>2, <1>7 DEF Histories
<1>9. JobsType' BY <1>0, <1>2, <1>5, <1>8 DEF JobsType, JobPlaces
<1>10. ASSUME NEW j \in Job PROVE JobPlace(j)' /\ JobCount(j)'
  <2>1. JobPlace(j) /\ JobCount(j) BY DEF JobsInv
  <2>2. CASE j \in gone
    <3>1. ~Never(store[o][q], j) BY <1>3, <2>2
    <3>2. StoredOnce(j) /\ NotAsleep(j) /\ NotHeld(j) BY <2>1, <3>1 DEF JobPlace, NotStored
    <3>3. PICK o1 \in J!Objects, q1 \in Queue :
            \A o2 \in J!Objects, q2 \in Queue : <<o2, q2>> # <<o1, q1>> => Never(store[o2][q2], j)
      BY <3>2 DEF StoredOnce
    <3>4. \A o2 \in J!Objects, q2 \in Queue : <<o2, q2>> # <<o, q>> => Never(store[o2][q2], j)
      BY <3>1, <3>3
    <3>5. NotStored(j)' BY <1>5, <1>6, <3>4 DEF NotStored
    <3>6. NotAsleep(j)' /\ NotHeld(j)' BY <1>2, <3>2 DEF NotAsleep, NotHeld
    <3>7. history'[j].ended = "cleared" BY <1>7, <2>2
    <3>8. JobPlace(j)' BY <3>5, <3>6, <3>7 DEF JobPlace
    <3>9. JobCount(j)' BY <1>2, <1>7, <2>1, <3>7 DEF JobCount
    <3> QED BY <3>8, <3>9
  <2>3. CASE j \notin gone
    <3>1. Never(store[o][q], j) BY <1>3, <2>3
    <3>2. \A p \in JobPayloads : p.job = j => ~Once(store[o][q], p) BY <3>1 DEF Never, Once
    <3>3. KeepsQueues(j) BY <1>5, <1>6, <3>2 DEF KeepsQueues
    <3>4. KeepsSleep(j) /\ KeepsHands(j) BY <1>2 DEF KeepsSleep, KeepsHands
    <3>5. history'[j] = history[j] /\ registered \subseteq registered' BY <1>2, <1>7, <2>3
    <3> QED BY <1>0, <2>1, <3>3, <3>4, <3>5, OthersStay, CountStays
  <2> QED BY <2>2, <2>3
<1> QED BY <1>9, <1>10 DEF JobsInv

(* Every job is new and nowhere at first.                                  *)
LEMMA JobsStart == Init => JobsInv
<1> SUFFICES ASSUME J!JobDispatchInit PROVE JobsInv
  BY DEF Init
<1>1. 2 \in J!Objects /\ 2 \in 2 .. (MaxBootstraps + 2) BY JobConstants DEF J!Objects
<1>2. drivers \in [sync : J!Objects, memory : {0, J!Memory}] /\ made \in 2 .. (MaxBootstraps + 2)
  BY <1>1 DEF J!JobDispatchInit
<1>3. store \in [J!Objects -> [Queue -> Seq(JobPayloads)]]
      /\ \A o \in J!Objects, q \in Queue : store[o][q] = <<>>
  <2>1. <<>> \in Seq(JobPayloads) OBVIOUS
  <2> QED BY <2>1 DEF J!JobDispatchInit, J!Empty
<1>4. goroutine \in [Hands -> JobHand \cup {J!Idle}] /\ \A g \in Hands : goroutine[g] = J!Idle
  BY DEF J!JobDispatchInit, Hands
<1>5. /\ chosen \in [driver : {"sync", "memory"}, queue : Queue] /\ registered = {} /\ sleeping = {}
      /\ workerDriver = [driver |-> 0, queue |-> NoQueue]
  BY DEF J!JobDispatchInit
<1>6. /\ \A j \in Job : history[j] = [handled |-> 0, ended |-> "new"]
      /\ history \in Histories
  BY DEF J!JobDispatchInit, Histories, Ended
<1>7. JobsType BY <1>2, <1>3, <1>4, <1>5, <1>6 DEF JobsType, JobPlaces
<1>8. ASSUME NEW j \in Job PROVE JobPlace(j) /\ JobCount(j)
  <2>1. history[j].handled = 0 /\ history[j].ended = "new" BY <1>6
  <2>2. NotStored(j) BY <1>3 DEF NotStored, Never
  <2>3. NotAsleep(j) BY <1>5 DEF NotAsleep
  <2>4. NotHeld(j) BY <1>4, JobConstants DEF NotHeld, J!Idle, J!NoPayload
  <2>5. Retries[j] \in Nat BY JobConstants
  <2>6. 0 <= Retries[j] + 1 /\ ~(0 > 0) BY <2>5
  <2>7. JobPlace(j) BY <2>1, <2>2, <2>3, <2>4 DEF JobPlace
  <2>8. JobCount(j) BY <2>1, <2>6 DEF JobCount
  <2> QED BY <2>7, <2>8
<1> QED BY <1>7, <1>8 DEF JobsInv

(* One step of any component keeps every job in its place.                 *)
LEMMA JobsStep == JobsInv /\ [Next]_vars => JobsInv'
<1> SUFFICES ASSUME JobsInv, [Next]_vars PROVE JobsInv'
  OBVIOUS
<1>1. CASE UNCHANGED jobsVars
  <2>1. UNCHANGED <<drivers, store, chosen, registered, goroutine, workerDriver, sleeping, made, history>>
    BY <1>1 DEF jobsVars
  <2>2. JobsType' BY <2>1 DEF JobsInv, JobsType, JobPlaces, J!Objects, J!Memory, J!Idle, J!NoPayload
  <2>3. registered \subseteq registered' BY <2>1
  <2> QED BY <2>1, <2>2, <2>3, NothingMoves
<1>2. CASE J!JobDispatchNext
  <2>1. ASSUME NEW name \in {"sync", "memory"}, NEW q \in Queue \cup {NoQueue}, J!Bootstrap(name, q)
        PROVE  JobsInv'
    BY <2>1, BootstrapStep
  <2>2. ASSUME NEW j \in Job, J!RegisterJob(j) PROVE JobsInv' BY <2>2, RegisterJobStep
  <2>3. ASSUME NEW g \in Caller, NEW q \in Queue \cup {NoQueue}, NEW j \in Job, NEW delay \in 0 .. 1,
               J!DispatchTo(g, q, j) \/ J!LaterTo(g, q, delay, j)
        PROVE  JobsInv'
    BY <2>3, DispatchStep
  <2>4. ASSUME NEW g \in Caller, NEW q \in Queue \cup {NoQueue}, NEW j \in Job, J!DispatchTo(g, q, j)
        PROVE  JobsInv'
    <3>1. 0 \in 0 .. 1 OBVIOUS
    <3> QED BY <2>3, <2>4, <3>1
  <2>5. ASSUME NEW g \in Hands,
               J!TimerFires(g) \/ J!ContextEnds(g) \/ \E ok \in BOOLEAN : J!SyncHandled(g, ok)
        PROVE  JobsInv'
    BY <2>5, TimerFiresStep, ContextEndsStep, SyncHandledStep
  <2>6. ASSUME NEW d \in sleeping, J!MemoryDelivers(d) PROVE JobsInv' BY <2>6, MemoryDeliversStep
  <2>7. ASSUME NEW q \in Queue, J!NewWorker(q) \/ J!Clear(q) PROVE JobsInv'
    BY <2>7, NewWorkerStep, ClearStep
  <2>8. CASE J!Pop BY <2>8, PopStep
  <2>9. ASSUME NEW ok \in BOOLEAN, NEW delay \in 0 .. 1, J!WorkerHandled(ok, delay) PROVE JobsInv'
    BY <2>9, WorkerHandledStep
  <2> QED BY <1>2, <2>1, <2>2, <2>3, <2>4, <2>5, <2>6, <2>7, <2>8, <2>9 DEF J!JobDispatchNext, Hands
<1> QED BY <1>1, <1>2
        DEF Next, vars, MailScene, IntakeScene, JobsScene, StepsScene, AuditScene, ServerScene

(* Cardinalities of nothing and of one thing, as the model counts them.    *)
LEMMA CountedNumbers ==
  /\ J!Cardinality({}) = 0 /\ \A x : J!Cardinality({x}) = 1
  /\ J!Cardinality(Job) = Cardinality(Job) /\ Cardinality(Job) \in Nat
<1>1. \A set : J!Cardinality(set) = Cardinality(set) BY DEF J!Cardinality, Cardinality
<1>2. Cardinality({}) = 0 BY FS_EmptySet
<1>3. \A x : Cardinality({x}) = 1 BY FS_Singleton
<1>4. Cardinality(Job) \in Nat BY JobConstants, FS_CardinalityType
<1> QED BY <1>1, <1>2, <1>3, <1>4

(* A queue is not longer than there are jobs: each is in it once.          *)
LEMMA QueueLength ==
  ASSUME JobsInv, NEW o \in J!Objects, NEW q \in Queue
  PROVE  \A i \in DOMAIN store[o][q] : i \in 1 .. Cardinality(Job)
<1> DEFINE s == store[o][q]
<1>1. s \in Seq(JobPayloads) BY JobFields DEF JobsInv
<1>2. DOMAIN s = 1 .. Len(s) /\ Len(s) \in Nat /\ \A i \in DOMAIN s : s[i] \in JobPayloads BY <1>1
<1>3. ASSUME NEW i \in DOMAIN s, NEW k \in DOMAIN s, s[i].job = s[k].job PROVE i = k
  <2>1. PICK j \in Job : s[i].job = j BY <1>2 DEF JobPayloads
  <2>2. ~Never(s, j) BY <2>1 DEF Never
  <2>3. JobPlace(j) BY DEF JobsInv
  <2>4. StoredOnce(j) BY <2>2, <2>3 DEF JobPlace, NotStored
  <2>5. PICK o1 \in J!Objects, q1 \in Queue, p \in JobPayloads :
          /\ p.job = j /\ Once(store[o1][q1], p)
          /\ \A o2 \in J!Objects, q2 \in Queue : <<o2, q2>> # <<o1, q1>> => Never(store[o2][q2], j)
    BY <2>4 DEF StoredOnce
  <2>6. Once(s, p) BY <2>2, <2>5
  <2> QED BY <1>3, <2>1, <2>5, <2>6 DEF Once
<1> DEFINE f == [i \in 1 .. Len(s) |-> s[i].job]
<1>4. f \in [1 .. Len(s) -> Job] BY <1>2 DEF JobPayloads
<1>5. \A i, k \in 1 .. Len(s) : f[i] = f[k] => i = k BY <1>2, <1>3
<1> HIDE DEF f
<1>6. IsFiniteSet(1 .. Len(s)) /\ Cardinality(1 .. Len(s)) = Len(s)
  <2>1. 1 \in Int /\ Len(s) \in Int /\ Len(s) \in Nat BY <1>2
  <2>2. /\ IsFiniteSet(1 .. Len(s))
        /\ Cardinality(1 .. Len(s)) = IF 1 > Len(s) THEN 0 ELSE Len(s) - 1 + 1
    BY <2>1, FS_Interval
  <2> QED BY <2>1, <2>2
<1>7. ~(Cardinality(Job) < Len(s)) BY <1>4, <1>5, <1>6, JobConstants, FS_PigeonHole
<1> QED BY <1>2, <1>7, CountedNumbers

(* The three places where copies of a job are counted.                     *)
StoredCopies(j) ==
  {s \in J!Objects \X Queue \X (1 .. J!Cardinality(Job)) :
     s[3] \in DOMAIN store[s[1]][s[2]] /\ store[s[1]][s[2]][s[3]].job = j}
AsleepCopies(j) == {d \in sleeping : d.payload.job = j}
HeldCopies(j) == {g \in DOMAIN goroutine : goroutine[g].payload.job = j}

(* A job that is not somewhere has no copy there.                          *)
LEMMA NoCopies ==
  ASSUME JobsInv, NEW j \in Job
  PROVE  /\ NotStored(j) => J!Cardinality(StoredCopies(j)) = 0
         /\ NotAsleep(j) => J!Cardinality(AsleepCopies(j)) = 0
         /\ NotHeld(j) => J!Cardinality(HeldCopies(j)) = 0
<1>1. NotStored(j) => StoredCopies(j) = {} BY DEF NotStored, Never, StoredCopies
<1>2. NotAsleep(j) => AsleepCopies(j) = {} BY DEF NotAsleep, AsleepCopies
<1>3. DOMAIN goroutine = Hands BY DEF JobsInv, JobsType, JobPlaces
<1>4. NotHeld(j) => HeldCopies(j) = {} BY <1>3 DEF NotHeld, HeldCopies
<1> QED BY <1>1, <1>2, <1>4, CountedNumbers

(* A job that is somewhere has one copy there.                             *)
LEMMA OneCopy ==
  ASSUME JobsInv, NEW j \in Job
  PROVE  /\ StoredOnce(j) => J!Cardinality(StoredCopies(j)) = 1
         /\ AsleepOnce(j) => J!Cardinality(AsleepCopies(j)) = 1
         /\ HeldOnce(j) => J!Cardinality(HeldCopies(j)) = 1
<1>1. ASSUME StoredOnce(j) PROVE \E x : StoredCopies(j) = {x}
  <2>1. PICK o \in J!Objects, q \in Queue, p \in JobPayloads :
          /\ p.job = j /\ Once(store[o][q], p)
          /\ \A o2 \in J!Objects, q2 \in Queue : <<o2, q2>> # <<o, q>> => Never(store[o2][q2], j)
    BY <1>1 DEF StoredOnce
  <2>2. PICK i \in DOMAIN store[o][q] :
          store[o][q][i] = p /\ \A k \in DOMAIN store[o][q] : store[o][q][k].job = j => k = i
    BY <2>1 DEF Once
  <2>3. i \in 1 .. J!Cardinality(Job) BY QueueLength, CountedNumbers
  <2>4. <<o, q, i>> \in StoredCopies(j) BY <2>1, <2>2, <2>3 DEF StoredCopies
  <2>5. ASSUME NEW s \in StoredCopies(j) PROVE s = <<o, q, i>>
    <3>1. PICK o2 \in J!Objects, q2 \in Queue, k \in 1 .. J!Cardinality(Job) : s = <<o2, q2, k>>
      BY DEF StoredCopies
    <3>2. k \in DOMAIN store[o2][q2] /\ store[o2][q2][k].job = j BY <3>1 DEF StoredCopies
    <3>3. ~Never(store[o2][q2], j) BY <3>2 DEF Never
    <3>4. o2 = o /\ q2 = q BY <2>1, <3>3
    <3>5. k = i BY <2>2, <3>2, <3>4
    <3> QED BY <3>1, <3>4, <3>5
  <2>6. StoredCopies(j) = {<<o, q, i>>} BY <2>4, <2>5
  <2> QED BY <2>6
<1>2. ASSUME AsleepOnce(j) PROVE \E x : AsleepCopies(j) = {x} BY <1>2 DEF AsleepOnce, AsleepCopies
<1>3. DOMAIN goroutine = Hands BY DEF JobsInv, JobsType, JobPlaces
<1>4. ASSUME HeldOnce(j) PROVE \E x : HeldCopies(j) = {x} BY <1>3, <1>4 DEF HeldOnce, HeldCopies
<1> QED BY <1>1, <1>2, <1>4, CountedNumbers

(* What is promised of the jobs follows.                                   *)
LEMMA JobsFollow == JobsInv => J!JobsSound
<1> SUFFICES ASSUME JobsInv PROVE J!JobsSound
  OBVIOUS
<1>1. ASSUME NEW j \in Job PROVE J!Copies(j) = IF history[j].ended = "under way" THEN 1 ELSE 0
  <2>1. J!Copies(j) = J!Cardinality(StoredCopies(j)) + J!Cardinality(AsleepCopies(j))
                      + J!Cardinality(HeldCopies(j))
    BY DEF J!Copies, StoredCopies, AsleepCopies, HeldCopies
  <2>2. JobPlace(j) BY DEF JobsInv
  <2>3. CASE history[j].ended # "under way"
    <3>1. NotStored(j) /\ NotAsleep(j) /\ NotHeld(j) BY <2>2, <2>3 DEF JobPlace
    <3>2. J!Copies(j) = 0 + 0 + 0 BY <2>1, <3>1, NoCopies
    <3>3. J!Copies(j) = 0 BY <3>2
    <3> QED BY <2>3, <3>3
  <2>4. CASE history[j].ended = "under way"
    <3>1. \/ StoredOnce(j) /\ NotAsleep(j) /\ NotHeld(j)
          \/ NotStored(j) /\ AsleepOnce(j) /\ NotHeld(j)
          \/ NotStored(j) /\ NotAsleep(j) /\ HeldOnce(j)
      BY <2>2, <2>4 DEF JobPlace
    <3>2. \/ J!Copies(j) = 1 + 0 + 0 \/ J!Copies(j) = 0 + 1 + 0 \/ J!Copies(j) = 0 + 0 + 1
      BY <2>1, <3>1, NoCopies, OneCopy
    <3>3. J!Copies(j) = 1 BY <3>2
    <3> QED BY <2>4, <3>3
  <2> QED BY <2>3, <2>4
<1>2. \A j \in Job : JobCount(j) BY DEF JobsInv
<1>3. J!RetriesBounded BY <1>2 DEF JobCount, J!RetriesBounded
<1> QED BY <1>1, <1>3 DEF J!JobsSound, J!JobInOnePlace

(* A job under way is in one place, and however callers and worker hand it *)
(* to each other it is handled at most once more than its retries say      *)
(* (SyncDriver.Push, processJob); a retried step is not called again after *)
(* its context or its tries ended (runWithRetry).                          *)
THEOREM WorkflowIsSound == Spec => []WorkflowSound
<1>1. Init => JobsInv /\ StepInv BY JobsStart, StepStart
<1>2. (JobsInv /\ StepInv) /\ [Next]_vars => (JobsInv /\ StepInv)' BY JobsStep, StepStep
<1>3. JobsInv /\ StepInv => WorkflowSound
  BY JobsFollow DEF StepInv, WorkflowSound
<1> QED BY <1>1, <1>2, <1>3, PTL DEF Spec
===============================================================================
