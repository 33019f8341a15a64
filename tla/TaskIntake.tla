------------------------------ MODULE TaskIntake ------------------------------
(***************************************************************************)
(* Dispatching a task with an idempotency key: PostgresDriver.insert       *)
(* (api/internal/capabilities/workflow/postgres.go).  It is two statements *)
(* without a transaction: an INSERT and, when that fails, a SELECT of the  *)
(* row that has the key.  Other clients insert and operators delete rows   *)
(* in between.  A client that lost its answer dispatches again.            *)
(***************************************************************************)
EXTENDS Naturals

CONSTANTS
  Client,     \* callers of PushTask
  Key,        \* idempotency keys
  NoKey,      \* of a job without one
  Content,    \* what taskFingerprint tells apart
  MaxCalls,   \* bound: calls of insert
  MaxFaults   \* bound: statements that fail for want of a connection

IntakeAssumption ==
  /\ MaxCalls \in Nat
  /\ MaxFaults \in Nat
  /\ NoKey \notin Key

VARIABLES
  rows,     \* the table: rows with an id, a key and a fingerprint
  pc,       \* the statement each client is about to run
  request,  \* the row each client wants
  answer,   \* what each client's last call returned
  calls,    \* ids drawn so far, for MaxCalls
  faults,   \* for MaxFaults
  stored    \* history: every row that was inserted

vars == <<rows, pc, request, answer, calls, faults, stored>>

NoRequest == [id |-> 0]
None == [kind |-> "none", id |-> 0]
Failed == [kind |-> "error", id |-> 0]
Conflict == [kind |-> "conflict", id |-> 0]
Id(i) == [kind |-> "id", id |-> i]

Init ==
  /\ rows = {}
  /\ pc = [c \in Client |-> "idle"]
  /\ request = [c \in Client |-> NoRequest]
  /\ answer = [c \in Client |-> None]
  /\ calls = 0
  /\ faults = 0
  /\ stored = {}

(* The unique indexes: on id, and on queue and idempotency_key. *)
Collides(r) ==
  \E s \in rows : s.id = r.id \/ (s.key = r.key /\ r.key # NoKey)

Return(c, a) ==
  /\ pc' = [pc EXCEPT ![c] = "idle"]
  /\ answer' = [answer EXCEPT ![c] = a]

(* serializeJob draws an id for the job. *)
Dispatch(c, k, content) ==
  /\ pc[c] = "idle"
  /\ calls < MaxCalls
  /\ calls' = calls + 1
  /\ request' = [request EXCEPT ![c] =
                   [id |-> calls + 1, key |-> k, content |-> content]]
  /\ pc' = [pc EXCEPT ![c] = "create"]
  /\ answer' = [answer EXCEPT ![c] = None]
  /\ UNCHANGED <<rows, faults, stored>>

(* The same serialized payload is pushed again. *)
Redispatch(c) ==
  /\ pc[c] = "idle" /\ request[c] # NoRequest
  /\ pc' = [pc EXCEPT ![c] = "create"]
  /\ answer' = [answer EXCEPT ![c] = None]
  /\ UNCHANGED <<rows, request, calls, faults, stored>>

(* The INSERT.  Without a key its error is final. *)
Create(c) ==
  /\ pc[c] = "create"
  /\ \/ /\ ~Collides(request[c])
        /\ rows' = rows \cup {request[c]}
        /\ stored' = stored \cup {request[c]}
        /\ Return(c, Id(request[c].id))
     \/ /\ Collides(request[c]) /\ request[c].key = NoKey
        /\ Return(c, Failed)
        /\ UNCHANGED <<rows, stored>>
     \/ /\ Collides(request[c]) /\ request[c].key # NoKey
        /\ pc' = [pc EXCEPT ![c] = "take"]
        /\ UNCHANGED <<rows, answer, stored>>
  /\ UNCHANGED <<request, calls, faults>>

(* Mutant of Take: the fingerprints are not compared. *)
TakeAny(c) ==
  /\ pc[c] = "take"
  /\ \/ \E s \in rows : s.key = request[c].key /\ Return(c, Id(s.id))
     \/ /\ \A s \in rows : s.key # request[c].key
        /\ Return(c, Failed)
  /\ UNCHANGED <<rows, request, calls, faults, stored>>

(* The SELECT by key, and the comparison of the fingerprints. *)
Take(c) ==
  /\ pc[c] = "take"
  /\ \/ \E s \in rows :
          /\ s.key = request[c].key
          /\ Return(c, IF s.content = request[c].content THEN Id(s.id) ELSE Conflict)
     \/ /\ \A s \in rows : s.key # request[c].key
        /\ Return(c, Failed)
  /\ UNCHANGED <<rows, request, calls, faults, stored>>

(* A statement fails, or its answer is lost: a Create that failed so, too, *)
(* is followed by the SELECT when there is a key.                          *)
StatementFails(c) ==
  /\ pc[c] # "idle"
  /\ faults < MaxFaults
  /\ faults' = faults + 1
  /\ \/ /\ pc[c] = "create" /\ ~Collides(request[c])
        /\ rows' = rows \cup {request[c]}
        /\ stored' = stored \cup {request[c]}
     \/ UNCHANGED <<rows, stored>>
  /\ IF pc[c] = "create" /\ request[c].key # NoKey
     THEN pc' = [pc EXCEPT ![c] = "take"] /\ UNCHANGED answer
     ELSE Return(c, Failed)
  /\ UNCHANGED <<request, calls>>

(* PruneFinished or Clear. *)
Delete ==
  \E gone \in SUBSET rows \ {{}} :
    /\ rows' = rows \ gone
    /\ UNCHANGED <<pc, request, answer, calls, faults, stored>>

Next ==
  \/ \E c \in Client :
       \/ \E k \in Key \cup {NoKey}, content \in Content : Dispatch(c, k, content)
       \/ Redispatch(c) \/ Create(c) \/ Take(c) \/ StatementFails(c)
  \/ Delete

Spec == Init /\ [][Next]_vars

-----------------------------------------------------------------------------
(* Properties.                                                             *)

(* An answer is the truth about the ledger: an id is the id of a task that *)
(* was stored with the request's key and content, by this client or by     *)
(* another, and a conflict means that one with the key and another content *)
(* was stored, whatever insert's two statements met in between.            *)
AnswersAreTrue ==
  \A c \in Client :
    /\ answer[c].kind = "id" =>
         \E s \in stored : /\ s.id = answer[c].id
                           /\ s.key = request[c].key
                           /\ s.content = request[c].content
    /\ answer[c].kind = "conflict" =>
         \E s \in stored : /\ s.key = request[c].key /\ s.key # NoKey
                           /\ s.content # request[c].content

(* However many clients dispatch a key, and however often, those insert    *)
(* answered with an id are talking of the same task, unless the task one   *)
(* of them was told of has been deleted since.                             *)
OneTaskPerKey ==
  \A c, d \in Client :
    /\ answer[c].kind = "id" /\ answer[d].kind = "id"
    /\ request[c].key = request[d].key /\ request[c].key # NoKey
    /\ {answer[c].id, answer[d].id} \subseteq {s.id : s \in rows}
    => /\ answer[c] = answer[d]
       /\ request[c].content = request[d].content
=============================================================================
