------------------------------- MODULE Operators -------------------------------
(* Platform operators (api/internal/modules/operator): a grant is a row    *)
(* that the command line inserts and deletes; every request of the Admin  *)
(* Console checks session, grant, origin and CSRF token before it acts.    *)
EXTENDS Naturals, FiniteSets

CONSTANTS
  Account,      \* accounts of the platform
  OpSession,    \* operator sessions that may be issued
  Request       \* requests of the console that overlap

OperatorsAssumption == Account \cap {"ended", "unissued"} = {}

VARIABLES
  operators,    \* platform_operators
  active,       \* accounts that are not disabled
  opSession,    \* sessions of audience "operator": their account, or the reason they are not
  request,      \* requests under way
  lapsed        \* history: sessions whose operator lost the grant while they lived

operatorsVars == <<operators, active, opSession, request, lapsed>>

NoRequest == [at |-> "none"]
Ended == "ended"
Unissued == "unissued"

OperatorsInit ==
  /\ operators = {} /\ active = Account
  /\ opSession = [s \in OpSession |-> Unissued]
  /\ request = [r \in Request |-> NoRequest]
  /\ lapsed = {}

Done(r) == request' = [request EXCEPT ![r] = NoRequest]

-----------------------------------------------------------------------------
(* The command line. Repeating a command changes nothing. A new grant      *)
(* covers the sessions the operator has kept, and requests on their way.   *)
GrantOperator(a) ==
  /\ operators' = operators \cup {a}
  /\ lapsed' = {s \in lapsed : opSession[s] # a}
  /\ request' = [r \in Request |->
       IF request[r].at = "session" /\ request[r].by = a
       THEN [at |-> "session", by |-> a, late |-> FALSE] ELSE request[r]]
  /\ UNCHANGED <<active, opSession>>

RevokeOperator(a) ==
  /\ operators' = operators \ {a}
  /\ lapsed' = IF a \in operators THEN lapsed \cup {s \in OpSession : opSession[s] = a} ELSE lapsed
  /\ UNCHANGED <<active, opSession, request>>

-----------------------------------------------------------------------------
(* SignIn: the password is right and the account active; a verified user  *)
(* without a grant is refused before a session exists.                    *)
SignInVerify(r, a) ==
  /\ request[r] = NoRequest /\ a \in active
  /\ request' = [request EXCEPT ![r] = [at |-> "verified", by |-> a]]
  /\ UNCHANGED <<operators, active, opSession, lapsed>>

SignInGrant(r) ==
  /\ request[r].at = "verified"
  /\ request' = [request EXCEPT ![r] =
       IF request[r].by \in operators THEN [at |-> "issuing", by |-> request[r].by] ELSE NoRequest]
  /\ UNCHANGED <<operators, active, opSession, lapsed>>

SignInIssue(r, s) ==
  /\ request[r].at = "issuing" /\ opSession[s] = Unissued
  /\ opSession' = [opSession EXCEPT ![s] = request[r].by]
  /\ Done(r) /\ UNCHANGED <<operators, active, lapsed>>

(* SignOut, of a session that may have ended. *)
OperatorSignOut(s) ==
  /\ opSession[s] \in Account
  /\ opSession' = [opSession EXCEPT ![s] = Ended]
  /\ lapsed' = lapsed \ {s}
  /\ UNCHANGED <<operators, active, request>>

-----------------------------------------------------------------------------
(* requireOperator: the session lives and its account is active; then the *)
(* grant is looked up.                                                     *)
AuthenticateOperator(r, s) ==
  /\ request[r] = NoRequest /\ opSession[s] \in active
  /\ request' = [request EXCEPT ![r] =
       [at |-> "session", by |-> opSession[s], late |-> s \in lapsed]]
  /\ UNCHANGED <<operators, active, opSession, lapsed>>

(* Mutant of CheckGrant: the session is enough. *)
SessionIsEnough(r) ==
  /\ request[r].at = "session"
  /\ request' = [request EXCEPT ![r].at = "operator"]
  /\ UNCHANGED <<operators, active, opSession, lapsed>>

CheckGrant(r) ==
  /\ request[r].at = "session"
  /\ request' = [request EXCEPT ![r] =
       IF request[r].by \in operators
       THEN [at |-> "operator", by |-> request[r].by, late |-> request[r].late] ELSE NoRequest]
  /\ UNCHANGED <<operators, active, opSession, lapsed>>

(* requireUnprotectedTarget: an operator is no target. *)
CheckTarget(r, target) ==
  /\ request[r].at = "operator"
  /\ request' = [request EXCEPT ![r] =
       IF target \in operators THEN NoRequest
       ELSE [at |-> "acting", by |-> request[r].by, target |-> target, late |-> request[r].late]]
  /\ UNCHANGED <<operators, active, opSession, lapsed>>

EndSessions(a) ==
  /\ opSession' = [s \in OpSession |-> IF opSession[s] = a THEN Ended ELSE opSession[s]]
  /\ lapsed' = {s \in lapsed : opSession[s] # a}

DisableUser(r) ==
  /\ request[r].at = "acting"
  /\ active' = active \ {request[r].target}
  /\ EndSessions(request[r].target)
  /\ Done(r) /\ UNCHANGED operators

EnableUser(r) ==
  /\ request[r].at = "acting"
  /\ active' = active \cup {request[r].target}
  /\ Done(r) /\ UNCHANGED <<operators, opSession, lapsed>>

RevokeSessions(r) ==
  /\ request[r].at = "acting"
  /\ EndSessions(request[r].target)
  /\ Done(r) /\ UNCHANGED <<operators, active>>

(* Origin, CSRF token, an error of the store: writeError. *)
Refuse(r) ==
  /\ request[r] # NoRequest /\ Done(r)
  /\ UNCHANGED <<operators, active, opSession, lapsed>>

-----------------------------------------------------------------------------
OperatorCommand == \E a \in Account : GrantOperator(a) \/ RevokeOperator(a)
OperatorSignIn(r) ==
  \/ \E a \in Account : SignInVerify(r, a)
  \/ SignInGrant(r) \/ \E s \in OpSession : SignInIssue(r, s)
RequireOperator(r) ==
  \/ \E s \in OpSession : AuthenticateOperator(r, s)
  \/ CheckGrant(r) \/ \E a \in Account : CheckTarget(r, a)
ManageUser(r) == DisableUser(r) \/ EnableUser(r) \/ RevokeSessions(r)

OperatorsNext ==
  \/ OperatorCommand
  \/ \E r \in Request : OperatorSignIn(r) \/ RequireOperator(r) \/ ManageUser(r) \/ Refuse(r)
  \/ \E s \in OpSession : OperatorSignOut(s)
OperatorsSpec == OperatorsInit /\ [][OperatorsNext]_operatorsVars

-----------------------------------------------------------------------------
(* A session outlives the grant of its operator, but serves nothing: no    *)
(* request that came after the grant was revoked gets as far as to act,    *)
(* unless the grant was given again.                                       *)
GrantIsNeeded == \A r \in Request :
  request[r].at \in {"operator", "acting"} => ~request[r].late
=============================================================================
