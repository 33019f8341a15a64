--------------------------- MODULE TenancyProofs ----------------------------
(* Proofs about who may do what: operators, API keys, permissions, the     *)
(* members of an organization, accounts and the operator console. Each     *)
(* component has its own inductive invariant; a step of MCTenancy is a     *)
(* step of one component and a stutter of the rest.                        *)
EXTENDS MCTenancy, FiniteSetTheorems, TLAPS

(***************************************************************************)
(* Operators.                                                              *)
(***************************************************************************)

OperatorRequest ==
  {S!NoRequest} \cup [at : {"verified", "issuing"}, by : Account]
    \cup [at : {"session", "operator"}, by : Account, late : BOOLEAN]
    \cup [at : {"acting"}, by : Account, target : Account, late : BOOLEAN]

OperatorsType ==
  /\ operators \subseteq Account /\ active \subseteq Account
  /\ opSession \in [OpSession -> Account \cup {S!Ended, S!Unissued}]
  /\ request \in [Request -> OperatorRequest]
  /\ lapsed \subseteq OpSession

(* A session has lapsed only while its operator is without a grant. *)
LapsedHaveNoGrant == \A s \in lapsed : opSession[s] \in Account /\ opSession[s] \notin operators

(* A request that came with such a session is not an operator's yet, and   *)
(* will not be before the grant is given again.                            *)
LateAreRefused == \A r \in Request :
  /\ request[r].at = "session" /\ request[r].late => request[r].by \notin operators
  /\ request[r].at \in {"operator", "acting"} => ~request[r].late

OperatorsInv == OperatorsType /\ LapsedHaveNoGrant /\ LateAreRefused

(* Nobody is an operator at first.                                         *)
LEMMA OperatorsStart == Init => OperatorsInv
BY DEF Init, S!OperatorsInit, OperatorsInv, OperatorsType, LapsedHaveNoGrant, LateAreRefused,
       OperatorRequest, S!NoRequest, S!Unissued, S!Ended

(* What a request is by its stage.                                         *)
LEMMA OperatorStages ==
  ASSUME NEW q \in OperatorRequest
  PROVE  /\ q # S!NoRequest => q.by \in Account
         /\ q.at \in {"session", "operator", "acting"} => q.late \in BOOLEAN
         /\ q.at = "acting" => q.target \in Account
BY DEF OperatorRequest, S!NoRequest

(* A step that only moves one request keeps the invariant when the request *)
(* is as it should be afterwards.                                          *)
LEMMA OneRequestMoves ==
  ASSUME OperatorsInv, NEW r \in Request, NEW q \in OperatorRequest,
         request' = [request EXCEPT ![r] = q], UNCHANGED operators,
         q.at = "session" /\ q.late => q.by \notin operators,
         q.at \in {"operator", "acting"} => ~q.late
  PROVE  request' \in [Request -> OperatorRequest] /\ LateAreRefused'
<1>1. request \in [Request -> OperatorRequest] BY DEF OperatorsInv, OperatorsType
<1>2. \A x \in Request : request'[x] = IF x = r THEN q ELSE request[x] BY <1>1
<1>3. LateAreRefused' BY <1>2 DEF OperatorsInv, LateAreRefused
<1> QED BY <1>1, <1>3

(* The command line: a grant covers what the operator has kept, a          *)
(* revocation makes its sessions lapse.                                    *)
LEMMA OperatorCommandStep == OperatorsInv /\ S!OperatorCommand => OperatorsInv'
<1> SUFFICES ASSUME OperatorsInv, NEW a \in Account, S!GrantOperator(a) \/ S!RevokeOperator(a)
             PROVE  OperatorsInv'
  BY DEF S!OperatorCommand
<1>0. OperatorsType /\ LapsedHaveNoGrant /\ LateAreRefused BY DEF OperatorsInv
<1>1. CASE S!GrantOperator(a)
  <2>1. operators' = operators \cup {a} /\ lapsed' = {s \in lapsed : opSession[s] # a}
        /\ UNCHANGED <<active, opSession>>
    BY <1>1 DEF S!GrantOperator
  <2>2. /\ request' \in [Request -> OperatorRequest]
        /\ \A r \in Request : request'[r] =
             IF request[r].at = "session" /\ request[r].by = a
             THEN [at |-> "session", by |-> a, late |-> FALSE] ELSE request[r]
    <3>1. [at |-> "session", by |-> a, late |-> FALSE] \in OperatorRequest BY DEF OperatorRequest
    <3>2. request' = [r \in Request |->
             IF request[r].at = "session" /\ request[r].by = a
             THEN [at |-> "session", by |-> a, late |-> FALSE] ELSE request[r]]
      BY <1>1 DEF S!GrantOperator
    <3> QED BY <1>0, <3>1, <3>2 DEF OperatorsType
  <2>3. OperatorsType' BY <1>0, <2>1, <2>2 DEF OperatorsType
  <2>4. LapsedHaveNoGrant' BY <1>0, <2>1 DEF LapsedHaveNoGrant
  <2>5. LateAreRefused' BY <1>0, <2>1, <2>2 DEF LateAreRefused
  <2> QED BY <2>3, <2>4, <2>5 DEF OperatorsInv
<1>2. CASE S!RevokeOperator(a)
  <2>1. operators' = operators \ {a} /\ UNCHANGED <<active, opSession, request>>
        /\ lapsed' \subseteq lapsed \cup {s \in OpSession : opSession[s] = a}
    BY <1>2 DEF S!RevokeOperator
  <2>2. OperatorsType' BY <1>0, <2>1 DEF OperatorsType
  <2>3. LapsedHaveNoGrant' BY <1>0, <2>1 DEF LapsedHaveNoGrant
  <2>4. LateAreRefused' BY <1>0, <2>1 DEF LateAreRefused
  <2> QED BY <2>2, <2>3, <2>4 DEF OperatorsInv
<1> QED BY <1>1, <1>2

(* Signing in: a new session belongs to nobody whose grant was lost.       *)
LEMMA OperatorSignInStep ==
  ASSUME OperatorsInv, NEW r \in Request, S!OperatorSignIn(r) PROVE OperatorsInv'
<1>0. OperatorsType /\ LapsedHaveNoGrant /\ LateAreRefused BY DEF OperatorsInv
<1>1. ASSUME NEW a \in Account, S!SignInVerify(r, a) PROVE OperatorsInv'
  <2> DEFINE q == [at |-> "verified", by |-> a]
  <2>1. request' = [request EXCEPT ![r] = q] /\ UNCHANGED <<operators, active, opSession, lapsed>>
    BY <1>1 DEF S!SignInVerify
  <2>2. q \in OperatorRequest /\ q.at = "verified" BY DEF OperatorRequest
  <2> HIDE DEF q
  <2>3. request' \in [Request -> OperatorRequest] /\ LateAreRefused' BY <2>1, <2>2, OneRequestMoves
  <2> QED BY <1>0, <2>1, <2>3 DEF OperatorsInv, OperatorsType, LapsedHaveNoGrant
<1>2. CASE S!SignInGrant(r)
  <2> DEFINE q == IF request[r].by \in operators THEN [at |-> "issuing", by |-> request[r].by]
                  ELSE S!NoRequest
  <2>1. request' = [request EXCEPT ![r] = q] /\ UNCHANGED <<operators, active, opSession, lapsed>>
    BY <1>2 DEF S!SignInGrant
  <2>2. q \in OperatorRequest /\ q.at \in {"issuing", "none"}
    BY <1>0 DEF OperatorRequest, S!NoRequest, OperatorsType
  <2> HIDE DEF q
  <2>3. request' \in [Request -> OperatorRequest] /\ LateAreRefused' BY <2>1, <2>2, OneRequestMoves
  <2> QED BY <1>0, <2>1, <2>3 DEF OperatorsInv, OperatorsType, LapsedHaveNoGrant
<1>3. ASSUME NEW s \in OpSession, S!SignInIssue(r, s) PROVE OperatorsInv'
  <2>1. /\ request[r].at = "issuing" /\ opSession[s] = S!Unissued
        /\ opSession' = [opSession EXCEPT ![s] = request[r].by]
        /\ request' = [request EXCEPT ![r] = S!NoRequest] /\ UNCHANGED <<operators, active, lapsed>>
    BY <1>3 DEF S!SignInIssue, S!Done
  <2>2. S!NoRequest \in OperatorRequest /\ S!NoRequest.at = "none"
    BY DEF OperatorRequest, S!NoRequest
  <2>3. request' \in [Request -> OperatorRequest] /\ LateAreRefused' BY <2>1, <2>2, OneRequestMoves
  <2>4. request[r].by \in Account
    <3>1. request[r] \in OperatorRequest /\ request[r] # S!NoRequest
      BY <1>0, <2>1 DEF OperatorsType, S!NoRequest
    <3> QED BY <3>1, OperatorStages
  <2>5. s \notin lapsed
    BY <1>0, <2>1, TenancyAssumption DEF LapsedHaveNoGrant, S!OperatorsAssumption, S!Unissued
  <2>6. \A x \in OpSession : opSession'[x] = IF x = s THEN request[r].by ELSE opSession[x]
    BY <1>0, <2>1 DEF OperatorsType
  <2>7. LapsedHaveNoGrant' BY <1>0, <2>1, <2>5, <2>6 DEF LapsedHaveNoGrant, OperatorsType
  <2> QED BY <1>0, <2>1, <2>3, <2>4, <2>7 DEF OperatorsInv, OperatorsType
<1> QED BY <1>1, <1>2, <1>3 DEF S!OperatorSignIn

(* requireOperator and requireUnprotectedTarget.                           *)
LEMMA RequireOperatorStep ==
  ASSUME OperatorsInv, NEW r \in Request, S!RequireOperator(r) PROVE OperatorsInv'
<1>0. OperatorsType /\ LapsedHaveNoGrant /\ LateAreRefused BY DEF OperatorsInv
<1>r. request[r] \in OperatorRequest BY <1>0 DEF OperatorsType
<1>n. S!NoRequest \in OperatorRequest /\ S!NoRequest.at = "none"
  BY DEF OperatorRequest, S!NoRequest
<1>1. ASSUME NEW s \in OpSession, S!AuthenticateOperator(r, s) PROVE OperatorsInv'
  <2> DEFINE b == s \in lapsed
             q == [at |-> "session", by |-> opSession[s], late |-> b]
  <2>1. /\ request' = [request EXCEPT ![r] = q] /\ UNCHANGED <<operators, active, opSession, lapsed>>
        /\ opSession[s] \in active
    BY <1>1 DEF S!AuthenticateOperator
  <2>b. b \in BOOLEAN /\ (b => opSession[s] \notin operators) BY <1>0 DEF LapsedHaveNoGrant
  <2> HIDE DEF b
  <2>2. q \in OperatorRequest /\ q.at = "session" /\ q.by = opSession[s] /\ q.late = b
    BY <1>0, <2>1, <2>b DEF OperatorRequest, OperatorsType
  <2> HIDE DEF q
  <2>4. q.late => q.by \notin operators BY <2>b, <2>2
  <2>3. request' \in [Request -> OperatorRequest] /\ LateAreRefused'
    BY <2>1, <2>2, <2>4, OneRequestMoves
  <2> QED BY <1>0, <2>1, <2>3 DEF OperatorsInv, OperatorsType, LapsedHaveNoGrant
<1>2. CASE S!CheckGrant(r)
  <2> DEFINE q == IF request[r].by \in operators
                  THEN [at |-> "operator", by |-> request[r].by, late |-> request[r].late]
                  ELSE S!NoRequest
  <2>1. /\ request' = [request EXCEPT ![r] = q] /\ UNCHANGED <<operators, active, opSession, lapsed>>
        /\ request[r].at = "session"
    BY <1>2 DEF S!CheckGrant
  <2>2. request[r].by \in Account /\ request[r].late \in BOOLEAN
    BY <1>r, <1>n, <2>1, OperatorStages
  <2>3. request[r].by \in operators => request[r].late = FALSE
    BY <1>0, <2>1, <2>2 DEF LateAreRefused
  <2>4. q \in OperatorRequest /\ q.at \in {"operator", "none"} /\ (q.at = "operator" => ~q.late)
    BY <1>n, <2>2, <2>3 DEF OperatorRequest
  <2> HIDE DEF q
  <2>5. request' \in [Request -> OperatorRequest] /\ LateAreRefused'
    BY <2>1, <2>4, OneRequestMoves
  <2> QED BY <1>0, <2>1, <2>5 DEF OperatorsInv, OperatorsType, LapsedHaveNoGrant
<1>3. ASSUME NEW t \in Account, S!CheckTarget(r, t) PROVE OperatorsInv'
  <2> DEFINE q == IF t \in operators THEN S!NoRequest
                  ELSE [at |-> "acting", by |-> request[r].by, target |-> t, late |-> request[r].late]
  <2>1. /\ request' = [request EXCEPT ![r] = q] /\ UNCHANGED <<operators, active, opSession, lapsed>>
        /\ request[r].at = "operator"
    BY <1>3 DEF S!CheckTarget
  <2>2. request[r].by \in Account /\ request[r].late \in BOOLEAN
    BY <1>r, <1>n, <2>1, OperatorStages
  <2>3. request[r].late = FALSE BY <1>0, <2>1, <2>2 DEF LateAreRefused
  <2>4. q \in OperatorRequest /\ q.at \in {"acting", "none"} /\ (q.at = "acting" => ~q.late)
    BY <1>n, <2>2, <2>3 DEF OperatorRequest
  <2> HIDE DEF q
  <2>5. request' \in [Request -> OperatorRequest] /\ LateAreRefused'
    BY <2>1, <2>4, OneRequestMoves
  <2> QED BY <1>0, <2>1, <2>5 DEF OperatorsInv, OperatorsType, LapsedHaveNoGrant
<1> QED BY <1>1, <1>2, <1>3 DEF S!RequireOperator

(* What an operator does to a user, and a request that is refused.         *)
LEMMA ManageUserStep ==
  ASSUME OperatorsInv, NEW r \in Request, S!ManageUser(r) \/ S!Refuse(r) PROVE OperatorsInv'
<1>0. OperatorsType /\ LapsedHaveNoGrant /\ LateAreRefused BY DEF OperatorsInv
<1>1. request' = [request EXCEPT ![r] = S!NoRequest] /\ UNCHANGED operators
  BY DEF S!ManageUser, S!DisableUser, S!EnableUser, S!RevokeSessions, S!Refuse, S!Done
<1>2. S!NoRequest \in OperatorRequest /\ S!NoRequest.at = "none"
  BY DEF OperatorRequest, S!NoRequest
<1>3. request' \in [Request -> OperatorRequest] /\ LateAreRefused' BY <1>1, <1>2, OneRequestMoves
<1>4. active' \subseteq Account
  <2>1. CASE active' \subseteq active BY <1>0, <2>1 DEF OperatorsType
  <2>2. CASE S!EnableUser(r)
    <3>1. request[r] \in OperatorRequest /\ request[r].at = "acting"
      BY <1>0, <2>2 DEF OperatorsType, S!EnableUser
    <3> QED BY <1>0, <2>2, <3>1, OperatorStages DEF S!EnableUser, OperatorsType
  <2> QED BY <2>1, <2>2 DEF S!ManageUser, S!DisableUser, S!RevokeSessions, S!Refuse
<1>5. \/ UNCHANGED <<opSession, lapsed>> \/ S!EndSessions(request[r].target)
  BY DEF S!ManageUser, S!DisableUser, S!EnableUser, S!RevokeSessions, S!Refuse
<1>6. /\ opSession' \in [OpSession -> Account \cup {S!Ended, S!Unissued}] /\ lapsed' \subseteq lapsed
      /\ \A s \in lapsed' : opSession'[s] = opSession[s]
  BY <1>0, <1>5 DEF S!EndSessions, OperatorsType
<1>7. LapsedHaveNoGrant' BY <1>0, <1>1, <1>6 DEF LapsedHaveNoGrant
<1> QED BY <1>0, <1>1, <1>3, <1>4, <1>6, <1>7 DEF OperatorsInv, OperatorsType

(* SignOut.                                                                *)
LEMMA OperatorSignOutStep ==
  ASSUME OperatorsInv, NEW s \in OpSession, S!OperatorSignOut(s) PROVE OperatorsInv'
<1>0. OperatorsType /\ LapsedHaveNoGrant /\ LateAreRefused BY DEF OperatorsInv
<1>1. /\ opSession' = [opSession EXCEPT ![s] = S!Ended] /\ lapsed' = lapsed \ {s}
      /\ UNCHANGED <<operators, active, request>>
  BY DEF S!OperatorSignOut
<1>2. \A x \in OpSession \ {s} : opSession'[x] = opSession[x] BY <1>0, <1>1 DEF OperatorsType
<1>3. LapsedHaveNoGrant' BY <1>0, <1>1, <1>2 DEF LapsedHaveNoGrant, OperatorsType
<1> QED BY <1>0, <1>1, <1>3 DEF OperatorsInv, OperatorsType, LateAreRefused

(* One step of any component keeps the operators sound.                    *)
LEMMA OperatorsStep == OperatorsInv /\ [Next]_vars => OperatorsInv'
<1> SUFFICES ASSUME OperatorsInv, [Next]_vars PROVE OperatorsInv'
  OBVIOUS
<1>1. CASE UNCHANGED operatorsVars
  BY <1>1 DEF operatorsVars, OperatorsInv, OperatorsType, LapsedHaveNoGrant, LateAreRefused
<1>2. CASE S!OperatorsNext
  BY <1>2, OperatorCommandStep, OperatorSignInStep, RequireOperatorStep, ManageUserStep,
     OperatorSignOutStep DEF S!OperatorsNext
<1> QED BY <1>1, <1>2 DEF Next, vars, OrganizationScene, AccountsScene, PermissionsScene, KeysScene,
                          OperatorsScene, ConsoleScene

(* No request that came after its operator's grant was revoked gets as far *)
(* as to act, for any number of accounts, sessions and requests, though    *)
(* the session outlives the grant (requireOperator).                       *)
THEOREM OperatorsAreSound == Spec => []OperatorsSound
<1>1. OperatorsInv => OperatorsSound
  BY DEF OperatorsInv, LateAreRefused, OperatorsSound, S!GrantIsNeeded
<1> QED BY <1>1, OperatorsStart, OperatorsStep, PTL DEF Spec

(***************************************************************************)
(* API keys.                                                               *)
(***************************************************************************)

KeyRow == [state : {"live", "revoked"}, scopes : SUBSET Scope, expires : {K!Never} \cup 1 .. MaxMinute,
           used : Nat, revoked : Nat]
KeyCall ==
  {K!NoCall} \cup [at : {"granted"}, k : ApiKey, now : Nat, used : Nat]
    \cup [at : {"revoking"}, k : ApiKey, now : Nat]

KeysType ==
  /\ key \in [ApiKey -> KeyRow \cup {K!NoKey}]
  /\ call \in [Caller -> KeyCall]
  /\ minute \in Nat
  /\ revocations \in [ApiKey -> Nat]

(* A request under way has found its key, and keys are never deleted.      *)
CallsHaveKeys == \A c \in Caller : call[c] # K!NoCall => key[call[c].k] # K!NoKey

KeysInv == KeysType /\ CallsHaveKeys /\ K!RevokedOnce

(* What a step may do to a key: a revoked one stays, a use moves forward.  *)
KeyMoves == \A k \in ApiKey : key[k] # K!NoKey =>
  /\ key[k].state = "revoked" => key'[k] = key[k]
  /\ key'[k].used >= key[k].used

(* There is no key and no request at first.                                *)
LEMMA KeysStart == Init => KeysInv
BY DEF Init, K!ApiKeysInit, KeysInv, KeysType, CallsHaveKeys, K!RevokedOnce, KeyCall, K!NoKey,
       K!NoCall

(* The fields of a row, and a row is not the absence of one.               *)
LEMMA KeyRows ==
  ASSUME NEW x \in KeyRow \cup {K!NoKey}
  PROVE  /\ x # K!NoKey <=> x \in KeyRow
         /\ x \in KeyRow => x.state \in {"live", "revoked"} /\ x.used \in Nat /\ x.revoked \in Nat
         /\ x.state \in {"live", "revoked"} <=> x \in KeyRow
BY DEF KeyRow, K!NoKey

(* The fields of a request under way.                                      *)
LEMMA KeyCalls ==
  ASSUME NEW q \in KeyCall, q # K!NoCall
  PROVE  q.k \in ApiKey /\ q.now \in Nat /\ (q.at = "granted" => q.used \in Nat)
BY DEF KeyCall, K!NoCall

(* A request that ends leaves the others as they were.                     *)
LEMMA CallEnds ==
  ASSUME KeysInv, NEW c \in Caller, call' = [call EXCEPT ![c] = K!NoCall],
         \A k \in ApiKey : key[k] # K!NoKey => key'[k] # K!NoKey
  PROVE  call' \in [Caller -> KeyCall] /\ CallsHaveKeys'
<1>1. call \in [Caller -> KeyCall] /\ K!NoCall \in KeyCall BY DEF KeysInv, KeysType, KeyCall
<1>2. \A x \in Caller : call'[x] = IF x = c THEN K!NoCall ELSE call[x] BY <1>1
<1>3. \A x \in Caller : call[x] # K!NoCall => call[x].k \in ApiKey BY <1>1, KeyCalls
<1>4. \A x \in Caller : call'[x] # K!NoCall => call'[x] = call[x] /\ call[x] # K!NoCall
  BY <1>2
<1>5. CallsHaveKeys'
  <2> SUFFICES ASSUME NEW x \in Caller, call'[x] # K!NoCall PROVE key'[call'[x].k] # K!NoKey
    BY DEF CallsHaveKeys
  <2>1. call'[x] = call[x] /\ call[x].k \in ApiKey /\ call[x] # K!NoCall BY <1>3, <1>4
  <2>2. key[call[x].k] # K!NoKey BY <2>1 DEF KeysInv, CallsHaveKeys
  <2> QED BY <2>1, <2>2
<1> QED BY <1>1, <1>2, <1>5

(* CreateForUser.                                                          *)
LEMMA CreateKeyStep ==
  ASSUME KeysInv, NEW k \in ApiKey, NEW scopes \in SUBSET Scope,
         NEW expires \in {K!Never} \cup 1 .. MaxMinute, K!CreateForUser(k, scopes, expires)
  PROVE  KeysInv' /\ KeyMoves
<1> DEFINE row == [state |-> "live", scopes |-> scopes, expires |-> expires, used |-> K!Never,
                   revoked |-> K!Never]
<1>0. KeysType /\ CallsHaveKeys /\ K!RevokedOnce BY DEF KeysInv
<1>1. key[k] = K!NoKey /\ key' = [key EXCEPT ![k] = row] /\ UNCHANGED <<call, minute, revocations>>
  BY DEF K!CreateForUser
<1>2. row \in KeyRow /\ row.state = "live"
  <2>1. K!Never \in Nat BY DEF K!Never
  <2> QED BY <2>1 DEF KeyRow
<1> HIDE DEF row
<1>3. key' \in [ApiKey -> KeyRow \cup {K!NoKey}]
      /\ \A x \in ApiKey : key'[x] = IF x = k THEN row ELSE key[x]
  BY <1>0, <1>1, <1>2 DEF KeysType
<1>4. KeysType' BY <1>0, <1>1, <1>3 DEF KeysType
<1>5. \A x \in ApiKey : key[x] # K!NoKey => key'[x] = key[x] BY <1>1, <1>3
<1>6. \A c \in Caller : call[c] # K!NoCall => call[c].k \in ApiKey BY <1>0, KeyCalls DEF KeysType
<1>7. CallsHaveKeys' BY <1>0, <1>1, <1>5, <1>6 DEF CallsHaveKeys
<1>8. K!RevokedOnce'
  BY <1>0, <1>1, <1>2, <1>3 DEF K!RevokedOnce, K!NoKey
<1>9. KeyMoves
  <2>1. \A x \in ApiKey : key[x] # K!NoKey => key[x].used \in Nat BY <1>0, KeyRows DEF KeysType
  <2> QED BY <1>5, <2>1 DEF KeyMoves
<1> QED BY <1>4, <1>7, <1>8, <1>9 DEF KeysInv

(* A request that begins has found its key.                                *)
LEMMA KeyCallBegins ==
  ASSUME KeysInv, NEW c \in Caller, NEW k \in ApiKey,
         K!RevokeStart(c, k) \/ \E required \in SUBSET Scope : K!ValidateRead(c, k, required)
  PROVE  KeysInv' /\ KeyMoves
<1>0. KeysType /\ CallsHaveKeys /\ K!RevokedOnce BY DEF KeysInv
<1>1. PICK q : call' = [call EXCEPT ![c] = q] /\ key[k] # K!NoKey
                  /\ \/ q = [at |-> "revoking", k |-> k, now |-> minute]
                     \/ q = [at |-> "granted", k |-> k, now |-> minute, used |-> key[k].used]
  <2> DEFINE revoking == [at |-> "revoking", k |-> k, now |-> minute]
             granted == [at |-> "granted", k |-> k, now |-> minute, used |-> key[k].used]
  <2>1. CASE K!RevokeStart(c, k)
    <3>1. call' = [call EXCEPT ![c] = revoking] /\ key[k] # K!NoKey BY <2>1 DEF K!RevokeStart
    <3> QED BY <3>1
  <2>2. CASE \E required \in SUBSET Scope : K!ValidateRead(c, k, required)
    <3>1. call' = [call EXCEPT ![c] = granted] /\ key[k].state = "live" BY <2>2 DEF K!ValidateRead
    <3>2. key[k] # K!NoKey BY <3>1 DEF K!NoKey
    <3> QED BY <3>1, <3>2
  <2> QED BY <2>1, <2>2
<1>2. UNCHANGED <<key, minute, revocations>> BY DEF K!RevokeStart, K!ValidateRead
<1>3. key[k] \in KeyRow /\ key[k].used \in Nat BY <1>0, <1>1, KeyRows DEF KeysType
<1>4. q \in KeyCall /\ q.k = k BY <1>0, <1>1, <1>3 DEF KeyCall, KeysType
<1>5. call' \in [Caller -> KeyCall] /\ \A x \in Caller : call'[x] = IF x = c THEN q ELSE call[x]
  BY <1>0, <1>1, <1>4 DEF KeysType
<1>6. KeysType' BY <1>0, <1>2, <1>5 DEF KeysType
<1>7. CallsHaveKeys' BY <1>0, <1>1, <1>2, <1>4, <1>5 DEF CallsHaveKeys
<1>8. \A x \in ApiKey : key[x] # K!NoKey => key[x].used \in Nat BY <1>0, KeyRows DEF KeysType
<1>9. KeyMoves BY <1>2, <1>8 DEF KeyMoves
<1> QED BY <1>0, <1>2, <1>6, <1>7, <1>9 DEF KeysInv, K!RevokedOnce

(* RecordUse: the condition of the update is what keeps the order.         *)
LEMMA RecordUseStep ==
  ASSUME KeysInv, NEW c \in Caller, K!RecordUse(c) \/ K!RecordUseFails(c)
  PROVE  KeysInv' /\ KeyMoves
<1> DEFINE k == call[c].k
           now == call[c].now
<1>0. KeysType /\ CallsHaveKeys /\ K!RevokedOnce BY DEF KeysInv
<1>1. call' = [call EXCEPT ![c] = K!NoCall] /\ UNCHANGED <<minute, revocations>>
  BY DEF K!RecordUse, K!RecordUseFails
<1>2. \/ key' = key
      \/ /\ key' = [key EXCEPT ![k].used = now] /\ key[k].state = "live"
         /\ key[k].used = K!Never \/ key[k].used + UseThrottle <= now
  BY DEF K!RecordUse, K!RecordUseFails
<1>3. k \in ApiKey /\ now \in Nat
  <2>1. call[c] \in KeyCall /\ call[c].at = "granted"
    BY <1>0 DEF KeysType, K!RecordUse, K!RecordUseFails
  <2>2. call[c] # K!NoCall BY <2>1 DEF K!NoCall
  <2> QED BY <2>1, <2>2, KeyCalls
<1> HIDE DEF k, now
<1>4. \A x \in ApiKey : key[x] # K!NoKey => key[x] \in KeyRow /\ key[x].used \in Nat
  BY <1>0, KeyRows DEF KeysType
<1>5. CASE key' = key
  <2>1. call' \in [Caller -> KeyCall] /\ CallsHaveKeys' BY <1>1, <1>5, CallEnds
  <2>2. KeyMoves BY <1>4, <1>5 DEF KeyMoves
  <2> QED BY <1>0, <1>1, <1>5, <2>1, <2>2 DEF KeysInv, KeysType, K!RevokedOnce
<1>6. CASE /\ key' = [key EXCEPT ![k].used = now] /\ key[k].state = "live"
           /\ key[k].used = K!Never \/ key[k].used + UseThrottle <= now
  <2> DEFINE row == [key[k] EXCEPT !.used = now]
  <2>1. key' = [key EXCEPT ![k] = row] BY <1>6
  <2>2. key[k] \in KeyRow BY <1>0, <1>3, <1>6, KeyRows DEF KeysType
  <2>3. row \in KeyRow /\ row.state = "live" /\ row.used = now BY <1>3, <1>6, <2>2 DEF KeyRow
  <2> HIDE DEF row
  <2>4. key' \in [ApiKey -> KeyRow \cup {K!NoKey}]
        /\ \A x \in ApiKey : key'[x] = IF x = k THEN row ELSE key[x]
    BY <1>0, <2>1, <2>3 DEF KeysType
  <2>5. row # K!NoKey BY <2>3 DEF K!NoKey
  <2>6. call' \in [Caller -> KeyCall] /\ CallsHaveKeys' BY <1>1, <2>4, <2>5, CallEnds
  <2>7. KeysType' BY <1>0, <1>1, <2>4, <2>6 DEF KeysType
  <2>8. K!RevokedOnce' BY <1>0, <1>1, <1>3, <1>6, <2>3, <2>4 DEF K!RevokedOnce
  <2>9. now >= key[k].used
    <3>1. key[k].used \in Nat /\ UseThrottle \in Nat
      BY <2>2, KeyRows, TenancyAssumption DEF K!ApiKeysAssumption
    <3> QED BY <1>3, <1>6, <3>1 DEF K!Never
  <2>10. KeyMoves
    <3> SUFFICES ASSUME NEW x \in ApiKey, key[x] # K!NoKey
                 PROVE  /\ key[x].state = "revoked" => key'[x] = key[x]
                        /\ key'[x].used >= key[x].used
      BY DEF KeyMoves
    <3>1. CASE x = k BY <1>6, <2>3, <2>4, <2>9, <3>1
    <3>2. CASE x # k BY <1>4, <2>4, <3>2
    <3> QED BY <3>1, <3>2
  <2> QED BY <2>6, <2>7, <2>8, <2>10 DEF KeysInv
<1> QED BY <1>2, <1>5, <1>6

(* Revoke: only the update that hits is audited.                           *)
LEMMA RevokeKeyStep ==
  ASSUME KeysInv, NEW c \in Caller, K!Revoke(c)
  PROVE  KeysInv' /\ KeyMoves
<1> DEFINE k == call[c].k
           now == call[c].now
<1>0. KeysType /\ CallsHaveKeys /\ K!RevokedOnce BY DEF KeysInv
<1>1. call' = [call EXCEPT ![c] = K!NoCall] /\ UNCHANGED minute /\ call[c].at = "revoking"
  BY DEF K!Revoke
<1>2. \/ key[k].state # "live" /\ UNCHANGED <<key, revocations>>
      \/ /\ key[k].state = "live"
         /\ key' = [key EXCEPT ![k].state = "revoked", ![k].revoked = now]
         /\ revocations' = [revocations EXCEPT ![k] = @ + 1]
  BY DEF K!Revoke
<1>3. k \in ApiKey /\ now \in Nat
  <2>1. call[c] \in KeyCall BY <1>0 DEF KeysType
  <2>2. call[c] # K!NoCall BY <1>1 DEF K!NoCall
  <2> QED BY <2>1, <2>2, KeyCalls
<1> HIDE DEF k, now
<1>4. \A x \in ApiKey : key[x] # K!NoKey => key[x] \in KeyRow /\ key[x].used \in Nat
  BY <1>0, KeyRows DEF KeysType
<1>5. CASE UNCHANGED <<key, revocations>>
  <2>1. call' \in [Caller -> KeyCall] /\ CallsHaveKeys' BY <1>1, <1>5, CallEnds
  <2>2. KeyMoves BY <1>4, <1>5 DEF KeyMoves
  <2> QED BY <1>0, <1>1, <1>5, <2>1, <2>2 DEF KeysInv, KeysType, K!RevokedOnce
<1>6. CASE /\ key[k].state = "live"
           /\ key' = [key EXCEPT ![k].state = "revoked", ![k].revoked = now]
           /\ revocations' = [revocations EXCEPT ![k] = @ + 1]
  <2> DEFINE row == [key[k] EXCEPT !.state = "revoked", !.revoked = now]
  <2>1. key[k] \in KeyRow BY <1>0, <1>3, <1>6, KeyRows DEF KeysType
  <2>2. key' = [key EXCEPT ![k] = row] BY <1>0, <1>3, <1>6 DEF KeysType
  <2>3. row \in KeyRow /\ row.state = "revoked" /\ row.used = key[k].used BY <1>3, <2>1 DEF KeyRow
  <2> HIDE DEF row
  <2>4. key' \in [ApiKey -> KeyRow \cup {K!NoKey}]
        /\ \A x \in ApiKey : key'[x] = IF x = k THEN row ELSE key[x]
    BY <1>0, <2>2, <2>3 DEF KeysType
  <2>5. row # K!NoKey BY <2>3 DEF K!NoKey
  <2>6. call' \in [Caller -> KeyCall] /\ CallsHaveKeys' BY <1>1, <2>4, <2>5, CallEnds
  <2>7. revocations[k] = 0 BY <1>0, <1>3, <1>6 DEF K!RevokedOnce
  <2>8. revocations' \in [ApiKey -> Nat]
        /\ \A x \in ApiKey : revocations'[x] = IF x = k THEN 1 ELSE revocations[x]
    BY <1>0, <1>3, <1>6, <2>7 DEF KeysType
  <2>9. KeysType' BY <1>0, <1>1, <2>4, <2>6, <2>8 DEF KeysType
  <2>10. K!RevokedOnce' BY <1>0, <1>3, <2>3, <2>4, <2>8 DEF K!RevokedOnce
  <2>11. KeyMoves
    <3> SUFFICES ASSUME NEW x \in ApiKey, key[x] # K!NoKey
                 PROVE  /\ key[x].state = "revoked" => key'[x] = key[x]
                        /\ key'[x].used >= key[x].used
      BY DEF KeyMoves
    <3>1. CASE x = k BY <1>4, <1>6, <2>3, <2>4, <3>1
    <3>2. CASE x # k BY <1>4, <2>4, <3>2
    <3> QED BY <3>1, <3>2
  <2> QED BY <2>6, <2>9, <2>10, <2>11 DEF KeysInv
<1> QED BY <1>2, <1>5, <1>6

(* One step of any component keeps the keys sound and moves them forward.  *)
LEMMA KeysStep == KeysInv /\ [Next]_vars => KeysInv' /\ [KeyMoves]_(K!apiKeysVars)
<1> SUFFICES ASSUME KeysInv, [Next]_vars PROVE KeysInv' /\ [KeyMoves]_(K!apiKeysVars)
  OBVIOUS
<1>1. CASE UNCHANGED keysVars
  BY <1>1 DEF keysVars, KeysInv, KeysType, CallsHaveKeys, K!RevokedOnce, K!apiKeysVars
<1>2. CASE K!ApiKeysNext
  <2>1. CASE K!MinutePasses
    <3>1. KeysType BY DEF KeysInv
    <3>2. UNCHANGED <<key, call, revocations>> /\ minute' \in Nat
      BY <2>1, <3>1 DEF K!MinutePasses, KeysType
    <3>3. \A x \in ApiKey : key[x] # K!NoKey => key[x].used \in Nat BY <3>1, KeyRows DEF KeysType
    <3>4. KeyMoves BY <3>2, <3>3 DEF KeyMoves
    <3> QED BY <3>2, <3>4 DEF KeysInv, KeysType, CallsHaveKeys, K!RevokedOnce
  <2>2. CASE K!KeyHandler
    BY <2>2, CreateKeyStep, KeyCallBegins, RevokeKeyStep DEF K!KeyHandler
  <2>3. ASSUME NEW c \in Caller, K!KeyAuth(c) PROVE KeysInv' /\ KeyMoves
    BY <2>3, KeyCallBegins, RecordUseStep DEF K!KeyAuth
  <2> QED BY <1>2, <2>1, <2>2, <2>3 DEF K!ApiKeysNext
<1> QED BY <1>1, <1>2 DEF Next, vars, OrganizationScene, AccountsScene, PermissionsScene, KeysScene,
                          OperatorsScene, ConsoleScene

(* A key is audited as revoked exactly once and stays as it was revoked,   *)
(* and its last use never moves back, however many requests overlap        *)
(* (Validate, RecordUse, Revoke).                                          *)
THEOREM ApiKeysAreSound == Spec => ApiKeysSound
<1>1. KeysInv => K!RevokedOnce BY DEF KeysInv
<1> QED BY <1>1, KeysStart, KeysStep, PTL DEF Spec, ApiKeysSound, K!KeysOnlyForward, KeyMoves

(***************************************************************************)
(* Permissions.                                                            *)
(***************************************************************************)

GrantTx == [op : {"create", "update", "delete", "assign"}, actor : Member \cup {Boss},
            roles : SUBSET AccessRole, held : SUBSET Permission]

PermissionsType ==
  /\ grants \in [AccessRole -> (SUBSET Permission) \cup {P!Absent}]
  /\ assigned \in [Member -> SUBSET AccessRole]
  /\ grant \in [Desk -> GrantTx \cup {P!NoGrant}]

(* What a transaction under way has read of its actor is still true: its   *)
(* rows are locked.                                                        *)
ReadIsFresh(d) ==
  /\ grant[d].actor = Boss => grant[d].held = Permission
  /\ grant[d].actor # Boss =>
       grant[d].roles = assigned[grant[d].actor] /\ grant[d].held = P!Effective(grant[d].actor)
ReadsAreFresh == \A d \in Desk : grant[d] # P!NoGrant => ReadIsFresh(d)

PermissionsInv == PermissionsType /\ P!AssignedRolesExist /\ ReadsAreFresh

(* What a step may do: who ends a transaction gives away only what they    *)
(* have.                                                                   *)
NobodyEscalates == \A d \in Desk : grant[d] # P!NoGrant /\ grant'[d] = P!NoGrant =>
  P!Gained \subseteq P!Effective(grant[d].actor)

(* There are no roles at first.                                            *)
LEMMA PermissionsStart == Init => PermissionsInv
BY DEF Init, P!PermissionsInit, PermissionsInv, PermissionsType, P!AssignedRolesExist, ReadsAreFresh,
       P!Roles

(* A set of permissions is not the mark of an absent role.                 *)
LEMMA PresentRoles ==
  ASSUME NEW p \in SUBSET Permission PROVE p # P!Absent
BY TenancyAssumption DEF P!PermissionsAssumption, P!Absent

(* The permissions of a member are those of its roles, all of them known.  *)
LEMMA EffectiveOf ==
  ASSUME PermissionsType, P!AssignedRolesExist, NEW m \in Member
  PROVE  /\ m # Boss
         /\ P!Effective(m) = UNION {grants[r] : r \in assigned[m]}
         /\ P!Effective(m) \subseteq Permission
         /\ \A r \in assigned[m] : r \in AccessRole /\ grants[r] \in SUBSET Permission
<1>1. m # Boss BY TenancyAssumption DEF P!PermissionsAssumption
<1>2. P!Effective(m) = UNION {grants[r] : r \in assigned[m]} BY <1>1 DEF P!Effective
<1>3. \A r \in assigned[m] : r \in AccessRole /\ grants[r] \in SUBSET Permission
  BY DEF PermissionsType, P!AssignedRolesExist, P!Roles
<1> QED BY <1>1, <1>2, <1>3

(* What a transaction says of its actor.                                   *)
LEMMA ActorHolds ==
  ASSUME PermissionsInv, NEW d \in Desk, grant[d].op # "none"
  PROVE  /\ grant[d] \in GrantTx /\ grant[d] # P!NoGrant
         /\ grant[d].held = P!Effective(grant[d].actor)
         /\ grant[d].actor = Boss => P!Effective(grant[d].actor) = Permission
<1>1. grant[d] \in GrantTx /\ grant[d] # P!NoGrant
  BY DEF PermissionsInv, PermissionsType, P!NoGrant
<1>2. ReadIsFresh(d) BY <1>1 DEF PermissionsInv, ReadsAreFresh
<1> QED BY <1>1, <1>2 DEF ReadIsFresh, P!Effective

(* What the giver dominates the giver holds.                               *)
LEMMA DominatedIsHeld ==
  ASSUME PermissionsInv, NEW d \in Desk, grant[d].op # "none", NEW p \in SUBSET Permission,
         P!Dominates(grant[d].actor, grant[d].held, p)
  PROVE  p \subseteq P!Effective(grant[d].actor)
BY ActorHolds DEF P!Dominates

(* Other transactions keep their fresh reads when neither the roles they   *)
(* hold nor the assignments of their actors change.                        *)
LEMMA OthersStayFresh ==
  ASSUME PermissionsInv, NEW d \in Desk, grant' = [grant EXCEPT ![d] = P!NoGrant],
         PermissionsType', P!AssignedRolesExist',
         \A e \in Desk \ {d} : grant[e] # P!NoGrant /\ grant[e].actor # Boss =>
           /\ assigned'[grant[e].actor] = assigned[grant[e].actor]
           /\ \A r \in assigned[grant[e].actor] : grants'[r] = grants[r]
  PROVE  PermissionsInv'
<1>1. \A e \in Desk : grant'[e] = IF e = d THEN P!NoGrant ELSE grant[e]
  BY DEF PermissionsInv, PermissionsType
<1>2. ASSUME NEW e \in Desk, grant'[e] # P!NoGrant PROVE ReadIsFresh(e)'
  <2>1. e # d /\ grant'[e] = grant[e] /\ grant[e] # P!NoGrant BY <1>1, <1>2
  <2>2. grant[e] \in GrantTx /\ ReadIsFresh(e)
    BY <2>1 DEF PermissionsInv, PermissionsType, ReadsAreFresh
  <2>3. grant[e].actor \in Member \cup {Boss} BY <2>2 DEF GrantTx
  <2>4. CASE grant[e].actor = Boss BY <2>1, <2>2, <2>4 DEF ReadIsFresh
  <2>5. CASE grant[e].actor # Boss
    <3> DEFINE m == grant[e].actor
    <3>1. assigned'[m] = assigned[m] /\ \A r \in assigned[m] : grants'[r] = grants[r]
      BY <2>1, <2>5
    <3>2. {grants'[r] : r \in assigned'[m]} = {grants[r] : r \in assigned[m]} BY <3>1
    <3>3. P!Effective(m)' = UNION {grants'[r] : r \in assigned'[m]}
          /\ P!Effective(m) = UNION {grants[r] : r \in assigned[m]}
      BY <2>1, <2>5 DEF P!Effective
    <3>4. P!Effective(m)' = P!Effective(m) BY <3>2, <3>3
    <3>5. m' = m BY <2>1
    <3> HIDE DEF m
    <3>6. grant[e].roles = assigned[m] /\ grant[e].held = P!Effective(m)
      BY <2>2, <2>5 DEF ReadIsFresh, m
    <3> QED BY <2>1, <2>5, <3>1, <3>4, <3>6 DEF ReadIsFresh, m
  <2> QED BY <2>4, <2>5
<1> QED BY <1>2 DEF PermissionsInv, ReadsAreFresh

(* Only the transaction that ends is asked what was gained.                *)
LEMMA OneEnds ==
  ASSUME PermissionsInv, NEW d \in Desk, grant' = [grant EXCEPT ![d] = P!NoGrant],
         \A m \in Member : P!Effective(m)' \subseteq P!Effective(m) \cup P!Effective(grant[d].actor)
  PROVE  NobodyEscalates
<1>1. \A e \in Desk : grant'[e] = IF e = d THEN P!NoGrant ELSE grant[e]
  BY DEF PermissionsInv, PermissionsType
<1>2. P!Gained \subseteq P!Effective(grant[d].actor) BY DEF P!Gained
<1> QED BY <1>1, <1>2 DEF NobodyEscalates

(* withAuthorizedTransaction.                                              *)
LEMMA AuthorizeStep ==
  ASSUME PermissionsInv, NEW d \in Desk, NEW op \in {"create", "update", "delete", "assign"},
         NEW m \in Member \cup {Boss}, P!Authorize(d, op, m)
  PROVE  PermissionsInv' /\ NobodyEscalates
<1> DEFINE roles == IF m = Boss THEN {} ELSE assigned[m]
           held == P!Effective(m)
           tx == [op |-> op, actor |-> m, roles |-> roles, held |-> held]
<1>0. PermissionsType /\ P!AssignedRolesExist /\ ReadsAreFresh BY DEF PermissionsInv
<1>1. grant[d] = P!NoGrant /\ grant' = [grant EXCEPT ![d] = tx] /\ UNCHANGED <<grants, assigned>>
  BY DEF P!Authorize
<1>2. roles \in SUBSET AccessRole /\ held \in SUBSET Permission
  <2>1. CASE m = Boss BY <2>1 DEF P!Effective
  <2>2. CASE m # Boss BY <1>0, <2>2, EffectiveOf DEF PermissionsType
  <2> QED BY <2>1, <2>2
<1>3. (m = Boss => held = Permission) /\ (m # Boss => roles = assigned[m] /\ held = P!Effective(m))
  BY DEF P!Effective
<1> HIDE DEF roles, held
<1>4. tx \in GrantTx /\ tx # P!NoGrant /\ tx.actor = m /\ tx.roles = roles /\ tx.held = held
  BY <1>2 DEF GrantTx, P!NoGrant
<1> HIDE DEF tx
<1>5. /\ grant' \in [Desk -> GrantTx \cup {P!NoGrant}]
      /\ \A e \in Desk : grant'[e] = IF e = d THEN tx ELSE grant[e]
  BY <1>0, <1>1, <1>4 DEF PermissionsType
<1>6. ASSUME NEW e \in Desk, grant'[e] # P!NoGrant PROVE ReadIsFresh(e)'
  <2>1. \A x : P!Effective(x)' = P!Effective(x) BY <1>1 DEF P!Effective
  <2>2. CASE e = d
    <3>1. grant'[e].actor = m /\ grant'[e].roles = roles /\ grant'[e].held = held BY <1>4, <1>5, <2>2
    <3>2. P!Effective(grant[e].actor)' = P!Effective(m) BY <1>1, <3>1 DEF P!Effective
    <3>3. assigned'[grant'[e].actor] = assigned[m] BY <1>1, <3>1
    <3> QED BY <1>3, <3>1, <3>2, <3>3 DEF ReadIsFresh
  <2>3. CASE e # d
    <3>1. grant'[e] = grant[e] BY <1>5, <2>3
    <3>2. ReadIsFresh(e) BY <1>0, <1>6, <3>1 DEF ReadsAreFresh
    <3> QED BY <1>1, <2>1, <3>1, <3>2 DEF ReadIsFresh
  <2> QED BY <2>2, <2>3
<1>7. PermissionsInv'
  BY <1>0, <1>1, <1>5, <1>6 DEF PermissionsInv, PermissionsType, ReadsAreFresh, P!AssignedRolesExist,
                                P!Roles
<1>8. NobodyEscalates BY <1>1, <1>4, <1>5 DEF NobodyEscalates
<1> QED BY <1>7, <1>8

(* CreateRole: nobody has the role yet.                                    *)
LEMMA CreateRoleStep ==
  ASSUME PermissionsInv, NEW d \in Desk, NEW r \in AccessRole, NEW p \in SUBSET Permission,
         P!CreateRole(d, r, p)
  PROVE  PermissionsInv' /\ NobodyEscalates
<1>0. PermissionsType /\ P!AssignedRolesExist /\ ReadsAreFresh BY DEF PermissionsInv
<1>1. /\ grant[d].op = "create" /\ grants[r] = P!Absent /\ grants' = [grants EXCEPT ![r] = p]
      /\ grant' = [grant EXCEPT ![d] = P!NoGrant] /\ UNCHANGED assigned
  BY DEF P!CreateRole, P!Ends
<1>2. \A x \in AccessRole : grants'[x] = IF x = r THEN p ELSE grants[x] BY <1>0, <1>1 DEF PermissionsType
<1>3. PermissionsType' BY <1>0, <1>1 DEF PermissionsType
<1>4. \A m \in Member : r \notin assigned[m] /\ assigned[m] \subseteq AccessRole
  BY <1>0, <1>1 DEF P!AssignedRolesExist, P!Roles
<1>5. P!AssignedRolesExist' BY <1>0, <1>1, <1>2, <1>4 DEF P!AssignedRolesExist, P!Roles
<1>6. \A m \in Member : \A x \in assigned[m] : grants'[x] = grants[x] BY <1>2, <1>4
<1>7. \A e \in Desk : grant[e] # P!NoGrant => grant[e].actor \in Member \cup {Boss}
  BY <1>0 DEF PermissionsType, GrantTx
<1>8. PermissionsInv' BY <1>1, <1>3, <1>5, <1>6, <1>7, OthersStayFresh
<1>9. ASSUME NEW m \in Member PROVE P!Effective(m)' = P!Effective(m)
  <2>1. {grants'[x] : x \in assigned'[m]} = {grants[x] : x \in assigned[m]} BY <1>1, <1>6
  <2>2. m # Boss BY TenancyAssumption DEF P!PermissionsAssumption
  <2> QED BY <2>1, <2>2 DEF P!Effective
<1> QED BY <1>1, <1>8, <1>9, OneEnds

(* UpdateRole: those who have the role gain what the giver holds.          *)
LEMMA UpdateRoleStep ==
  ASSUME PermissionsInv, NEW d \in Desk, NEW r \in AccessRole, NEW p \in SUBSET Permission,
         P!UpdateRole(d, r, p)
  PROVE  PermissionsInv' /\ NobodyEscalates
<1>0. PermissionsType /\ P!AssignedRolesExist /\ ReadsAreFresh BY DEF PermissionsInv
<1>1. /\ grant[d].op = "update" /\ r \in P!Roles /\ P!Unlocked(d, {}, {r})
      /\ P!Dominates(grant[d].actor, grant[d].held, grants[r] \cup p)
      /\ grants' = [grants EXCEPT ![r] = p]
      /\ grant' = [grant EXCEPT ![d] = P!NoGrant] /\ UNCHANGED assigned
  BY DEF P!UpdateRole, P!Ends
<1>2. \A x \in AccessRole : grants'[x] = IF x = r THEN p ELSE grants[x] BY <1>0, <1>1 DEF PermissionsType
<1>3. PermissionsType' BY <1>0, <1>1 DEF PermissionsType
<1>4. P!AssignedRolesExist' BY <1>0, <1>1, <1>2, PresentRoles DEF P!AssignedRolesExist, P!Roles
<1>5. \A e \in Desk : grant[e] # P!NoGrant => grant[e] \in GrantTx BY <1>0 DEF PermissionsType
<1>6. ASSUME NEW e \in Desk \ {d}, grant[e] # P!NoGrant, grant[e].actor # Boss
      PROVE  \A x \in assigned[grant[e].actor] : grants'[x] = grants[x]
  <2>1. grant[e].roles = assigned[grant[e].actor] BY <1>0, <1>6 DEF ReadsAreFresh, ReadIsFresh
  <2>2. grant[e].op # "none" /\ grant[e].actor \in Member BY <1>5, <1>6 DEF GrantTx
  <2>3. r \notin grant[e].roles BY <1>1, <2>2 DEF P!Unlocked, P!LockedRoles
  <2> QED BY <1>0, <1>2, <2>1, <2>2, <2>3 DEF PermissionsType
<1>7. PermissionsInv' BY <1>1, <1>3, <1>4, <1>6, OthersStayFresh
<1>8. p \subseteq P!Effective(grant[d].actor)
  <2>1. P!Dominates(grant[d].actor, grant[d].held, p) BY <1>1 DEF P!Dominates
  <2> QED BY <1>1, <2>1, DominatedIsHeld
<1>9. ASSUME NEW m \in Member
      PROVE  P!Effective(m)' \subseteq P!Effective(m) \cup P!Effective(grant[d].actor)
  <2>1. m # Boss BY TenancyAssumption DEF P!PermissionsAssumption
  <2>2. P!Effective(m)' = UNION {grants'[x] : x \in assigned[m]}
        /\ P!Effective(m) = UNION {grants[x] : x \in assigned[m]}
    BY <1>1, <2>1 DEF P!Effective
  <2>3. \A x \in assigned[m] : grants'[x] = p \/ grants'[x] = grants[x]
    BY <1>0, <1>2 DEF PermissionsType
  <2> QED BY <1>8, <2>2, <2>3
<1> QED BY <1>1, <1>7, <1>9, OneEnds

(* DeleteRole: the assignments go with the role.                           *)
LEMMA DeleteRoleStep ==
  ASSUME PermissionsInv, NEW d \in Desk, NEW r \in AccessRole, P!DeleteRole(d, r)
  PROVE  PermissionsInv' /\ NobodyEscalates
<1>0. PermissionsType /\ P!AssignedRolesExist /\ ReadsAreFresh BY DEF PermissionsInv
<1>1. /\ grant[d].op = "delete" /\ r \in P!Roles /\ P!Unlocked(d, {}, {r})
      /\ grants' = [grants EXCEPT ![r] = P!Absent]
      /\ assigned' = [m \in Member |-> assigned[m] \ {r}]
      /\ grant' = [grant EXCEPT ![d] = P!NoGrant]
  BY DEF P!DeleteRole, P!Ends
<1>2. /\ \A x \in AccessRole : grants'[x] = IF x = r THEN P!Absent ELSE grants[x]
      /\ \A m \in Member : assigned'[m] = assigned[m] \ {r}
  BY <1>0, <1>1 DEF PermissionsType
<1>3. PermissionsType' BY <1>0, <1>1 DEF PermissionsType
<1>4. P!AssignedRolesExist' BY <1>0, <1>2 DEF P!AssignedRolesExist, P!Roles
<1>5. \A e \in Desk : grant[e] # P!NoGrant => grant[e] \in GrantTx BY <1>0 DEF PermissionsType
<1>6. ASSUME NEW e \in Desk \ {d}, grant[e] # P!NoGrant, grant[e].actor # Boss
      PROVE  /\ assigned'[grant[e].actor] = assigned[grant[e].actor]
             /\ \A x \in assigned[grant[e].actor] : grants'[x] = grants[x]
  <2>1. grant[e].roles = assigned[grant[e].actor] BY <1>0, <1>6 DEF ReadsAreFresh, ReadIsFresh
  <2>2. grant[e].op # "none" /\ grant[e].actor \in Member BY <1>5, <1>6 DEF GrantTx
  <2>3. r \notin grant[e].roles BY <1>1, <2>2 DEF P!Unlocked, P!LockedRoles
  <2>4. assigned[grant[e].actor] \in SUBSET AccessRole BY <1>0, <2>2 DEF PermissionsType
  <2>5. assigned'[grant[e].actor] = assigned[grant[e].actor] \ {r} BY <1>2, <2>2
  <2>6. assigned'[grant[e].actor] = assigned[grant[e].actor] BY <2>1, <2>3, <2>5
  <2> QED BY <1>2, <2>1, <2>3, <2>4, <2>6
<1>7. PermissionsInv' BY <1>1, <1>3, <1>4, <1>6, OthersStayFresh
<1>9. ASSUME NEW m \in Member PROVE P!Effective(m)' \subseteq P!Effective(m)
  <2>1. m # Boss BY TenancyAssumption DEF P!PermissionsAssumption
  <2>2. P!Effective(m)' = UNION {grants'[x] : x \in assigned'[m]}
        /\ P!Effective(m) = UNION {grants[x] : x \in assigned[m]}
    BY <2>1 DEF P!Effective
  <2>3. \A x \in assigned'[m] : x \in assigned[m] /\ grants'[x] = grants[x]
    BY <1>0, <1>2 DEF PermissionsType
  <2> QED BY <2>2, <2>3
<1> QED BY <1>1, <1>7, <1>9, OneEnds

(* ReplaceMemberRoles: the member gains roles whose permissions the giver  *)
(* holds.                                                                  *)
LEMMA ReplaceRolesStep ==
  ASSUME PermissionsInv, NEW d \in Desk, NEW m \in Member, NEW roles \in SUBSET AccessRole,
         P!ReplaceMemberRoles(d, m, roles)
  PROVE  PermissionsInv' /\ NobodyEscalates
<1> DEFINE p == UNION {grants[r] : r \in roles}
<1>0. PermissionsType /\ P!AssignedRolesExist /\ ReadsAreFresh BY DEF PermissionsInv
<1>1. /\ grant[d].op = "assign" /\ roles \subseteq P!Roles /\ P!Unlocked(d, {m}, assigned[m] \cup roles)
      /\ P!Dominates(grant[d].actor, grant[d].held, UNION {grants[r] : r \in assigned[m] \cup roles})
      /\ assigned' = [assigned EXCEPT ![m] = roles]
      /\ grant' = [grant EXCEPT ![d] = P!NoGrant] /\ UNCHANGED grants
  BY DEF P!ReplaceMemberRoles, P!Ends
<1>2. \A x \in Member : assigned'[x] = IF x = m THEN roles ELSE assigned[x]
  BY <1>0, <1>1 DEF PermissionsType
<1>3. PermissionsType' BY <1>0, <1>1 DEF PermissionsType
<1>4. P!AssignedRolesExist' BY <1>0, <1>1, <1>2 DEF P!AssignedRolesExist, P!Roles
<1>5. \A e \in Desk : grant[e] # P!NoGrant => grant[e] \in GrantTx BY <1>0 DEF PermissionsType
<1>6. ASSUME NEW e \in Desk \ {d}, grant[e] # P!NoGrant, grant[e].actor # Boss
      PROVE  assigned'[grant[e].actor] = assigned[grant[e].actor]
  <2>2. grant[e].op # "none" /\ grant[e].actor \in Member BY <1>5, <1>6 DEF GrantTx
  <2>3. m # grant[e].actor BY <1>1, <2>2 DEF P!Unlocked, P!LockedMembers
  <2> QED BY <1>2, <2>2, <2>3
<1>7. PermissionsInv' BY <1>1, <1>3, <1>4, <1>6, OthersStayFresh
<1>8. p \subseteq P!Effective(grant[d].actor)
  <2>1. p \in SUBSET Permission BY <1>0, <1>1 DEF PermissionsType, P!Roles
  <2>2. P!Dominates(grant[d].actor, grant[d].held, p) BY <1>1 DEF P!Dominates
  <2> QED BY <1>1, <2>1, <2>2, DominatedIsHeld
<1>9. ASSUME NEW x \in Member
      PROVE  P!Effective(x)' \subseteq P!Effective(x) \cup P!Effective(grant[d].actor)
  <2>1. x # Boss BY TenancyAssumption DEF P!PermissionsAssumption
  <2>2. P!Effective(x)' = UNION {grants[y] : y \in assigned'[x]}
        /\ P!Effective(x) = UNION {grants[y] : y \in assigned[x]}
    BY <1>1, <2>1 DEF P!Effective
  <2>3. CASE x = m BY <1>2, <1>8, <2>2, <2>3
  <2>4. CASE x # m BY <1>2, <2>2, <2>4
  <2> QED BY <2>3, <2>4
<1> QED BY <1>1, <1>7, <1>9, OneEnds

(* A member leaves; nobody's transaction holds its row.                    *)
LEMMA MemberLeavesStep ==
  ASSUME PermissionsInv, NEW m \in Member, P!MemberLeaves(m)
  PROVE  PermissionsInv' /\ NobodyEscalates
<1>0. PermissionsType /\ P!AssignedRolesExist /\ ReadsAreFresh BY DEF PermissionsInv
<1>1. /\ \A d \in Desk : m \notin P!LockedMembers(grant[d])
      /\ assigned' = [assigned EXCEPT ![m] = {}] /\ UNCHANGED <<grants, grant>>
  BY DEF P!MemberLeaves
<1>2. \A x \in Member : assigned'[x] = IF x = m THEN {} ELSE assigned[x]
  BY <1>0, <1>1 DEF PermissionsType
<1>3. PermissionsType' BY <1>0, <1>1 DEF PermissionsType
<1>4. P!AssignedRolesExist' BY <1>0, <1>1, <1>2 DEF P!AssignedRolesExist, P!Roles
<1>5. ASSUME NEW e \in Desk, grant[e] # P!NoGrant PROVE ReadIsFresh(e)'
  <2>1. grant[e] \in GrantTx /\ ReadIsFresh(e)
    BY <1>0, <1>5 DEF PermissionsType, ReadsAreFresh
  <2>2. grant[e].actor \in Member \cup {Boss} /\ grant[e].op # "none" BY <2>1 DEF GrantTx
  <2>3. grant[e].actor # m BY <1>1, <2>2 DEF P!LockedMembers
  <2>4. grant[e].actor # Boss => assigned'[grant[e].actor] = assigned[grant[e].actor]
    BY <1>2, <2>2, <2>3
  <2> QED BY <1>1, <2>1, <2>4 DEF ReadIsFresh, P!Effective
<1>6. PermissionsInv' BY <1>1, <1>3, <1>4, <1>5 DEF PermissionsInv, ReadsAreFresh
<1> QED BY <1>1, <1>6 DEF NobodyEscalates

(* A transaction that is given up changes nothing.                         *)
LEMMA GiveUpGrantStep ==
  ASSUME PermissionsInv, NEW d \in Desk, P!GiveUpGrant(d)
  PROVE  PermissionsInv' /\ NobodyEscalates
<1>0. PermissionsType /\ P!AssignedRolesExist /\ ReadsAreFresh BY DEF PermissionsInv
<1>1. grant' = [grant EXCEPT ![d] = P!NoGrant] /\ UNCHANGED <<grants, assigned>>
  BY DEF P!GiveUpGrant, P!Ends
<1>2. PermissionsType' BY <1>0, <1>1 DEF PermissionsType
<1>3. P!AssignedRolesExist' BY <1>0, <1>1 DEF P!AssignedRolesExist, P!Roles
<1>4. PermissionsInv' BY <1>1, <1>2, <1>3, OthersStayFresh
<1>5. \A m \in Member : P!Effective(m)' = P!Effective(m) BY <1>1 DEF P!Effective
<1> QED BY <1>1, <1>4, <1>5, OneEnds

(* One step of any component keeps the permissions sound, and nobody is    *)
(* given more than the giver holds.                                        *)
LEMMA PermissionsStep ==
  PermissionsInv /\ [Next]_vars => PermissionsInv' /\ [NobodyEscalates]_(P!permissionsVars)
<1> SUFFICES ASSUME PermissionsInv, [Next]_vars
             PROVE  PermissionsInv' /\ [NobodyEscalates]_(P!permissionsVars)
  OBVIOUS
<1>1. CASE UNCHANGED permissionsVars
  <2>1. UNCHANGED <<grants, assigned, grant>> BY <1>1 DEF permissionsVars
  <2>2. \A d : P!Effective(grant[d].actor)' = P!Effective(grant[d].actor) BY <2>1 DEF P!Effective
  <2>3. ReadsAreFresh' BY <2>1, <2>2 DEF PermissionsInv, ReadsAreFresh, ReadIsFresh
  <2>4. PermissionsInv'
    BY <2>1, <2>3 DEF PermissionsInv, PermissionsType, P!AssignedRolesExist, P!Roles
  <2> QED BY <2>1, <2>4 DEF P!permissionsVars
<1>2. CASE P!PermissionsNext
  BY <1>2, AuthorizeStep, CreateRoleStep, UpdateRoleStep, DeleteRoleStep, ReplaceRolesStep,
     MemberLeavesStep, GiveUpGrantStep DEF P!PermissionsNext, P!RoleRequest, P!AssignRequest
<1> QED BY <1>1, <1>2 DEF Next, vars, OrganizationScene, AccountsScene, PermissionsScene, KeysScene,
                          OperatorsScene, ConsoleScene

(* Every assigned role exists, and a member gains a permission only from   *)
(* someone who holds it at that moment, for any number of overlapping      *)
(* transactions (ReplaceMemberRoles, UpdateRole, DeleteRole, CreateRole).  *)
THEOREM PermissionsAreSound == Spec => PermissionsSound
<1>1. PermissionsInv => (scene = "permissions" => P!AssignedRolesExist) BY DEF PermissionsInv
<1> QED BY <1>1, PermissionsStart, PermissionsStep, PTL
        DEF Spec, PermissionsSound, P!NoEscalation, NobodyEscalates

(***************************************************************************)
(* Organizations.                                                          *)
(***************************************************************************)

MemberOp == {"change", "remove", "transfer"}
MemberTx == [op : MemberOp, actor : Person, target : Person, to : O!CanBeInvited, locked : BOOLEAN]
InviteTx == [op : {"invite"}, email : Person, to : O!CanBeInvited]
RevokeTx == [op : {"revoke"}, i : Invitation]
AcceptTx == [op : {"accept"}, i : Invitation, user : Person, locked : BOOLEAN]
DeleteTx == [op : {"delete"}, user : Person]
ClerkTx == {O!Free} \cup MemberTx \cup InviteTx \cup RevokeTx \cup AcceptTx \cup DeleteTx

InviteRow == [state : {"pending", "accepted", "revoked", "replaced"}, email : Person,
              to : O!CanBeInvited, expired : BOOLEAN]

OrganizationType ==
  /\ role \in [Person -> {"none", "member", "admin", "owner"}]
  /\ gone \subseteq Person
  /\ invite \in [Invitation -> InviteRow \cup {O!NoInvite}]
  /\ clerk \in [Clerk -> ClerkTx]

(* A row is locked by one transaction.                                     *)
Apart(tx, other) ==
  /\ O!HeldMembers(tx) \cap O!HeldMembers(other) = {}
  /\ O!HeldUsers(tx) \cap O!HeldUsers(other) = {}
LocksAreExclusive == \A c, d \in Clerk : c # d => Apart(clerk[c], clerk[d])

(* What a transaction has checked under its locks, with the roles r and    *)
(* the deleted accounts g: the actor is a member, the owner where only the *)
(* owner may act, and so is a locked target; who accepts has an account,   *)
(* and who is being deleted is no member.                                  *)
ChecksHold(tx, r, g) ==
  /\ tx.op \in MemberOp => r[tx.actor] # "none" /\ (tx.locked => r[tx.target] # "none")
  /\ tx.op \in {"change", "transfer"} => r[tx.actor] = "owner"
  /\ tx.op = "accept" => (tx.locked => tx.user \notin g)
  /\ tx.op = "delete" => r[tx.user] = "none"
AllChecksHold == \A c \in Clerk : ChecksHold(clerk[c], role, gone)

OrganizationInv ==
  /\ OrganizationType /\ LocksAreExclusive /\ AllChecksHold
  /\ O!OneOwner /\ O!NoMemberIsGone

(* What a step may do to an invitation.                                    *)
DecidedStays == \A i \in Invitation : invite[i].state \in {"accepted", "revoked", "replaced"} =>
  invite'[i].state = invite[i].state

(* The founder is the owner and the only member.                           *)
LEMMA OrganizationStart == Init => OrganizationInv
<1> SUFFICES ASSUME Init PROVE OrganizationInv
  OBVIOUS
<1> DEFINE founder == CHOOSE u \in Person : TRUE
<1>1. founder \in Person BY TenancyAssumption DEF O!OrganizationAssumption
<1>2. /\ role = [p \in Person |-> IF p = founder THEN "owner" ELSE "none"]
      /\ gone = {} /\ invite = [i \in Invitation |-> O!NoInvite] /\ clerk = [c \in Clerk |-> O!Free]
  BY DEF Init, O!OrganizationInit
<1> HIDE DEF founder
<1>3. OrganizationType BY <1>2 DEF OrganizationType, ClerkTx
<1>4. O!HeldMembers(O!Free) = {} /\ O!HeldUsers(O!Free) = {} /\ O!Free.op = "free"
  BY DEF O!HeldMembers, O!HeldUsers, O!Free
<1>5. LocksAreExclusive BY <1>2, <1>4 DEF LocksAreExclusive, Apart
<1>6. AllChecksHold BY <1>2, <1>4 DEF AllChecksHold, ChecksHold, MemberOp
<1>7. O!OneOwner
  <2>1. \A p \in Person : role[p] = "owner" <=> p = founder BY <1>2
  <2> QED BY <1>1, <1>2, <2>1 DEF O!OneOwner
<1> QED BY <1>2, <1>3, <1>5, <1>6, <1>7 DEF OrganizationInv, O!NoMemberIsGone

(* The shapes of a transaction.                                            *)
LEMMA ClerkShapes ==
  ASSUME NEW tx \in ClerkTx
  PROVE  /\ tx.op \in {"free", "change", "remove", "transfer", "invite", "revoke", "accept", "delete"}
         /\ tx.op \in MemberOp <=> tx \in MemberTx
         /\ tx.op = "invite" <=> tx \in InviteTx
         /\ tx.op = "revoke" <=> tx \in RevokeTx
         /\ tx.op = "accept" <=> tx \in AcceptTx
         /\ tx.op = "delete" <=> tx \in DeleteTx
         /\ tx.op = "free" <=> tx = O!Free
BY DEF ClerkTx, MemberTx, InviteTx, RevokeTx, AcceptTx, DeleteTx, O!Free, MemberOp

(* The rows a transaction holds, by its shape.                             *)
LEMMA Held ==
  ASSUME NEW tx \in ClerkTx
  PROVE  /\ tx.op \in MemberOp =>
              /\ O!HeldMembers(tx) = IF tx.locked THEN {tx.actor, tx.target} ELSE {tx.actor}
              /\ O!HeldUsers(tx) = {}
         /\ tx.op \notin MemberOp => O!HeldMembers(tx) = {}
         /\ tx.op = "delete" => O!HeldUsers(tx) = {tx.user}
         /\ tx.op = "accept" => O!HeldUsers(tx) = IF tx.locked THEN {tx.user} ELSE {}
         /\ tx.op \notin {"accept", "delete"} => O!HeldUsers(tx) = {}
<1>1. CASE tx.op \in MemberOp BY <1>1 DEF O!HeldMembers, O!HeldUsers, MemberOp
<1>2. CASE tx.op = "delete" BY <1>2 DEF O!HeldMembers, O!HeldUsers, MemberOp
<1>3. CASE tx.op = "accept"
  <2>1. tx.locked \in BOOLEAN BY <1>3, ClerkShapes DEF AcceptTx
  <2> QED BY <1>3, <2>1 DEF O!HeldMembers, O!HeldUsers, MemberOp
<1>4. CASE tx.op \in {"free", "invite", "revoke"} BY <1>4 DEF O!HeldMembers, O!HeldUsers, MemberOp
<1> QED BY <1>1, <1>2, <1>3, <1>4, ClerkShapes DEF MemberOp

(* A clerk with nothing to do.                                             *)
LEMMA FreeHoldsNothing ==
  /\ O!Free \in ClerkTx /\ O!HeldMembers(O!Free) = {} /\ O!HeldUsers(O!Free) = {}
  /\ \A r, g : ChecksHold(O!Free, r, g)
<1>1. O!Free \in ClerkTx /\ O!Free.op = "free" BY DEF ClerkTx, O!Free
<1> QED BY <1>1, Held DEF ChecksHold, MemberOp

(* One clerk moves: its locks stay apart from those of the others.         *)
LEMMA OneClerkMoves ==
  ASSUME OrganizationInv, NEW c \in Clerk, NEW tx \in ClerkTx, clerk' = [clerk EXCEPT ![c] = tx],
         \A d \in Clerk \ {c} : Apart(tx, clerk[d])
  PROVE  /\ clerk' \in [Clerk -> ClerkTx] /\ LocksAreExclusive'
         /\ \A d \in Clerk : clerk'[d] = IF d = c THEN tx ELSE clerk[d]
<1>1. \A d \in Clerk : clerk'[d] = IF d = c THEN tx ELSE clerk[d]
  BY DEF OrganizationInv, OrganizationType
<1>2. \A x, y : Apart(x, y) <=> Apart(y, x) BY DEF Apart
<1>3. LocksAreExclusive'
  <2> SUFFICES ASSUME NEW d \in Clerk, NEW e \in Clerk, d # e PROVE Apart(clerk'[d], clerk'[e])
    BY DEF LocksAreExclusive
  <2>1. CASE d = c
    <3>1. Apart(tx, clerk[e]) BY <2>1
    <3> QED BY <1>1, <2>1, <3>1
  <2>2. CASE e = c
    <3>1. Apart(tx, clerk[d]) BY <2>2
    <3> QED BY <1>1, <1>2, <2>2, <3>1
  <2>3. CASE d # c /\ e # c
    <3>1. Apart(clerk[d], clerk[e]) BY DEF OrganizationInv, LocksAreExclusive
    <3> QED BY <1>1, <2>3, <3>1
  <2> QED BY <2>1, <2>2, <2>3
<1> QED BY <1>1, <1>3 DEF OrganizationInv, OrganizationType

(* A step that only moves a clerk, to a transaction whose checks hold.     *)
LEMMA ClerkMoves ==
  ASSUME OrganizationInv, NEW c \in Clerk, NEW tx \in ClerkTx, clerk' = [clerk EXCEPT ![c] = tx],
         UNCHANGED <<role, gone, invite>>, ChecksHold(tx, role, gone),
         \A d \in Clerk \ {c} : Apart(tx, clerk[d])
  PROVE  OrganizationInv' /\ DecidedStays
<1>1. /\ clerk' \in [Clerk -> ClerkTx] /\ LocksAreExclusive'
      /\ \A d \in Clerk : clerk'[d] = IF d = c THEN tx ELSE clerk[d]
  BY OneClerkMoves
<1>2. AllChecksHold' BY <1>1 DEF OrganizationInv, AllChecksHold
<1> QED BY <1>1, <1>2 DEF OrganizationInv, OrganizationType, O!OneOwner, O!NoMemberIsGone, DecidedStays

(* LockActor and LockTarget wait for the rows they lock.                   *)
LEMMA MemberLocks ==
  ASSUME OrganizationInv, NEW c \in Clerk,
         \/ \E op \in MemberOp, u, t \in Person, r \in O!CanBeInvited : O!LockActor(c, op, u, t, r)
         \/ O!LockTarget(c)
  PROVE  OrganizationInv' /\ DecidedStays
<1>0. OrganizationType /\ LocksAreExclusive /\ AllChecksHold BY DEF OrganizationInv
<1>f. \A d \in Clerk : clerk[d] \in ClerkTx BY <1>0 DEF OrganizationType
<1>1. ASSUME NEW op \in MemberOp, NEW u \in Person, NEW t \in Person, NEW r \in O!CanBeInvited,
             O!LockActor(c, op, u, t, r)
      PROVE  OrganizationInv' /\ DecidedStays
  <2> DEFINE tx == [op |-> op, actor |-> u, target |-> t, to |-> r, locked |-> FALSE]
  <2>1. /\ role[u] # "none" /\ O!MemberFree(c, u)
        /\ op = "change" => role[u] = "owner"
        /\ op = "transfer" => role[u] = "owner"
        /\ clerk' = [clerk EXCEPT ![c] = tx] /\ UNCHANGED <<role, gone, invite>>
    BY <1>1 DEF O!LockActor, O!CanChangeMemberRoles
  <2>2. tx \in MemberTx /\ tx.op = op /\ tx.actor = u /\ tx.locked = FALSE BY DEF MemberTx
  <2> HIDE DEF tx
  <2>3. tx \in ClerkTx BY <2>2 DEF ClerkTx
  <2>4. O!HeldMembers(tx) = {u} /\ O!HeldUsers(tx) = {} BY <2>2, <2>3, Held
  <2>5. \A d \in Clerk \ {c} : Apart(tx, clerk[d]) BY <2>1, <2>4 DEF O!MemberFree, Apart
  <2>6. ChecksHold(tx, role, gone) BY <2>1, <2>2 DEF ChecksHold, MemberOp
  <2> QED BY <2>1, <2>3, <2>5, <2>6, ClerkMoves
<1>2. CASE O!LockTarget(c)
  <2> DEFINE tx == [clerk[c] EXCEPT !.locked = TRUE]
  <2>1. /\ clerk[c].op \in MemberOp /\ role[clerk[c].target] # "none" /\ O!MemberFree(c, clerk[c].target)
        /\ clerk' = [clerk EXCEPT ![c] = tx] /\ UNCHANGED <<role, gone, invite>>
        /\ ~clerk[c].locked
    BY <1>2 DEF O!LockTarget, MemberOp
  <2>2. clerk[c] \in MemberTx BY <1>f, <2>1, ClerkShapes
  <2>3. /\ tx \in MemberTx /\ tx.op = clerk[c].op /\ tx.actor = clerk[c].actor
        /\ tx.target = clerk[c].target /\ tx.locked = TRUE
    BY <2>2 DEF MemberTx
  <2> HIDE DEF tx
  <2>4. tx \in ClerkTx BY <2>3 DEF ClerkTx
  <2>5. O!HeldMembers(tx) = {clerk[c].actor, clerk[c].target} /\ O!HeldUsers(tx) = {}
    BY <2>1, <2>3, <2>4, Held
  <2>6. clerk[c].actor \in O!HeldMembers(clerk[c]) BY <1>f, <2>1, Held
  <2>7. \A d \in Clerk \ {c} : clerk[c].actor \notin O!HeldMembers(clerk[d])
    BY <1>0, <2>6 DEF LocksAreExclusive, Apart
  <2>8. \A d \in Clerk \ {c} : Apart(tx, clerk[d]) BY <2>1, <2>5, <2>7 DEF O!MemberFree, Apart
  <2>9. ChecksHold(clerk[c], role, gone) BY <1>0 DEF AllChecksHold
  <2>10. ChecksHold(tx, role, gone) BY <2>1, <2>3, <2>9 DEF ChecksHold, MemberOp
  <2> QED BY <2>1, <2>4, <2>8, <2>10, ClerkMoves
<1> QED BY <1>1, <1>2

(* What the requests about invitations and accounts read and lock first.   *)
LEMMA OtherLocks ==
  ASSUME OrganizationInv, NEW c \in Clerk,
         \/ \E u, e \in Person, r \in O!CanBeInvited : O!InviteCheck(c, u, e, r)
         \/ \E u \in Person, i \in Invitation : O!RevokeRead(c, u, i) \/ O!AcceptRead(c, i, u)
         \/ O!AcceptLock(c) \/ O!GiveUpRequest(c)
         \/ \E u \in Person : O!CheckAccountDeletion(c, u)
  PROVE  OrganizationInv' /\ DecidedStays
<1>0. OrganizationType /\ LocksAreExclusive /\ AllChecksHold BY DEF OrganizationInv
<1>f. \A d \in Clerk : clerk[d] \in ClerkTx BY <1>0 DEF OrganizationType
<1>n. ASSUME NEW tx \in ClerkTx, clerk' = [clerk EXCEPT ![c] = tx], UNCHANGED <<role, gone, invite>>,
             ChecksHold(tx, role, gone), O!HeldMembers(tx) = {}, O!HeldUsers(tx) = {}
      PROVE  OrganizationInv' /\ DecidedStays
  <2>1. \A d \in Clerk \ {c} : Apart(tx, clerk[d]) BY <1>n DEF Apart
  <2> QED BY <1>n, <2>1, ClerkMoves
<1>1. ASSUME NEW u \in Person, NEW e \in Person, NEW r \in O!CanBeInvited, O!InviteCheck(c, u, e, r)
      PROVE  OrganizationInv' /\ DecidedStays
  <2> DEFINE tx == [op |-> "invite", email |-> e, to |-> r]
  <2>1. clerk' = [clerk EXCEPT ![c] = tx] /\ UNCHANGED <<role, gone, invite>>
    BY <1>1 DEF O!InviteCheck
  <2>2. tx \in ClerkTx /\ tx.op = "invite" BY DEF ClerkTx, InviteTx
  <2> HIDE DEF tx
  <2>3. ChecksHold(tx, role, gone) BY <2>2 DEF ChecksHold, MemberOp
  <2>4. O!HeldMembers(tx) = {} /\ O!HeldUsers(tx) = {} BY <2>2, Held DEF MemberOp
  <2> QED BY <1>n, <2>1, <2>2, <2>3, <2>4
<1>2. ASSUME NEW u \in Person, NEW i \in Invitation, O!RevokeRead(c, u, i)
      PROVE  OrganizationInv' /\ DecidedStays
  <2> DEFINE tx == [op |-> "revoke", i |-> i]
  <2>1. clerk' = [clerk EXCEPT ![c] = tx] /\ UNCHANGED <<role, gone, invite>>
    BY <1>2 DEF O!RevokeRead
  <2>2. tx \in ClerkTx /\ tx.op = "revoke" BY DEF ClerkTx, RevokeTx
  <2> HIDE DEF tx
  <2>3. ChecksHold(tx, role, gone) BY <2>2 DEF ChecksHold, MemberOp
  <2>4. O!HeldMembers(tx) = {} /\ O!HeldUsers(tx) = {} BY <2>2, Held DEF MemberOp
  <2> QED BY <1>n, <2>1, <2>2, <2>3, <2>4
<1>3. ASSUME NEW u \in Person, NEW i \in Invitation, O!AcceptRead(c, i, u)
      PROVE  OrganizationInv' /\ DecidedStays
  <2> DEFINE tx == [op |-> "accept", i |-> i, user |-> u, locked |-> FALSE]
  <2>1. clerk' = [clerk EXCEPT ![c] = tx] /\ UNCHANGED <<role, gone, invite>>
    BY <1>3 DEF O!AcceptRead
  <2>2. tx \in ClerkTx /\ tx.op = "accept" /\ tx.locked = FALSE BY DEF ClerkTx, AcceptTx
  <2> HIDE DEF tx
  <2>3. ChecksHold(tx, role, gone) BY <2>2 DEF ChecksHold, MemberOp
  <2>4. O!HeldMembers(tx) = {} /\ O!HeldUsers(tx) = {} BY <2>2, Held DEF MemberOp
  <2> QED BY <1>n, <2>1, <2>2, <2>3, <2>4
<1>4. CASE O!GiveUpRequest(c)
  <2>1. clerk' = [clerk EXCEPT ![c] = O!Free] /\ UNCHANGED <<role, gone, invite>>
    BY <1>4 DEF O!GiveUpRequest
  <2> QED BY <1>n, <2>1, FreeHoldsNothing
<1>5. CASE O!AcceptLock(c)
  <2> DEFINE tx == [clerk[c] EXCEPT !.locked = TRUE]
  <2>1. /\ clerk[c].op = "accept" /\ O!UserFree(c, clerk[c].user) /\ clerk[c].user \notin gone
        /\ clerk' = [clerk EXCEPT ![c] = tx] /\ UNCHANGED <<role, gone, invite>>
    BY <1>5 DEF O!AcceptLock
  <2>2. clerk[c] \in AcceptTx BY <1>f, <2>1, ClerkShapes
  <2>3. tx \in AcceptTx /\ tx.op = "accept" /\ tx.user = clerk[c].user /\ tx.locked = TRUE
    BY <2>2 DEF AcceptTx
  <2> HIDE DEF tx
  <2>4. tx \in ClerkTx BY <2>3 DEF ClerkTx
  <2>5. O!HeldMembers(tx) = {} /\ O!HeldUsers(tx) = {clerk[c].user} BY <2>3, <2>4, Held DEF MemberOp
  <2>6. \A d \in Clerk \ {c} : Apart(tx, clerk[d]) BY <2>1, <2>5 DEF O!UserFree, Apart
  <2>7. ChecksHold(tx, role, gone) BY <2>1, <2>3 DEF ChecksHold, MemberOp
  <2> QED BY <2>1, <2>4, <2>6, <2>7, ClerkMoves
<1>6. ASSUME NEW u \in Person, O!CheckAccountDeletion(c, u) PROVE OrganizationInv' /\ DecidedStays
  <2> DEFINE tx == [op |-> "delete", user |-> u]
  <2>1. /\ O!UserFree(c, u) /\ role[u] = "none"
        /\ clerk' = [clerk EXCEPT ![c] = tx] /\ UNCHANGED <<role, gone, invite>>
    BY <1>6 DEF O!CheckAccountDeletion
  <2>2. tx \in ClerkTx /\ tx.op = "delete" /\ tx.user = u BY DEF ClerkTx, DeleteTx
  <2> HIDE DEF tx
  <2>3. O!HeldMembers(tx) = {} /\ O!HeldUsers(tx) = {u} BY <2>2, Held DEF MemberOp
  <2>4. \A d \in Clerk \ {c} : Apart(tx, clerk[d]) BY <2>1, <2>3 DEF O!UserFree, Apart
  <2>5. ChecksHold(tx, role, gone) BY <2>1, <2>2 DEF ChecksHold, MemberOp
  <2> QED BY <2>1, <2>2, <2>4, <2>5, ClerkMoves
<1> QED BY <1>1, <1>2, <1>3, <1>4, <1>5, <1>6

(* A transaction ends: nobody else's locks change.                         *)
LEMMA ClerkEnds ==
  ASSUME OrganizationInv, NEW c \in Clerk, clerk' = [clerk EXCEPT ![c] = O!Free],
         \A d \in Clerk \ {c} : ChecksHold(clerk[d], role', gone')
  PROVE  clerk' \in [Clerk -> ClerkTx] /\ LocksAreExclusive' /\ AllChecksHold'
<1>1. \A d \in Clerk \ {c} : Apart(O!Free, clerk[d]) BY FreeHoldsNothing DEF Apart
<1>2. /\ clerk' \in [Clerk -> ClerkTx] /\ LocksAreExclusive'
      /\ \A d \in Clerk : clerk'[d] = IF d = c THEN O!Free ELSE clerk[d]
  BY <1>1, FreeHoldsNothing, OneClerkMoves
<1>3. AllChecksHold' BY <1>2, FreeHoldsNothing DEF AllChecksHold
<1> QED BY <1>2, <1>3

(* A transaction changes the roles of members it has locked: what others   *)
(* have checked still holds.                                               *)
LEMMA OthersKeepTheirMembers ==
  ASSUME OrganizationInv, NEW c \in Clerk, NEW X \in SUBSET Person,
         X \subseteq O!HeldMembers(clerk[c]), \A p \in X : role[p] # "none",
         \A p \in Person \ X : role'[p] = role[p], UNCHANGED gone
  PROVE  \A d \in Clerk \ {c} : ChecksHold(clerk[d], role', gone')
<1> SUFFICES ASSUME NEW d \in Clerk \ {c} PROVE ChecksHold(clerk[d], role', gone')
  OBVIOUS
<1>1. clerk[d] \in ClerkTx /\ ChecksHold(clerk[d], role, gone) /\ Apart(clerk[c], clerk[d])
  BY DEF OrganizationInv, OrganizationType, AllChecksHold, LocksAreExclusive
<1>2. CASE clerk[d].op \in MemberOp
  <2>1. clerk[d].actor \in Person /\ clerk[d].target \in Person /\ clerk[d].locked \in BOOLEAN
    BY <1>1, <1>2, ClerkShapes DEF MemberTx
  <2>2. /\ O!HeldMembers(clerk[d]) =
             IF clerk[d].locked THEN {clerk[d].actor, clerk[d].target} ELSE {clerk[d].actor}
    BY <1>1, <1>2, Held
  <2>3. clerk[d].actor \notin X /\ (clerk[d].locked => clerk[d].target \notin X)
    BY <1>1, <2>2 DEF Apart
  <2>4. role'[clerk[d].actor] = role[clerk[d].actor] BY <2>1, <2>3
  <2>5. clerk[d].locked => role'[clerk[d].target] = role[clerk[d].target] BY <2>1, <2>3
  <2> QED BY <1>1, <1>2, <2>4, <2>5 DEF ChecksHold, MemberOp
<1>3. CASE clerk[d].op = "delete"
  <2>1. clerk[d].user \in Person BY <1>1, <1>3, ClerkShapes DEF DeleteTx
  <2>2. role[clerk[d].user] = "none" BY <1>1, <1>3 DEF ChecksHold
  <2>3. role'[clerk[d].user] = "none" BY <2>1, <2>2
  <2> QED BY <1>3, <2>3 DEF ChecksHold, MemberOp
<1>4. CASE clerk[d].op \notin MemberOp \cup {"delete"} BY <1>1, <1>4 DEF ChecksHold, MemberOp
<1> QED BY <1>2, <1>3, <1>4

(* What a clerk that is about to change a member knows.                    *)
LEMMA MemberTxKnows ==
  ASSUME OrganizationInv, NEW c \in Clerk, clerk[c].op \in MemberOp, clerk[c].locked
  PROVE  /\ clerk[c].actor \in Person /\ clerk[c].target \in Person /\ clerk[c].to \in O!CanBeInvited
         /\ O!HeldMembers(clerk[c]) = {clerk[c].actor, clerk[c].target}
         /\ role[clerk[c].actor] # "none" /\ role[clerk[c].target] # "none"
         /\ clerk[c].op = "transfer" => role[clerk[c].actor] = "owner"
<1>1. clerk[c] \in ClerkTx /\ ChecksHold(clerk[c], role, gone)
  BY DEF OrganizationInv, OrganizationType, AllChecksHold
<1>2. clerk[c] \in MemberTx BY <1>1, ClerkShapes
<1>3. O!HeldMembers(clerk[c]) = {clerk[c].actor, clerk[c].target} BY <1>1, Held
<1> QED BY <1>1, <1>2, <1>3 DEF MemberTx, ChecksHold

(* One member's role changes, but neither from nor to the owner.           *)
LEMMA OneRoleChanges ==
  ASSUME OrganizationInv, NEW t \in Person, NEW r \in {"none", "member", "admin"},
         role' = [role EXCEPT ![t] = r], UNCHANGED <<gone, invite>>, role[t] # "owner",
         t \in gone => r = "none"
  PROVE  /\ role' \in [Person -> {"none", "member", "admin", "owner"}]
         /\ \A p \in Person : role'[p] = IF p = t THEN r ELSE role[p]
         /\ O!OneOwner' /\ O!NoMemberIsGone'
<1>1. role \in [Person -> {"none", "member", "admin", "owner"}] /\ gone \subseteq Person
  BY DEF OrganizationInv, OrganizationType
<1>2. \A p \in Person : role'[p] = IF p = t THEN r ELSE role[p] BY <1>1
<1>3. \A p \in Person : role'[p] = "owner" <=> role[p] = "owner" BY <1>2
<1>4. O!OneOwner' BY <1>3 DEF OrganizationInv, O!OneOwner
<1>5. O!NoMemberIsGone' BY <1>1, <1>2 DEF OrganizationInv, O!NoMemberIsGone
<1> QED BY <1>1, <1>2, <1>4, <1>5

(* ChangeMemberRole and RemoveMember.                                      *)
LEMMA ChangeOrRemove ==
  ASSUME OrganizationInv, NEW c \in Clerk, O!ChangeMemberRole(c) \/ O!RemoveMember(c)
  PROVE  OrganizationInv' /\ DecidedStays
<1> DEFINE t == clerk[c].target
<1>1. clerk[c].op \in MemberOp /\ clerk[c].locked
  BY DEF O!ChangeMemberRole, O!RemoveMember, MemberOp
<1>2. /\ t \in Person /\ clerk[c].to \in O!CanBeInvited /\ t \in O!HeldMembers(clerk[c])
      /\ role[t] # "none"
  BY <1>1, MemberTxKnows
<1>3. PICK r \in {"none", "member", "admin"} :
        role' = [role EXCEPT ![t] = r] /\ (t \in gone => r = "none")
  BY <1>2 DEF O!ChangeMemberRole, O!RemoveMember, O!CanBeInvited
<1>4. UNCHANGED <<gone, invite>> /\ clerk' = [clerk EXCEPT ![c] = O!Free] /\ role[t] # "owner"
  BY DEF O!ChangeMemberRole, O!RemoveMember, O!CanRemoveMember
<1> HIDE DEF t
<1>5. /\ role' \in [Person -> {"none", "member", "admin", "owner"}]
      /\ \A p \in Person : role'[p] = IF p = t THEN r ELSE role[p]
      /\ O!OneOwner' /\ O!NoMemberIsGone'
  BY <1>2, <1>3, <1>4, OneRoleChanges
<1>6. \A d \in Clerk \ {c} : ChecksHold(clerk[d], role', gone')
  <2>1. {t} \in SUBSET Person /\ {t} \subseteq O!HeldMembers(clerk[c]) BY <1>2
  <2>2. (\A p \in {t} : role[p] # "none") /\ \A p \in Person \ {t} : role'[p] = role[p]
    BY <1>2, <1>5
  <2> QED BY <1>4, <2>1, <2>2, OthersKeepTheirMembers
<1>7. clerk' \in [Clerk -> ClerkTx] /\ LocksAreExclusive' /\ AllChecksHold' BY <1>4, <1>6, ClerkEnds
<1>8. OrganizationType' BY <1>4, <1>5, <1>7 DEF OrganizationInv, OrganizationType
<1> QED BY <1>4, <1>5, <1>7, <1>8 DEF OrganizationInv, DecidedStays

(* TransferOwnership: the actor is the owner while it holds its row.       *)
LEMMA TransferStep ==
  ASSUME OrganizationInv, NEW c \in Clerk, O!TransferOwnership(c)
  PROVE  OrganizationInv' /\ DecidedStays
<1> DEFINE a == clerk[c].actor
           t == clerk[c].target
<1>1. /\ clerk[c].op = "transfer" /\ clerk[c].locked
      /\ a # t /\ role[t] \in O!CanBeInvited /\ t \notin gone
      /\ role' = [role EXCEPT ![a] = "admin", ![t] = "owner"]
      /\ clerk' = [clerk EXCEPT ![c] = O!Free] /\ UNCHANGED <<gone, invite>>
  BY DEF O!TransferOwnership
<1>2. /\ a \in Person /\ t \in Person /\ O!HeldMembers(clerk[c]) = {a, t}
      /\ role[a] = "owner" /\ role[t] # "none"
  BY <1>1, MemberTxKnows DEF MemberOp
<1> HIDE DEF a, t
<1>3. /\ role \in [Person -> {"none", "member", "admin", "owner"}] /\ gone \subseteq Person
      /\ O!OneOwner /\ O!NoMemberIsGone
  BY DEF OrganizationInv, OrganizationType
<1>4. /\ role' \in [Person -> {"none", "member", "admin", "owner"}]
      /\ role'[a] = "admin" /\ role'[t] = "owner"
      /\ \A p \in Person \ {a, t} : role'[p] = role[p]
  BY <1>1, <1>2, <1>3
<1>5. O!OneOwner'
  <2>1. \A p \in Person : role[p] = "owner" <=> p = a BY <1>2, <1>3 DEF O!OneOwner
  <2>2. \A p \in Person : role'[p] = "owner" <=> p = t
    <3> SUFFICES ASSUME NEW p \in Person PROVE role'[p] = "owner" <=> p = t
      OBVIOUS
    <3>1. CASE p = t BY <1>4, <3>1
    <3>2. CASE p = a BY <1>1, <1>4, <3>2
    <3>3. CASE p \notin {a, t} BY <1>4, <2>1, <3>3
    <3> QED BY <3>1, <3>2, <3>3
  <2>3. t \in Person \ gone' BY <1>1, <1>2
  <2> QED BY <2>2, <2>3 DEF O!OneOwner
<1>6. O!NoMemberIsGone'
  <2>1. a \notin gone BY <1>2, <1>3 DEF O!NoMemberIsGone
  <2> QED BY <1>1, <1>3, <1>4, <2>1 DEF O!NoMemberIsGone
<1>7. \A d \in Clerk \ {c} : ChecksHold(clerk[d], role', gone')
  <2>1. {a, t} \in SUBSET Person /\ {a, t} \subseteq O!HeldMembers(clerk[c]) BY <1>2
  <2>2. \A p \in {a, t} : role[p] # "none" BY <1>2
  <2>3. (\A p \in Person \ {a, t} : role'[p] = role[p]) /\ UNCHANGED gone BY <1>1, <1>4
  <2> QED BY <2>1, <2>2, <2>3, OthersKeepTheirMembers, Zenon
<1>8. clerk' \in [Clerk -> ClerkTx] /\ LocksAreExclusive' /\ AllChecksHold' BY <1>1, <1>7, ClerkEnds
<1>9. OrganizationType' BY <1>1, <1>4, <1>8 DEF OrganizationInv, OrganizationType
<1> QED BY <1>1, <1>5, <1>6, <1>8, <1>9 DEF OrganizationInv, DecidedStays

(* A row of an invitation, and the absence of one.                         *)
LEMMA InviteRows ==
  ASSUME NEW x \in InviteRow \cup {O!NoInvite}
  PROVE  x.state # "none" <=> x \in InviteRow
BY DEF InviteRow, O!NoInvite

(* CreateInvitation and RevokeInvitation touch pending invitations only.   *)
LEMMA InvitationCommits ==
  ASSUME OrganizationInv, NEW c \in Clerk,
         O!RevokeInvitation(c) \/ \E i \in Invitation : O!CreateInvitation(c, i)
  PROVE  OrganizationInv' /\ DecidedStays
<1>0. OrganizationType /\ AllChecksHold BY DEF OrganizationInv
<1>1. clerk' = [clerk EXCEPT ![c] = O!Free] /\ UNCHANGED <<role, gone>>
  BY DEF O!RevokeInvitation, O!CreateInvitation
<1>2. clerk' \in [Clerk -> ClerkTx] /\ LocksAreExclusive' /\ AllChecksHold'
  BY <1>0, <1>1, ClerkEnds DEF AllChecksHold
<1>3. invite' \in [Invitation -> InviteRow \cup {O!NoInvite}] /\ DecidedStays
  <2>0. clerk[c] \in ClerkTx /\ invite \in [Invitation -> InviteRow \cup {O!NoInvite}]
    BY <1>0 DEF OrganizationType
  <2>1. CASE O!RevokeInvitation(c)
    <3> DEFINE i == clerk[c].i
               row == [invite[i] EXCEPT !.state = "revoked"]
    <3>1. clerk[c].op = "revoke" /\ invite[i].state = "pending" /\ invite' = [invite EXCEPT ![i] = row]
      BY <2>1 DEF O!RevokeInvitation
    <3>2. i \in Invitation BY <2>0, <3>1, ClerkShapes DEF RevokeTx
    <3>3. invite[i] \in InviteRow BY <2>0, <3>1, <3>2, InviteRows
    <3> HIDE DEF i
    <3>4. row \in InviteRow BY <3>3 DEF InviteRow
    <3> HIDE DEF row
    <3>5. \A j \in Invitation : invite'[j] = IF j = i THEN row ELSE invite[j] BY <2>0, <3>1
    <3> QED BY <2>0, <3>1, <3>4, <3>5 DEF DecidedStays
  <2>2. ASSUME NEW i \in Invitation, O!CreateInvitation(c, i)
        PROVE  invite' \in [Invitation -> InviteRow \cup {O!NoInvite}] /\ DecidedStays
    <3> DEFINE fresh == [state |-> "pending", email |-> clerk[c].email, to |-> clerk[c].to,
                         expired |-> FALSE]
               pending == O!PendingFor(clerk[c].email)
               old(j) == [invite[j] EXCEPT !.state = "replaced"]
    <3>1. /\ clerk[c].op = "invite" /\ invite[i].state = "none"
          /\ invite' = [j \in Invitation |-> IF j = i THEN fresh
                          ELSE IF j \in pending THEN old(j) ELSE invite[j]]
      BY <2>2 DEF O!CreateInvitation
    <3>2. fresh \in InviteRow
      <4>1. clerk[c] \in InviteTx BY <2>0, <3>1, ClerkShapes
      <4> QED BY <4>1 DEF InviteTx, InviteRow
    <3>3. \A j \in pending : j \in Invitation /\ invite[j].state = "pending" BY DEF O!PendingFor
    <3>4. \A j \in pending : invite[j] \in InviteRow BY <2>0, <3>3, InviteRows
    <3> HIDE DEF fresh, pending
    <3>5. \A j \in pending : old(j) \in InviteRow BY <3>4 DEF InviteRow
    <3> HIDE DEF old
    <3>6. invite' \in [Invitation -> InviteRow \cup {O!NoInvite}] BY <2>0, <3>1, <3>2, <3>5
    <3>7. \A j \in Invitation : j # i /\ j \notin pending => invite'[j] = invite[j] BY <3>1
    <3>8. DecidedStays BY <3>1, <3>3, <3>7 DEF DecidedStays
    <3> QED BY <3>6, <3>8
  <2> QED BY <2>1, <2>2
<1>4. OrganizationType' BY <1>0, <1>1, <1>2, <1>3 DEF OrganizationType
<1> QED BY <1>1, <1>2, <1>3, <1>4 DEF OrganizationInv, O!OneOwner, O!NoMemberIsGone

(* AcceptInvitation: the account is locked, so it is not being deleted.    *)
LEMMA AcceptCommits ==
  ASSUME OrganizationInv, NEW c \in Clerk, O!AcceptInvitation(c)
  PROVE  OrganizationInv' /\ DecidedStays
<1> DEFINE u == clerk[c].user
           i == clerk[c].i
           r == invite[i].to
           row == [invite[i] EXCEPT !.state = "accepted"]
<1>0. OrganizationType /\ LocksAreExclusive /\ AllChecksHold BY DEF OrganizationInv
<1>1. /\ clerk[c].op = "accept" /\ clerk[c].locked /\ role[u] = "none" /\ invite[i].state = "pending"
      /\ role' = [role EXCEPT ![u] = r] /\ invite' = [invite EXCEPT ![i] = row]
      /\ clerk' = [clerk EXCEPT ![c] = O!Free] /\ UNCHANGED gone
  BY DEF O!AcceptInvitation
<1>2. clerk[c] \in ClerkTx /\ clerk[c] \in AcceptTx BY <1>0, <1>1, ClerkShapes DEF OrganizationType
<1>3. u \in Person /\ i \in Invitation BY <1>2 DEF AcceptTx
<1>4. u \notin gone BY <1>0, <1>1 DEF AllChecksHold, ChecksHold
<1>5. O!HeldUsers(clerk[c]) = {u} BY <1>1, <1>2, Held
<1> HIDE DEF u, i
<1>6. invite[i] \in InviteRow BY <1>0, <1>1, <1>3, InviteRows DEF OrganizationType
<1>7. r \in {"member", "admin"} /\ row \in InviteRow BY <1>6 DEF InviteRow, O!CanBeInvited
<1> HIDE DEF r, row
<1>8. /\ role' \in [Person -> {"none", "member", "admin", "owner"}]
      /\ \A p \in Person : role'[p] = IF p = u THEN r ELSE role[p]
      /\ \A p \in Person : role'[p] = "owner" <=> role[p] = "owner"
  BY <1>0, <1>1, <1>3, <1>7 DEF OrganizationType
<1>9. O!OneOwner' BY <1>1, <1>8 DEF OrganizationInv, O!OneOwner
<1>10. O!NoMemberIsGone'
  BY <1>0, <1>1, <1>4, <1>8 DEF OrganizationInv, OrganizationType, O!NoMemberIsGone
<1>11. ASSUME NEW d \in Clerk \ {c} PROVE ChecksHold(clerk[d], role', gone')
  <2>1. clerk[d] \in ClerkTx /\ ChecksHold(clerk[d], role, gone) /\ Apart(clerk[c], clerk[d])
    BY <1>0 DEF OrganizationType, AllChecksHold, LocksAreExclusive
  <2>2. CASE clerk[d].op \in MemberOp
    <3>1. clerk[d].actor \in Person /\ clerk[d].target \in Person
      BY <2>1, <2>2, ClerkShapes DEF MemberTx
    <3>2. \A p \in Person : role[p] # "none" => role'[p] = role[p] BY <1>1, <1>8
    <3> QED BY <2>1, <2>2, <3>1, <3>2 DEF ChecksHold, MemberOp
  <2>3. CASE clerk[d].op = "delete"
    <3>1. clerk[d].user \in Person BY <2>1, <2>3, ClerkShapes DEF DeleteTx
    <3>2. clerk[d].user # u BY <1>5, <2>1, <2>3, Held DEF Apart
    <3>3. role[clerk[d].user] = "none" BY <2>1, <2>3 DEF ChecksHold
    <3>4. role'[clerk[d].user] = "none" BY <1>8, <3>1, <3>2, <3>3
    <3> QED BY <2>3, <3>4 DEF ChecksHold, MemberOp
  <2>4. CASE clerk[d].op \notin MemberOp \cup {"delete"}
    BY <1>1, <2>1, <2>4 DEF ChecksHold, MemberOp
  <2> QED BY <2>2, <2>3, <2>4
<1>12. clerk' \in [Clerk -> ClerkTx] /\ LocksAreExclusive' /\ AllChecksHold'
  BY <1>1, <1>11, ClerkEnds
<1>13. /\ invite' \in [Invitation -> InviteRow \cup {O!NoInvite}]
       /\ \A j \in Invitation : invite'[j] = IF j = i THEN row ELSE invite[j]
  BY <1>0, <1>1, <1>7 DEF OrganizationType
<1>14. OrganizationType' BY <1>0, <1>1, <1>8, <1>12, <1>13 DEF OrganizationType
<1>15. DecidedStays BY <1>1, <1>13 DEF DecidedStays
<1> QED BY <1>9, <1>10, <1>12, <1>14, <1>15 DEF OrganizationInv

(* DeleteAccount: who has no role cannot get one before the commit.        *)
LEMMA DeleteCommits ==
  ASSUME OrganizationInv, NEW c \in Clerk, O!DeleteMemberAccount(c)
  PROVE  OrganizationInv' /\ DecidedStays
<1> DEFINE u == clerk[c].user
<1>0. OrganizationType /\ LocksAreExclusive /\ AllChecksHold BY DEF OrganizationInv
<1>1. /\ clerk[c].op = "delete" /\ gone' = gone \cup {u}
      /\ clerk' = [clerk EXCEPT ![c] = O!Free] /\ UNCHANGED <<role, invite>>
  BY DEF O!DeleteMemberAccount
<1>2. clerk[c] \in ClerkTx /\ clerk[c] \in DeleteTx BY <1>0, <1>1, ClerkShapes DEF OrganizationType
<1>3. u \in Person BY <1>2 DEF DeleteTx
<1>4. role[u] = "none" BY <1>0, <1>1 DEF AllChecksHold, ChecksHold
<1>5. O!HeldUsers(clerk[c]) = {u} BY <1>1, <1>2, Held
<1> HIDE DEF u
<1>6. O!OneOwner' BY <1>1, <1>3, <1>4 DEF OrganizationInv, O!OneOwner
<1>7. O!NoMemberIsGone' BY <1>1, <1>4 DEF OrganizationInv, O!NoMemberIsGone
<1>8. ASSUME NEW d \in Clerk \ {c} PROVE ChecksHold(clerk[d], role', gone')
  <2>1. clerk[d] \in ClerkTx /\ ChecksHold(clerk[d], role, gone) /\ Apart(clerk[c], clerk[d])
    BY <1>0 DEF OrganizationType, AllChecksHold, LocksAreExclusive
  <2>2. CASE clerk[d].op = "accept"
    <3>1. clerk[d].locked => clerk[d].user # u BY <1>5, <2>1, <2>2, Held DEF Apart
    <3> QED BY <1>1, <2>1, <2>2, <3>1 DEF ChecksHold, MemberOp
  <2>3. CASE clerk[d].op # "accept" BY <1>1, <2>1, <2>3 DEF ChecksHold
  <2> QED BY <2>2, <2>3
<1>9. clerk' \in [Clerk -> ClerkTx] /\ LocksAreExclusive' /\ AllChecksHold' BY <1>1, <1>8, ClerkEnds
<1>10. OrganizationType' BY <1>0, <1>1, <1>3, <1>9 DEF OrganizationType
<1> QED BY <1>1, <1>6, <1>7, <1>9, <1>10 DEF OrganizationInv, DecidedStays

(* An invitation runs out.                                                 *)
LEMMA InvitationExpires ==
  ASSUME OrganizationInv, NEW i \in Invitation, O!InviteExpires(i)
  PROVE  OrganizationInv' /\ DecidedStays
<1> DEFINE row == [invite[i] EXCEPT !.expired = TRUE]
<1>1. /\ invite[i].state = "pending" /\ invite' = [invite EXCEPT ![i] = row]
      /\ UNCHANGED <<role, gone, clerk>>
  BY DEF O!InviteExpires
<1>2. invite[i] \in InviteRow BY <1>1, InviteRows DEF OrganizationInv, OrganizationType
<1>3. row \in InviteRow BY <1>2 DEF InviteRow
<1> HIDE DEF row
<1>4. /\ invite' \in [Invitation -> InviteRow \cup {O!NoInvite}]
      /\ \A j \in Invitation : invite'[j] = IF j = i THEN row ELSE invite[j]
  BY <1>1, <1>3 DEF OrganizationInv, OrganizationType
<1>5. DecidedStays BY <1>1, <1>4 DEF DecidedStays
<1> QED BY <1>1, <1>4, <1>5 DEF OrganizationInv, OrganizationType, LocksAreExclusive, AllChecksHold,
                                O!OneOwner, O!NoMemberIsGone

(* One step of any component keeps the organization sound, and a decided   *)
(* invitation stays decided.                                               *)
LEMMA OrganizationStep ==
  OrganizationInv /\ [Next]_vars => OrganizationInv' /\ [DecidedStays]_(O!organizationVars)
<1> SUFFICES ASSUME OrganizationInv, [Next]_vars
             PROVE  OrganizationInv' /\ [DecidedStays]_(O!organizationVars)
  OBVIOUS
<1>1. CASE UNCHANGED organizationVars
  BY <1>1 DEF organizationVars, OrganizationInv, OrganizationType, LocksAreExclusive, AllChecksHold,
              O!OneOwner, O!NoMemberIsGone, O!organizationVars
<1>2. CASE O!OrganizationNext
  <2>1. ASSUME NEW c \in Clerk, O!MembershipRequest(c) PROVE OrganizationInv' /\ DecidedStays
    BY <2>1, MemberLocks, ChangeOrRemove, TransferStep DEF O!MembershipRequest, MemberOp
  <2>2. ASSUME NEW c \in Clerk, O!Invite(c) \/ O!Revoke(c) PROVE OrganizationInv' /\ DecidedStays
    BY <2>2, OtherLocks, InvitationCommits DEF O!Invite, O!Revoke
  <2>3. ASSUME NEW c \in Clerk, O!Accept(c) \/ O!DeleteAccount(c) \/ O!GiveUpRequest(c)
        PROVE OrganizationInv' /\ DecidedStays
    BY <2>3, OtherLocks, AcceptCommits, DeleteCommits DEF O!Accept, O!DeleteAccount
  <2> QED BY <1>2, <2>1, <2>2, <2>3, InvitationExpires DEF O!OrganizationNext
<1> QED BY <1>1, <1>2 DEF Next, vars, OrganizationScene, AccountsScene, PermissionsScene, KeysScene,
                          OperatorsScene, ConsoleScene

(* At all times the organization has one owner, whose account exists, and  *)
(* no member's account is deleted; a decided invitation stays decided: for *)
(* any number of persons, invitations and overlapping transactions         *)
(* (TransferOwnership, RemoveMember, Accept, Revoke, DeleteAccount).       *)
THEOREM OrganizationIsSound == Spec => OrganizationSound
<1>1. OrganizationInv => O!OneOwner /\ O!NoMemberIsGone BY DEF OrganizationInv
<1> QED BY <1>1, OrganizationStart, OrganizationStep, PTL
        DEF Spec, OrganizationSound, O!InvitationDecided, DecidedStays

(***************************************************************************)
(* Accounts and their sessions.                                            *)
(***************************************************************************)

AccountState == {"absent", "active", "disabled", "deleted"}
SessionRow == [state : {"live", "revoked"}, expires : Nat, idle : Nat, seen : Nat, ended : Nat,
               reign : Nat]
TokenRow == {A!NoToken} \cup [state : {"unused"}, expires : Nat] \cup [state : {"used"}]
AuthenticatingVisit == [at : {"authenticating"}, s : Session, now : Nat, user : AccountState,
                        row : SessionRow]
VisitRow ==
  {A!Away} \cup [at : {"register", "verified", "delivering"}] \cup AuthenticatingVisit
    \cup [at : {"confirming"}, t : ResetToken]

AccountsType ==
  /\ account \in [state : AccountState, password : Nat]
  /\ session \in [Session -> SessionRow \cup {A!NoSession}]
  /\ token \in [ResetToken -> TokenRow]
  /\ visit \in [Visitor -> VisitRow]
  /\ hour \in Nat
  /\ resets \in [ResetToken -> Nat]

(* Nobody signs in to an account that was never registered.                *)
AbsentIsEmpty == account.state = "absent" =>
  /\ \A s \in Session : session[s].state # "live"
  /\ \A v \in Visitor : visit[v].at # "verified"

(* A session that is idle too long ends within its life.                   *)
IdleWithinLife == \A s \in Session : session[s] # A!NoSession => session[s].idle <= session[s].expires

(* A request that has read a session, with the sessions ses at the hour h: *)
(* the session has the life that was read, or it is another one, issued    *)
(* since, that a touch with the time of the request will not hit.          *)
ReadSession(q, ses, h) == q.at = "authenticating" =>
  /\ q.now <= h
  /\ ses[q.s] # A!NoSession => ses[q.s].expires = q.row.expires \/ ses[q.s].seen >= q.now
ReadSessions == \A v \in Visitor : ReadSession(visit[v], session, hour)

(* A token that is unused has changed nothing, and a used one once.        *)
TokensCount == \A t \in ResetToken :
  resets[t] <= 1 /\ (token[t].state = "unused" => resets[t] = 0)

AccountsInv ==
  /\ AccountsType /\ AbsentIsEmpty /\ IdleWithinLife /\ ReadSessions /\ TokensCount
  /\ A!SessionsOfThisReign

(* What a step may do to the sessions: one that is there keeps its life,   *)
(* moves forward until it is revoked and may then only be pruned; a new    *)
(* one is seen now.                                                        *)
SessionMoves == \A s \in Session :
  \/ session'[s] = A!NoSession
  \/ /\ session'[s] \in SessionRow /\ session'[s].idle <= session'[s].expires
     /\ session[s] = A!NoSession => session'[s].seen = hour
     /\ session[s] # A!NoSession =>
          /\ session[s].state = "revoked" => session'[s] = session[s]
          /\ session'[s].expires = session[s].expires
          /\ session'[s].seen >= session[s].seen
SessionsForward == \A s \in Session : A!SessionForward(s)

(* There is no account at first.                                           *)
LEMMA AccountsStart == Init => AccountsInv
<1> SUFFICES ASSUME Init PROVE AccountsInv
  OBVIOUS
<1>1. /\ account = [state |-> "absent", password |-> 0] /\ session = [s \in Session |-> A!NoSession]
      /\ token = [t \in ResetToken |-> A!NoToken] /\ visit = [v \in Visitor |-> A!Away]
      /\ hour = 0 /\ resets = [t \in ResetToken |-> 0]
  BY DEF Init, A!AccountsInit
<1>2. AccountsType BY <1>1 DEF AccountsType, AccountState, TokenRow, VisitRow
<1> QED BY <1>1, <1>2 DEF AccountsInv, AbsentIsEmpty, IdleWithinLife, ReadSessions, ReadSession,
                          TokensCount, A!SessionsOfThisReign, A!NoSession, A!NoToken, A!Away

(* A row of a session, and the absence of one.                             *)
LEMMA SessionRows ==
  ASSUME NEW x \in SessionRow \cup {A!NoSession}
  PROVE  /\ x = A!NoSession <=> x.state = "none"
         /\ x \in SessionRow <=> x # A!NoSession
         /\ x \in SessionRow => /\ x.expires \in Nat /\ x.idle \in Nat /\ x.seen \in Nat /\ x.ended \in Nat
                                /\ x.reign \in Nat /\ x.state \in {"live", "revoked"}
BY DEF SessionRow, A!NoSession

(* The visits by their stage.                                              *)
LEMMA VisitStages ==
  ASSUME NEW q \in VisitRow
  PROVE  /\ q.at = "authenticating" => q \in AuthenticatingVisit
         /\ q.at = "confirming" => q.t \in ResetToken
BY DEF VisitRow, AuthenticatingVisit, A!Away

(* The smaller of two numbers.                                             *)
LEMMA EarlierOf ==
  ASSUME NEW a \in Nat, NEW b \in Nat PROVE A!Earlier(a, b) \in Nat /\ A!Earlier(a, b) <= b
BY DEF A!Earlier

(* Sessions that move as they may are sound, and so is what was read of    *)
(* them.                                                                   *)
LEMMA MovesAreForward ==
  ASSUME AccountsInv, SessionMoves, session' \in [Session -> SessionRow \cup {A!NoSession}]
  PROVE  /\ SessionsForward /\ IdleWithinLife'
         /\ \A q \in VisitRow : \A h \in Nat :
              ReadSession(q, session, hour) /\ h >= hour => ReadSession(q, session', h)
<1>0. session \in [Session -> SessionRow \cup {A!NoSession}] /\ hour \in Nat
  BY DEF AccountsInv, AccountsType
<1>1. IdleWithinLife' BY DEF SessionMoves, IdleWithinLife
<1>2. ASSUME NEW s \in Session PROVE A!SessionForward(s)
  <2>1. SUFFICES ASSUME session[s].state # "none", session'[s].state # "none"
                 PROVE  /\ session[s].state = "revoked" => session'[s] = session[s]
                        /\ session'[s].seen >= session[s].seen
                        /\ session'[s].idle <= session'[s].expires
    BY DEF A!SessionForward
  <2>2. session[s] # A!NoSession /\ session'[s] # A!NoSession BY <2>1 DEF A!NoSession
  <2> QED BY <2>2 DEF SessionMoves
<1>3. ASSUME NEW q \in VisitRow, NEW h \in Nat, ReadSession(q, session, hour), h >= hour
      PROVE  ReadSession(q, session', h)
  <2> SUFFICES ASSUME q.at = "authenticating"
               PROVE  /\ q.now <= h
                      /\ session'[q.s] # A!NoSession =>
                           session'[q.s].expires = q.row.expires \/ session'[q.s].seen >= q.now
    BY DEF ReadSession
  <2>1. q.s \in Session /\ q.now \in Nat BY VisitStages DEF AuthenticatingVisit
  <2>2. q.now <= hour /\ (session[q.s] # A!NoSession =>
                            session[q.s].expires = q.row.expires \/ session[q.s].seen >= q.now)
    BY <1>3 DEF ReadSession
  <2>3. q.now <= h BY <1>0, <1>3, <2>1, <2>2
  <2>4. ASSUME session'[q.s] # A!NoSession
        PROVE  session'[q.s].expires = q.row.expires \/ session'[q.s].seen >= q.now
    <3>0. session'[q.s] \in SessionRow /\ session'[q.s].seen \in Nat
      BY <2>1, <2>4, SessionRows
    <3>1. CASE session[q.s] = A!NoSession
      <4>1. session'[q.s].seen = hour BY <2>1, <2>4, <3>1 DEF SessionMoves
      <4> QED BY <2>2, <4>1, <1>0, <2>1
    <3>2. CASE session[q.s] # A!NoSession
      <4>1. session'[q.s].expires = session[q.s].expires /\ session'[q.s].seen >= session[q.s].seen
        BY <2>1, <2>4, <3>2 DEF SessionMoves
      <4>2. session[q.s].seen \in Nat BY <1>0, <2>1, <3>2, SessionRows
      <4>3. CASE session[q.s].expires = q.row.expires BY <4>1, <4>3
      <4>4. CASE session[q.s].seen >= q.now BY <2>1, <3>0, <4>1, <4>2, <4>4
      <4> QED BY <2>2, <3>2, <4>3, <4>4
    <3> QED BY <3>1, <3>2
  <2> QED BY <2>3, <2>4
<1> QED BY <1>1, <1>2, <1>3 DEF SessionsForward

(* Sessions that do not change move as they may.                           *)
LEMMA SessionsStay ==
  ASSUME AccountsInv, UNCHANGED session
  PROVE  SessionMoves /\ session' \in [Session -> SessionRow \cup {A!NoSession}]
<1>0. session \in [Session -> SessionRow \cup {A!NoSession}] BY DEF AccountsInv, AccountsType
<1>1. \A s \in Session : session[s] # A!NoSession => session[s] \in SessionRow /\ session[s].seen \in Nat
  BY <1>0, SessionRows
<1> QED BY <1>0, <1>1 DEF SessionMoves, AccountsInv, IdleWithinLife

(* One session is written: revoked, touched or issued.                     *)
LEMMA OneSessionMoves ==
  ASSUME AccountsInv, NEW s \in Session, NEW x \in SessionRow, session' = [session EXCEPT ![s] = x],
         x.idle <= x.expires, session[s] = A!NoSession => x.seen = hour,
         session[s] # A!NoSession =>
           /\ session[s].state = "live" /\ x.expires = session[s].expires /\ x.seen >= session[s].seen
  PROVE  /\ SessionMoves /\ session' \in [Session -> SessionRow \cup {A!NoSession}]
         /\ \A y \in Session : session'[y] = IF y = s THEN x ELSE session[y]
<1>0. session \in [Session -> SessionRow \cup {A!NoSession}] BY DEF AccountsInv, AccountsType
<1>1. \A y \in Session : session[y] # A!NoSession => session[y] \in SessionRow /\ session[y].seen \in Nat
  BY <1>0, SessionRows
<1>2. \A y \in Session : session'[y] = IF y = s THEN x ELSE session[y] BY <1>0
<1>3. SessionMoves
  <2> SUFFICES ASSUME NEW y \in Session, session'[y] # A!NoSession
               PROVE  /\ session'[y] \in SessionRow /\ session'[y].idle <= session'[y].expires
                      /\ session[y] = A!NoSession => session'[y].seen = hour
                      /\ session[y] # A!NoSession =>
                           /\ session[y].state = "revoked" => session'[y] = session[y]
                           /\ session'[y].expires = session[y].expires
                           /\ session'[y].seen >= session[y].seen
    BY DEF SessionMoves
  <2>1. CASE y = s BY <1>2, <2>1
  <2>2. CASE y # s BY <1>1, <1>2, <2>2 DEF AccountsInv, IdleWithinLife
  <2> QED BY <2>1, <2>2
<1> QED BY <1>0, <1>2, <1>3

(* revokeUserSessionsDB leaves no session in use.                          *)
LEMMA RevokedSessions ==
  ASSUME AccountsInv, session' = A!Revoked
  PROVE  /\ SessionMoves /\ session' \in [Session -> SessionRow \cup {A!NoSession}]
         /\ \A s \in Session : session'[s].state # "live"
<1>0. session \in [Session -> SessionRow \cup {A!NoSession}] /\ hour \in Nat
  BY DEF AccountsInv, AccountsType
<1> DEFINE ended(s) == [session[s] EXCEPT !.state = "revoked", !.ended = hour]
<1>1. session' = [s \in Session |-> IF session[s].state = "live" THEN ended(s) ELSE session[s]]
  BY DEF A!Revoked
<1>2. \A s \in Session : session'[s] = IF session[s].state = "live" THEN ended(s) ELSE session[s]
  BY <1>1
<1>3. \A s \in Session : session[s].state = "live" =>
        /\ session[s] \in SessionRow /\ session[s] # A!NoSession
        /\ ended(s) \in SessionRow /\ ended(s).state = "revoked" /\ ended(s).idle = session[s].idle
        /\ ended(s).expires = session[s].expires /\ ended(s).seen = session[s].seen
        /\ session[s].seen \in Nat
  <2> TAKE s \in Session
  <2> HAVE session[s].state = "live"
  <2>1. session[s] # A!NoSession BY DEF A!NoSession
  <2>2. session[s] \in SessionRow BY <1>0, <2>1
  <2>3. /\ ended(s) \in SessionRow /\ ended(s).state = "revoked" /\ ended(s).idle = session[s].idle
        /\ ended(s).expires = session[s].expires /\ ended(s).seen = session[s].seen
    BY <1>0, <2>2 DEF SessionRow
  <2>4. session[s].seen \in Nat BY <2>2 DEF SessionRow
  <2> QED BY <2>1, <2>2, <2>3, <2>4
<1>4. \A s \in Session : session[s] # A!NoSession =>
        session[s].seen \in Nat /\ session[s] \in SessionRow /\ session[s].idle <= session[s].expires
  BY <1>0, SessionRows DEF AccountsInv, IdleWithinLife
<1> HIDE DEF ended
<1>5. session' \in [Session -> SessionRow \cup {A!NoSession}] BY <1>0, <1>1, <1>3
<1>6. SessionMoves
  <2> SUFFICES ASSUME NEW y \in Session, session'[y] # A!NoSession
               PROVE  /\ session'[y] \in SessionRow /\ session'[y].idle <= session'[y].expires
                      /\ session[y] = A!NoSession => session'[y].seen = hour
                      /\ session[y] # A!NoSession =>
                           /\ session[y].state = "revoked" => session'[y] = session[y]
                           /\ session'[y].expires = session[y].expires
                           /\ session'[y].seen >= session[y].seen
    BY DEF SessionMoves
  <2>1. CASE session[y].state = "live" BY <1>2, <1>3, <1>4, <2>1
  <2>2. CASE session[y].state # "live" BY <1>2, <1>4, <2>2
  <2> QED BY <2>1, <2>2
<1>7. \A s \in Session : session'[s].state # "live" BY <1>2, <1>3
<1> QED BY <1>5, <1>6, <1>7

(* One visit moves, to a stage that has read no session.                   *)
LEMMA OneVisitMoves ==
  ASSUME AccountsInv, SessionMoves, session' \in [Session -> SessionRow \cup {A!NoSession}],
         UNCHANGED hour, NEW v \in Visitor, NEW q \in VisitRow, q.at # "authenticating",
         visit' = [visit EXCEPT ![v] = q]
  PROVE  /\ visit' \in [Visitor -> VisitRow] /\ ReadSessions'
         /\ \A w \in Visitor : visit'[w] = IF w = v THEN q ELSE visit[w]
<1>0. visit \in [Visitor -> VisitRow] /\ hour \in Nat /\ ReadSessions BY DEF AccountsInv, AccountsType
<1>1. \A w \in Visitor : visit'[w] = IF w = v THEN q ELSE visit[w] BY <1>0
<1>2. \A w \in Visitor : ReadSession(visit[w], session', hour)
  <2> TAKE w \in Visitor
  <2>1. ReadSession(visit[w], session, hour) /\ visit[w] \in VisitRow BY <1>0 DEF ReadSessions
  <2>2. hour >= hour BY <1>0
  <2> QED BY <1>0, <2>1, <2>2, MovesAreForward
<1>3. ReadSession(q, session', hour) BY DEF ReadSession
<1>4. ReadSessions' BY <1>1, <1>2, <1>3 DEF ReadSessions
<1> QED BY <1>0, <1>1, <1>4

(* No visit moves.                                                         *)
LEMMA VisitsStay ==
  ASSUME AccountsInv, SessionMoves, session' \in [Session -> SessionRow \cup {A!NoSession}],
         UNCHANGED visit, hour' \in Nat, hour' >= hour
  PROVE  visit' \in [Visitor -> VisitRow] /\ ReadSessions'
<1>0. visit \in [Visitor -> VisitRow] /\ ReadSessions BY DEF AccountsInv, AccountsType
<1>2. \A w \in Visitor : ReadSession(visit[w], session', hour')
  <2> TAKE w \in Visitor
  <2>1. ReadSession(visit[w], session, hour) /\ visit[w] \in VisitRow BY <1>0 DEF ReadSessions
  <2> QED BY <2>1, MovesAreForward
<1> QED BY <1>0, <1>2 DEF ReadSessions

(* The stages a visit may be in.                                           *)
LEMMA Stages ==
  /\ A!Away \in VisitRow /\ A!Away.at = "away"
  /\ \A a \in {"register", "verified", "delivering"} : [at |-> a] \in VisitRow /\ [at |-> a].at = a
  /\ \A t \in ResetToken : [at |-> "confirming", t |-> t] \in VisitRow
                           /\ [at |-> "confirming", t |-> t].at = "confirming"
BY DEF VisitRow, A!Away

(* Steps of a request that touch neither sessions nor tokens.              *)
LEMMA RequestMoves ==
  ASSUME AccountsInv, NEW v \in Visitor,
         \/ A!RegisterRead(v) \/ A!Register(v) \/ A!SignInRead(v) \/ A!RequestPasswordReset(v)
         \/ A!Fail(v) \/ \E t \in ResetToken : A!ConfirmRead(v, t)
  PROVE  AccountsInv' /\ SessionsForward
<1>0. AccountsType /\ AbsentIsEmpty /\ A!SessionsOfThisReign BY DEF AccountsInv
<1>1. UNCHANGED <<session, token, hour, resets>>
  BY DEF A!RegisterRead, A!Register, A!SignInRead, A!RequestPasswordReset, A!Fail, A!ConfirmRead
<1>2. PICK q \in VisitRow : /\ q.at # "authenticating" /\ visit' = [visit EXCEPT ![v] = q]
                            /\ q.at = "verified" => account.state = "active"
  <2>1. CASE A!Register(v) \/ A!Fail(v) BY <2>1, Stages DEF A!Register, A!Fail, A!Leaves
  <2>2. CASE A!RegisterRead(v)
    <3> DEFINE q == [at |-> "register"]
    <3>1. q \in VisitRow /\ q.at = "register" BY Stages
    <3>2. visit' = [visit EXCEPT ![v] = q] BY <2>2 DEF A!RegisterRead
    <3> QED BY <3>1, <3>2
  <2>3. CASE A!SignInRead(v)
    <3> DEFINE q == [at |-> "verified"]
    <3>1. q \in VisitRow /\ q.at = "verified" BY Stages
    <3>2. visit' = [visit EXCEPT ![v] = q] /\ account.state = "active" BY <2>3 DEF A!SignInRead
    <3> QED BY <3>1, <3>2
  <2>4. CASE A!RequestPasswordReset(v)
    <3> DEFINE q == [at |-> "delivering"]
    <3>1. q \in VisitRow /\ q.at = "delivering" BY Stages
    <3>2. visit' = [visit EXCEPT ![v] = q] BY <2>4 DEF A!RequestPasswordReset
    <3> QED BY <3>1, <3>2
  <2>5. ASSUME NEW t \in ResetToken, A!ConfirmRead(v, t)
        PROVE  \E q \in VisitRow : /\ q.at # "authenticating" /\ visit' = [visit EXCEPT ![v] = q]
                                   /\ q.at = "verified" => account.state = "active"
    <3> DEFINE q == [at |-> "confirming", t |-> t]
    <3>1. q \in VisitRow /\ q.at = "confirming" BY Stages
    <3>2. visit' = [visit EXCEPT ![v] = q] BY <2>5 DEF A!ConfirmRead
    <3> QED BY <3>1, <3>2
  <2> QED BY <2>1, <2>2, <2>3, <2>4, <2>5
<1>3. /\ account' \in [state : AccountState, password : Nat]
      /\ account'.state = "absent" => account.state = "absent"
      /\ account.state # "absent" => account' = account
  <2>1. CASE UNCHANGED account BY <1>0, <2>1 DEF AccountsType
  <2>2. CASE A!Register(v)
    <3>1. account' = [state |-> "active", password |-> 1] /\ account.state = "absent"
      BY <2>2 DEF A!Register
    <3> QED BY <3>1 DEF AccountState
  <2> QED BY <2>1, <2>2 DEF A!RegisterRead, A!SignInRead, A!RequestPasswordReset, A!Fail, A!ConfirmRead
<1>4. SessionMoves /\ session' \in [Session -> SessionRow \cup {A!NoSession}] BY <1>1, SessionsStay
<1>5. /\ visit' \in [Visitor -> VisitRow] /\ ReadSessions'
      /\ \A w \in Visitor : visit'[w] = IF w = v THEN q ELSE visit[w]
  BY <1>1, <1>2, <1>4, OneVisitMoves
<1>6. SessionsForward /\ IdleWithinLife' BY <1>4, MovesAreForward
<1>7. A!SessionsOfThisReign' BY <1>0, <1>1, <1>3 DEF AbsentIsEmpty, A!SessionsOfThisReign
<1>8. AbsentIsEmpty' BY <1>0, <1>1, <1>2, <1>3, <1>5 DEF AbsentIsEmpty
<1>9. AccountsType' BY <1>0, <1>1, <1>3, <1>4, <1>5 DEF AccountsType
<1>10. TokensCount' BY <1>1 DEF AccountsInv, TokensCount
<1> QED BY <1>5, <1>6, <1>7, <1>8, <1>9, <1>10 DEF AccountsInv

(* Issue: the session belongs to the password of this moment.              *)
LEMMA IssueStep ==
  ASSUME AccountsInv, NEW v \in Visitor, NEW s \in Session, A!Issue(v, s)
  PROVE  AccountsInv' /\ SessionsForward
<1> DEFINE e == hour + SessionTTL
           i == A!Earlier(hour + SessionIdle, hour + SessionTTL)
           x == [state |-> "live", expires |-> e, idle |-> i, seen |-> hour, ended |-> 0,
                 reign |-> account.password]
<1>0. AccountsType /\ AbsentIsEmpty /\ A!SessionsOfThisReign BY DEF AccountsInv
<1>1. /\ visit[v].at = "verified" /\ session[s].state = "none"
      /\ session' = [session EXCEPT ![s] = x] /\ visit' = [visit EXCEPT ![v] = A!Away]
      /\ UNCHANGED <<account, token, hour, resets>>
  BY DEF A!Issue, A!Leaves
<1>2. e \in Nat /\ i \in Nat /\ i <= e
  <2>1. hour \in Nat BY <1>0 DEF AccountsType
  <2>2. SessionTTL \in Nat /\ SessionIdle \in Nat
    BY TenancyAssumption DEF A!AccountsAssumption
  <2>3. hour + SessionIdle \in Nat /\ hour + SessionTTL \in Nat BY <2>1, <2>2
  <2> QED BY <2>3, EarlierOf
<1> HIDE DEF e, i
<1>3. /\ x \in SessionRow /\ x.idle = i /\ x.expires = e /\ x.seen = hour /\ x.state = "live"
      /\ x.reign = account.password
  BY <1>0, <1>2 DEF SessionRow, AccountsType
<1> HIDE DEF x
<1>4. session[s] = A!NoSession BY <1>0, <1>1, SessionRows DEF AccountsType
<1>5. /\ SessionMoves /\ session' \in [Session -> SessionRow \cup {A!NoSession}]
      /\ \A y \in Session : session'[y] = IF y = s THEN x ELSE session[y]
  <2>1. x.idle <= x.expires BY <1>2, <1>3
  <2> QED BY <1>1, <1>3, <1>4, <2>1, OneSessionMoves
<1>6. /\ visit' \in [Visitor -> VisitRow] /\ ReadSessions'
      /\ \A w \in Visitor : visit'[w] = IF w = v THEN A!Away ELSE visit[w]
  BY <1>1, <1>5, OneVisitMoves, Stages
<1>7. SessionsForward /\ IdleWithinLife' BY <1>5, MovesAreForward
<1>8. A!SessionsOfThisReign' BY <1>0, <1>1, <1>3, <1>5 DEF A!SessionsOfThisReign
<1>9. account.state # "absent" BY <1>0, <1>1 DEF AbsentIsEmpty
<1>10. AbsentIsEmpty' BY <1>1, <1>9 DEF AbsentIsEmpty
<1>11. AccountsType' BY <1>0, <1>1, <1>5, <1>6 DEF AccountsType
<1>12. TokensCount' BY <1>1 DEF AccountsInv, TokensCount
<1> QED BY <1>6, <1>7, <1>8, <1>10, <1>11, <1>12 DEF AccountsInv

(* authenticateSession reads the session with its user.                    *)
LEMMA AuthenticateReads ==
  ASSUME AccountsInv, NEW v \in Visitor, NEW s \in Session, A!AuthenticateRead(v, s)
  PROVE  AccountsInv' /\ SessionsForward
<1> DEFINE q == [at |-> "authenticating", s |-> s, now |-> hour, user |-> account.state,
                 row |-> session[s]]
<1>0. AccountsType /\ AbsentIsEmpty /\ ReadSessions BY DEF AccountsInv
<1>1. /\ session[s].state \in {"live", "revoked"} /\ visit' = [visit EXCEPT ![v] = q]
      /\ UNCHANGED <<account, session, token, hour, resets>>
  BY DEF A!AuthenticateRead
<1>2. session[s] \in SessionRow BY <1>0, <1>1, SessionRows DEF AccountsType
<1>3. /\ q \in VisitRow /\ q.at = "authenticating" /\ q.now = hour /\ q.s = s /\ q.row = session[s]
  BY <1>0, <1>2 DEF VisitRow, AuthenticatingVisit, AccountsType
<1> HIDE DEF q
<1>4. ReadSession(q, session, hour)
  <2>1. hour <= hour BY <1>0 DEF AccountsType
  <2> QED BY <1>3, <2>1 DEF ReadSession
<1>5. /\ visit' \in [Visitor -> VisitRow]
      /\ \A w \in Visitor : visit'[w] = IF w = v THEN q ELSE visit[w]
  BY <1>0, <1>1, <1>3 DEF AccountsType
<1>6. ReadSessions' BY <1>0, <1>1, <1>4, <1>5 DEF ReadSessions
<1>7. SessionMoves /\ session' \in [Session -> SessionRow \cup {A!NoSession}] BY <1>1, SessionsStay
<1>8. SessionsForward /\ IdleWithinLife' BY <1>7, MovesAreForward
<1>9. AbsentIsEmpty' BY <1>0, <1>1, <1>3, <1>5 DEF AbsentIsEmpty
<1>10. AccountsType' BY <1>0, <1>1, <1>5 DEF AccountsType
<1> QED BY <1>1, <1>6, <1>8, <1>9, <1>10 DEF AccountsInv, TokensCount, A!SessionsOfThisReign

(* A step that moves the sessions, issues none and keeps the password:     *)
(* what is left to show is the shape of the sessions.                      *)
LEMMA SessionsOnlyMove ==
  ASSUME AccountsInv, SessionMoves, session' \in [Session -> SessionRow \cup {A!NoSession}],
         \A s \in Session : session'[s].state = "live" =>
           session[s].state = "live" /\ session'[s].reign = session[s].reign,
         UNCHANGED <<account, token, hour, resets>>,
         UNCHANGED visit \/ \E v \in Visitor : A!Leaves(v)
  PROVE  AccountsInv' /\ SessionsForward
<1>0. AccountsType /\ AbsentIsEmpty BY DEF AccountsInv
<1>1. /\ visit' \in [Visitor -> VisitRow] /\ ReadSessions'
      /\ \A w \in Visitor : visit'[w].at = "verified" => visit[w].at = "verified"
  <2>1. CASE UNCHANGED visit
    <3>1. hour' \in Nat /\ hour' >= hour BY <1>0 DEF AccountsType
    <3> QED BY <2>1, <3>1, VisitsStay
  <2>2. ASSUME NEW v \in Visitor, A!Leaves(v)
        PROVE  /\ visit' \in [Visitor -> VisitRow] /\ ReadSessions'
               /\ \A w \in Visitor : visit'[w].at = "verified" => visit[w].at = "verified"
    <3>1. visit' = [visit EXCEPT ![v] = A!Away] BY <2>2 DEF A!Leaves
    <3>2. /\ visit' \in [Visitor -> VisitRow] /\ ReadSessions'
          /\ \A w \in Visitor : visit'[w] = IF w = v THEN A!Away ELSE visit[w]
      BY <3>1, OneVisitMoves, Stages
    <3> QED BY <3>2, Stages
  <2> QED BY <2>1, <2>2
<1>2. SessionsForward /\ IdleWithinLife' BY MovesAreForward
<1>3. A!SessionsOfThisReign' BY DEF AccountsInv, A!SessionsOfThisReign
<1>4. AbsentIsEmpty' BY <1>0, <1>1 DEF AbsentIsEmpty
<1>5. AccountsType' BY <1>0, <1>1 DEF AccountsType
<1>6. TokensCount' BY DEF AccountsInv, TokensCount
<1> QED BY <1>1, <1>2, <1>3, <1>4, <1>5, <1>6 DEF AccountsInv

(* One session is revoked.                                                 *)
LEMMA OneIsRevoked ==
  ASSUME AccountsInv, NEW s \in Session, session[s].state = "live",
         session' = [session EXCEPT ![s].state = "revoked", ![s].ended = hour]
  PROVE  /\ SessionMoves /\ session' \in [Session -> SessionRow \cup {A!NoSession}]
         /\ \A y \in Session : session'[y].state = "live" => session'[y] = session[y]
<1> DEFINE x == [session[s] EXCEPT !.state = "revoked", !.ended = hour]
<1>0. session \in [Session -> SessionRow \cup {A!NoSession}] /\ hour \in Nat
  BY DEF AccountsInv, AccountsType
<1>1. session[s] # A!NoSession BY DEF A!NoSession
<1>2. session[s] \in SessionRow BY <1>0, <1>1
<1>3. session' = [session EXCEPT ![s] = x] BY <1>0
<1>4. /\ x \in SessionRow /\ x.state = "revoked" /\ x.idle = session[s].idle
      /\ x.expires = session[s].expires /\ x.seen = session[s].seen /\ session[s].seen \in Nat
  BY <1>0, <1>2 DEF SessionRow
<1> HIDE DEF x
<1>5. x.idle <= x.expires BY <1>1, <1>4 DEF AccountsInv, IdleWithinLife
<1>6. x.seen >= session[s].seen BY <1>4
<1>7. /\ SessionMoves /\ session' \in [Session -> SessionRow \cup {A!NoSession}]
      /\ \A y \in Session : session'[y] = IF y = s THEN x ELSE session[y]
  BY <1>1, <1>3, <1>4, <1>5, <1>6, OneSessionMoves
<1> QED BY <1>4, <1>7

(* What authenticateSession does without a touch.                          *)
LEMMA AuthenticateRefuses ==
  ASSUME AccountsInv, NEW v \in Visitor, A!AuthenticateRefuse(v)
  PROVE  AccountsInv' /\ SessionsForward
<1>0. AccountsType BY DEF AccountsInv
<1>1. /\ visit[v].at = "authenticating" /\ A!Leaves(v) /\ UNCHANGED <<account, token, hour, resets>>
      /\ \/ UNCHANGED session
         \/ /\ session[visit[v].s].state = "live"
            /\ session' = [session EXCEPT ![visit[v].s].state = "revoked", ![visit[v].s].ended = hour]
         \/ session' = A!Revoked
  BY DEF A!AuthenticateRefuse
<1>2. visit[v].s \in Session
  <2>1. visit[v] \in VisitRow BY <1>0 DEF AccountsType
  <2> QED BY <1>1, <2>1, VisitStages DEF AuthenticatingVisit
<1>3. CASE UNCHANGED session
  <2>1. SessionMoves /\ session' \in [Session -> SessionRow \cup {A!NoSession}] BY <1>3, SessionsStay
  <2> QED BY <1>1, <1>3, <2>1, SessionsOnlyMove
<1>4. CASE /\ session[visit[v].s].state = "live"
           /\ session' = [session EXCEPT ![visit[v].s].state = "revoked", ![visit[v].s].ended = hour]
  <2>1. /\ SessionMoves /\ session' \in [Session -> SessionRow \cup {A!NoSession}]
        /\ \A y \in Session : session'[y].state = "live" => session'[y] = session[y]
    BY <1>2, <1>4, OneIsRevoked
  <2> QED BY <1>1, <2>1, SessionsOnlyMove
<1>5. CASE session' = A!Revoked
  <2>1. /\ SessionMoves /\ session' \in [Session -> SessionRow \cup {A!NoSession}]
        /\ \A s \in Session : session'[s].state # "live"
    BY <1>5, RevokedSessions
  <2> QED BY <1>1, <2>1, SessionsOnlyMove
<1> QED BY <1>1, <1>3, <1>4, <1>5

(* The touch: its condition rules out a session touched or issued since.   *)
LEMMA TouchStep ==
  ASSUME AccountsInv, NEW v \in Visitor, A!AuthenticateTouch(v)
  PROVE  AccountsInv' /\ SessionsForward
<1> DEFINE s == visit[v].s
           now == visit[v].now
           e == visit[v].row.expires
           i == A!Earlier(now + SessionIdle, e)
<1>0. AccountsType /\ ReadSessions BY DEF AccountsInv
<1>1. /\ visit[v].at = "authenticating" /\ A!Leaves(v) /\ UNCHANGED <<account, token, hour, resets>>
      /\ \/ UNCHANGED session
         \/ /\ session[s].state = "live" /\ session[s].seen + TouchInterval <= now
            /\ session' = [session EXCEPT ![s].seen = now, ![s].idle = i]
  BY DEF A!AuthenticateTouch
<1>2. s \in Session /\ now \in Nat /\ e \in Nat
  <2>1. visit[v] \in VisitRow BY <1>0 DEF AccountsType
  <2>2. visit[v] \in AuthenticatingVisit BY <1>1, <2>1, VisitStages
  <2>3. visit[v].row \in SessionRow BY <2>2 DEF AuthenticatingVisit
  <2> QED BY <2>2, <2>3 DEF AuthenticatingVisit, SessionRow
<1>3. session[s] # A!NoSession => session[s].expires = e \/ session[s].seen >= now
  BY <1>0, <1>1 DEF ReadSessions, ReadSession
<1>4. i \in Nat /\ i <= e
  <2>1. SessionIdle \in Nat BY TenancyAssumption DEF A!AccountsAssumption
  <2>2. now + SessionIdle \in Nat BY <1>2, <2>1
  <2> QED BY <1>2, <2>2, EarlierOf
<1> HIDE DEF s, now, e, i
<1>5. CASE UNCHANGED session
  <2>1. SessionMoves /\ session' \in [Session -> SessionRow \cup {A!NoSession}] BY <1>5, SessionsStay
  <2> QED BY <1>1, <1>5, <2>1, SessionsOnlyMove
<1>6. CASE /\ session[s].state = "live" /\ session[s].seen + TouchInterval <= now
           /\ session' = [session EXCEPT ![s].seen = now, ![s].idle = i]
  <2> DEFINE x == [session[s] EXCEPT !.seen = now, !.idle = i]
  <2>0. session \in [Session -> SessionRow \cup {A!NoSession}] BY <1>0 DEF AccountsType
  <2>1. session[s] # A!NoSession BY <1>6 DEF A!NoSession
  <2>2. session[s] \in SessionRow /\ session[s].seen \in Nat BY <1>2, <2>0, <2>1, SessionRows
  <2>3. session' = [session EXCEPT ![s] = x] BY <1>6, <2>0
  <2>4. /\ x \in SessionRow /\ x.state = session[s].state /\ x.idle = i /\ x.reign = session[s].reign
        /\ x.expires = session[s].expires /\ x.seen = now
    BY <1>2, <1>4, <2>2 DEF SessionRow
  <2> HIDE DEF x
  <2>5. session[s].seen < now
    <3>1. TouchInterval \in Nat /\ TouchInterval >= 1 BY TenancyAssumption DEF A!AccountsAssumption
    <3> QED BY <1>2, <1>6, <2>2, <3>1
  <2>6. session[s].expires = e
    <3>1. ~(session[s].seen >= now) BY <1>2, <2>2, <2>5
    <3> QED BY <1>3, <2>1, <3>1
  <2>7. x.idle <= x.expires /\ x.seen >= session[s].seen BY <1>2, <1>4, <2>2, <2>4, <2>5, <2>6
  <2>8. /\ SessionMoves /\ session' \in [Session -> SessionRow \cup {A!NoSession}]
        /\ \A y \in Session : session'[y] = IF y = s THEN x ELSE session[y]
    BY <1>2, <1>6, <2>1, <2>3, <2>4, <2>7, OneSessionMoves
  <2>9. \A y \in Session : session'[y].state = "live" =>
          session[y].state = "live" /\ session'[y].reign = session[y].reign
    BY <1>6, <2>4, <2>8
  <2> QED BY <1>1, <2>8, <2>9, SessionsOnlyMove
<1> QED BY <1>1, <1>5, <1>6

(* Logout, RevokeUserSessions and the pruning.                             *)
LEMMA SessionsEnd ==
  ASSUME AccountsInv,
         \/ \E s \in Session : A!Logout(s)
         \/ A!RevokeUserSessions \/ A!PruneAuthenticationSessions
  PROVE  AccountsInv' /\ SessionsForward
<1>0. AccountsType BY DEF AccountsInv
<1>1. UNCHANGED <<account, token, visit, hour, resets>>
  BY DEF A!Logout, A!RevokeUserSessions, A!PruneAuthenticationSessions
<1>2. ASSUME NEW s \in Session, A!Logout(s) PROVE AccountsInv' /\ SessionsForward
  <2>1. session[s].state = "live" /\ session' = [session EXCEPT ![s].state = "revoked", ![s].ended = hour]
    BY <1>2 DEF A!Logout
  <2>2. /\ SessionMoves /\ session' \in [Session -> SessionRow \cup {A!NoSession}]
        /\ \A y \in Session : session'[y].state = "live" => session'[y] = session[y]
    BY <2>1, OneIsRevoked
  <2> QED BY <1>1, <2>2, SessionsOnlyMove
<1>3. CASE A!RevokeUserSessions
  <2>1. /\ SessionMoves /\ session' \in [Session -> SessionRow \cup {A!NoSession}]
        /\ \A s \in Session : session'[s].state # "live"
    BY <1>3, RevokedSessions DEF A!RevokeUserSessions
  <2> QED BY <1>1, <2>1, SessionsOnlyMove
<1>4. CASE A!PruneAuthenticationSessions
  <2> DEFINE old(s) == session[s].state # "none" /\ A!Lapse(session[s]) + SessionRetention <= hour
  <2>0. session \in [Session -> SessionRow \cup {A!NoSession}] BY <1>0 DEF AccountsType
  <2>1. session' = [s \in Session |-> IF old(s) THEN A!NoSession ELSE session[s]]
    BY <1>4 DEF A!PruneAuthenticationSessions
  <2> HIDE DEF old
  <2>2. \A s \in Session : session'[s] = A!NoSession \/ session'[s] = session[s] BY <2>1
  <2>3. \A s \in Session : session[s] # A!NoSession =>
          session[s] \in SessionRow /\ session[s].seen \in Nat /\ session[s].idle <= session[s].expires
    BY <2>0, SessionRows DEF AccountsInv, IdleWithinLife
  <2>4. SessionMoves BY <2>2, <2>3 DEF SessionMoves
  <2>5. session' \in [Session -> SessionRow \cup {A!NoSession}] BY <2>0, <2>1
  <2>6. \A s \in Session : session'[s].state = "live" => session'[s] = session[s]
    BY <2>2 DEF A!NoSession
  <2> QED BY <1>1, <2>4, <2>5, <2>6, SessionsOnlyMove
<1> QED BY <1>2, <1>3, <1>4

(* The account changes and its sessions end with it, or keep its password. *)
LEMMA AccountChanges ==
  ASSUME AccountsInv,
         A!ChangePassword \/ A!SoftDelete \/ \E status \in {"active", "disabled"} : A!SetUserStatus(status)
  PROVE  AccountsInv' /\ SessionsForward
<1>0. AccountsType /\ A!SessionsOfThisReign BY DEF AccountsInv
<1>1. UNCHANGED <<token, visit, hour, resets>>
  BY DEF A!ChangePassword, A!SoftDelete, A!SetUserStatus
<1>2. /\ account' \in [state : AccountState, password : Nat] /\ account'.state # "absent"
      /\ session' = A!Revoked \/ (UNCHANGED session /\ account'.password = account.password)
  <2>0. account \in [state : AccountState, password : Nat] BY <1>0 DEF AccountsType
  <2>1. CASE A!ChangePassword
    <3>1. /\ account.state \in {"active", "disabled"} /\ session' = A!Revoked
          /\ account' = [account EXCEPT !.password = account.password + 1]
      BY <2>1 DEF A!ChangePassword, A!Present
    <3>2. account.password + 1 \in Nat BY <2>0
    <3> QED BY <2>0, <3>1, <3>2
  <2>2. CASE A!SoftDelete
    <3>1. session' = A!Revoked /\ account' = [account EXCEPT !.state = "deleted"]
      BY <2>2 DEF A!SoftDelete
    <3> QED BY <2>0, <3>1 DEF AccountState
  <2>3. ASSUME NEW status \in {"active", "disabled"}, A!SetUserStatus(status)
        PROVE  /\ account' \in [state : AccountState, password : Nat] /\ account'.state # "absent"
               /\ session' = A!Revoked \/ (UNCHANGED session /\ account'.password = account.password)
    <3>1. /\ account' = [account EXCEPT !.state = status]
          /\ session' = A!Revoked \/ UNCHANGED session
      BY <2>3 DEF A!SetUserStatus
    <3> QED BY <2>0, <3>1 DEF AccountState
  <2> QED BY <2>1, <2>2, <2>3
<1>3. /\ SessionMoves /\ session' \in [Session -> SessionRow \cup {A!NoSession}]
      /\ A!SessionsOfThisReign'
  <2>1. CASE session' = A!Revoked
    <3>1. /\ SessionMoves /\ session' \in [Session -> SessionRow \cup {A!NoSession}]
          /\ \A s \in Session : session'[s].state # "live"
      BY <2>1, RevokedSessions
    <3> QED BY <3>1 DEF A!SessionsOfThisReign
  <2>2. CASE UNCHANGED session /\ account'.password = account.password
    <3>1. SessionMoves /\ session' \in [Session -> SessionRow \cup {A!NoSession}]
      BY <2>2, SessionsStay
    <3> QED BY <1>0, <2>2, <3>1 DEF A!SessionsOfThisReign
  <2> QED BY <1>2, <2>1, <2>2
<1>4. visit' \in [Visitor -> VisitRow] /\ ReadSessions'
  <2>1. hour' \in Nat /\ hour' >= hour BY <1>0, <1>1 DEF AccountsType
  <2> QED BY <1>1, <1>3, <2>1, VisitsStay
<1>5. SessionsForward /\ IdleWithinLife' BY <1>3, MovesAreForward
<1>6. AbsentIsEmpty' BY <1>2 DEF AbsentIsEmpty
<1>7. AccountsType' BY <1>0, <1>1, <1>2, <1>3, <1>4 DEF AccountsType
<1>8. TokensCount' BY <1>1 DEF AccountsInv, TokensCount
<1> QED BY <1>3, <1>4, <1>5, <1>6, <1>7, <1>8 DEF AccountsInv

(* StorePasswordResetToken.                                                *)
LEMMA StoreTokenStep ==
  ASSUME AccountsInv, NEW v \in Visitor, NEW t \in ResetToken, A!StorePasswordResetToken(v, t)
  PROVE  AccountsInv' /\ SessionsForward
<1> DEFINE fresh == [state |-> "unused", expires |-> hour + TokenTTL]
<1>0. AccountsType /\ AbsentIsEmpty /\ TokensCount BY DEF AccountsInv
<1>1. /\ resets[t] = 0 /\ visit' = [visit EXCEPT ![v] = A!Away]
      /\ token' = [k \in ResetToken |-> IF k = t THEN fresh
                     ELSE IF token[k].state = "unused" THEN A!NoToken ELSE token[k]]
      /\ UNCHANGED <<account, session, hour, resets>>
  BY DEF A!StorePasswordResetToken, A!Leaves
<1>2. hour + TokenTTL \in Nat BY <1>0, TenancyAssumption DEF AccountsType, A!AccountsAssumption
<1>3. fresh \in TokenRow BY <1>2 DEF TokenRow
<1> HIDE DEF fresh
<1>4. token' \in [ResetToken -> TokenRow] BY <1>0, <1>1, <1>3 DEF AccountsType, TokenRow
<1>5. \A k \in ResetToken : token'[k].state = "unused" => k = t
  BY <1>1 DEF A!NoToken
<1>6. TokensCount' BY <1>0, <1>1, <1>5 DEF TokensCount
<1>7. SessionMoves /\ session' \in [Session -> SessionRow \cup {A!NoSession}] BY <1>1, SessionsStay
<1>8. /\ visit' \in [Visitor -> VisitRow] /\ ReadSessions'
      /\ \A w \in Visitor : visit'[w] = IF w = v THEN A!Away ELSE visit[w]
  BY <1>1, <1>7, OneVisitMoves, Stages
<1>9. SessionsForward /\ IdleWithinLife' BY <1>7, MovesAreForward
<1>10. AbsentIsEmpty' BY <1>0, <1>1, <1>8, Stages DEF AbsentIsEmpty
<1>11. AccountsType' BY <1>0, <1>1, <1>4, <1>8 DEF AccountsType
<1> QED BY <1>1, <1>6, <1>8, <1>9, <1>10, <1>11 DEF AccountsInv, A!SessionsOfThisReign

(* ResetPasswordWithToken: of two confirmations one finds it unused.       *)
LEMMA ResetStep ==
  ASSUME AccountsInv, NEW v \in Visitor, A!ResetPasswordWithToken(v)
  PROVE  AccountsInv' /\ SessionsForward
<1> DEFINE t == visit[v].t
           used == [state |-> "used"]
<1>0. AccountsType /\ AbsentIsEmpty /\ TokensCount BY DEF AccountsInv
<1>1. /\ visit[v].at = "confirming" /\ token[t].state = "unused" /\ session' = A!Revoked
      /\ token' = [token EXCEPT ![t] = used] /\ resets' = [resets EXCEPT ![t] = @ + 1]
      /\ visit' = [visit EXCEPT ![v] = A!Away] /\ UNCHANGED hour
  BY DEF A!ResetPasswordWithToken, A!Leaves
<1>2. /\ account' \in [state : AccountState, password : Nat]
      /\ account'.state = account.state
  <2>0. account \in [state : AccountState, password : Nat] BY <1>0 DEF AccountsType
  <2>1. account' = account \/ account' = [account EXCEPT !.password = account.password + 1]
    BY DEF A!ResetPasswordWithToken
  <2>2. account.password + 1 \in Nat BY <2>0
  <2> QED BY <2>0, <2>1, <2>2
<1>3. t \in ResetToken
  <2>1. visit[v] \in VisitRow BY <1>0 DEF AccountsType
  <2> QED BY <1>1, <2>1, VisitStages
<1>4. used \in TokenRow /\ used.state = "used" BY DEF TokenRow
<1> HIDE DEF t, used
<1>5. resets[t] = 0 BY <1>0, <1>1, <1>3 DEF TokensCount
<1>6. /\ token' \in [ResetToken -> TokenRow]
      /\ \A k \in ResetToken : token'[k] = IF k = t THEN used ELSE token[k]
  BY <1>0, <1>1, <1>4 DEF AccountsType
<1>7. /\ resets' \in [ResetToken -> Nat]
      /\ \A k \in ResetToken : resets'[k] = IF k = t THEN 1 ELSE resets[k]
  BY <1>0, <1>1, <1>3, <1>5 DEF AccountsType
<1>8. TokensCount' BY <1>0, <1>4, <1>6, <1>7 DEF TokensCount
<1>9. /\ SessionMoves /\ session' \in [Session -> SessionRow \cup {A!NoSession}]
      /\ \A s \in Session : session'[s].state # "live"
  BY <1>1, RevokedSessions
<1>10. /\ visit' \in [Visitor -> VisitRow] /\ ReadSessions'
       /\ \A w \in Visitor : visit'[w] = IF w = v THEN A!Away ELSE visit[w]
  BY <1>1, <1>9, OneVisitMoves, Stages
<1>11. SessionsForward /\ IdleWithinLife' BY <1>9, MovesAreForward
<1>12. AbsentIsEmpty' BY <1>0, <1>2, <1>9, <1>10, Stages DEF AbsentIsEmpty
<1>13. AccountsType' BY <1>0, <1>1, <1>2, <1>6, <1>7, <1>9, <1>10 DEF AccountsType
<1> QED BY <1>8, <1>9, <1>10, <1>11, <1>12, <1>13 DEF AccountsInv, A!SessionsOfThisReign

(* Time passes.                                                            *)
LEMMA HourStep ==
  ASSUME AccountsInv, A!HourPasses PROVE AccountsInv' /\ SessionsForward
<1>0. AccountsType BY DEF AccountsInv
<1>1. hour' = hour + 1 /\ UNCHANGED <<account, session, token, visit, resets>> BY DEF A!HourPasses
<1>2. hour' \in Nat /\ hour' >= hour BY <1>0, <1>1 DEF AccountsType
<1>3. SessionMoves /\ session' \in [Session -> SessionRow \cup {A!NoSession}] BY <1>1, SessionsStay
<1>4. visit' \in [Visitor -> VisitRow] /\ ReadSessions' BY <1>1, <1>2, <1>3, VisitsStay
<1>5. SessionsForward /\ IdleWithinLife' BY <1>3, MovesAreForward
<1>6. AccountsType' BY <1>0, <1>1, <1>2 DEF AccountsType
<1> QED BY <1>1, <1>4, <1>5, <1>6 DEF AccountsInv, AbsentIsEmpty, TokensCount, A!SessionsOfThisReign

(* One step of any component keeps the account sound, and its sessions     *)
(* move forward.                                                           *)
LEMMA AccountsStep ==
  AccountsInv /\ [Next]_vars => AccountsInv' /\ [SessionsForward]_(A!accountsVars)
<1> SUFFICES ASSUME AccountsInv, [Next]_vars
             PROVE  AccountsInv' /\ [SessionsForward]_(A!accountsVars)
  OBVIOUS
<1>1. CASE UNCHANGED accountsVars
  BY <1>1 DEF accountsVars, AccountsInv, AccountsType, AbsentIsEmpty, IdleWithinLife, ReadSessions,
              TokensCount, A!SessionsOfThisReign, A!accountsVars
<1>2. CASE A!AccountsNext
  <2>1. ASSUME NEW v \in Visitor,
               \/ A!RegisterRead(v) \/ A!Register(v) \/ A!SignIn(v) \/ A!Authenticate(v)
               \/ A!DeliverPasswordReset(v) \/ A!ConfirmPasswordReset(v) \/ A!Fail(v)
        PROVE  AccountsInv' /\ SessionsForward
    BY <2>1, RequestMoves, IssueStep, AuthenticateReads, AuthenticateRefuses, TouchStep,
       StoreTokenStep, ResetStep
       DEF A!SignIn, A!Authenticate, A!DeliverPasswordReset, A!ConfirmPasswordReset
  <2>2. CASE \/ A!ChangePassword \/ A!SoftDelete \/ A!Administer
             \/ (\E s \in Session : A!Logout(s)) \/ A!PruneAuthenticationSessions \/ A!HourPasses
    BY <2>2, AccountChanges, SessionsEnd, HourStep DEF A!Administer
  <2> QED BY <1>2, <2>1, <2>2 DEF A!AccountsNext
<1> QED BY <1>1, <1>2 DEF Next, vars, OrganizationScene, AccountsScene, PermissionsScene, KeysScene,
                          OperatorsScene, ConsoleScene

(* A session in use is younger than the last change of the password, a     *)
(* reset token changes the password once, and sessions only move forward:  *)
(* no late touch revives a revoked session or extends another one, for any *)
(* policy and any number of overlapping requests.                          *)
THEOREM AccountsAreSound == Spec => AccountsSound
<1>1. AccountsInv => A!SessionsOfThisReign /\ A!TokenWorksOnce
  BY DEF AccountsInv, TokensCount, A!TokenWorksOnce
<1> QED BY <1>1, AccountsStart, AccountsStep, PTL
        DEF Spec, AccountsSound, A!SessionsOnlyForward, SessionsForward

(***************************************************************************)
(* The operator console.                                                   *)
(***************************************************************************)

SubjectRow == [version : Nat, value : Nat]
AuditEntry == [on : C!Subject, before : Nat, after : Nat]
ConsoleCommand == [phase : {"idle", "loaded", "acted"}, name : C!Manifest \cup {"none"},
                   on : C!Subject \cup {"none"},
                   expected : {0} \cup {C!Given(args) : args \in ArgumentLists},
                   before : Nat, after : Nat, audit : BOOLEAN]
WorkerRow == [phase : {"stopped", "check", "decide", "wait", "ended"}, batch : Nat, poll : Nat,
              once : BOOLEAN, delay : Nat, total : Nat, processed : Nat, failed : BOOLEAN]

ConsoleType ==
  /\ subject \in [C!Subject -> SubjectRow]
  /\ command \in [Console -> ConsoleCommand]
  /\ trail \in Seq(AuditEntry)
  /\ commandGone \subseteq AuditEntry

(* Subjects whose commands record a success that changed nothing.          *)
Chatty == {"setting", "test", "delivery", "audit"}

(* What an entry says of its subject, with the subjects sub: a version the *)
(* subject has reached.                                                    *)
EntryHolds(e, sub) == e.after <= sub[e.on].version

(* What a command under way knows: its subject, and after the transaction  *)
(* the versions it moved between, one change at most; a change is always   *)
(* recorded.                                                               *)
CommandHolds(m, sub) ==
  /\ m.phase # "idle" => m.name \in C!Manifest /\ m.on = C!On(m.name)
  /\ m.phase = "acted" =>
       /\ m.after = m.before \/ m.after = m.before + 1
       /\ EntryHolds(m, sub)
       /\ m.before # m.after => m.audit
       /\ m.before = m.after /\ m.audit => m.on \in Chatty

EntriesHold ==
  /\ \A c \in Console : CommandHolds(command[c], subject)
  /\ \A i \in 1 .. Len(trail) : /\ EntryHolds(trail[i], subject)
                                /\ trail[i].before = trail[i].after => trail[i].on \in Chatty
  /\ \A e \in commandGone : EntryHolds(e, subject)

(* Where the record of a change is: at one place of the trail tr, with one *)
(* command of cmd that is about to store it, or among the records gn that  *)
(* were lost or pruned.                                                    *)
Change(s, k) == [on |-> s, before |-> k - 1, after |-> k]
Places(e, tr) == {i \in 1 .. Len(tr) : tr[i] = e}
Holders(e, cmd) == {c \in Console : cmd[c].phase = "acted" /\ C!Entry(cmd[c]) = e}
OnePlace(e, tr, cmd, gn) ==
  \/ (\E i \in Nat : Places(e, tr) = {i}) /\ Holders(e, cmd) = {} /\ e \notin gn
  \/ Places(e, tr) = {} /\ (\E c \in Console : Holders(e, cmd) = {c}) /\ e \notin gn
  \/ Places(e, tr) = {} /\ Holders(e, cmd) = {} /\ e \in gn
EachChangeOnce == \A s \in C!Subject : \A k \in Nat \ {0} :
  k <= subject[s].version => OnePlace(Change(s, k), trail, command, commandGone)

WorkerInv ==
  /\ worker \in WorkerRow
  /\ worker.phase = "decide" => worker.processed <= worker.batch
  /\ C!WorkerIsDiligent

ConsoleInv == ConsoleType /\ EntriesHold /\ EachChangeOnce /\ WorkerInv

(* Nothing was changed or recorded at first.                               *)
LEMMA ConsoleStart == Init => ConsoleInv
<1> SUFFICES ASSUME Init PROVE ConsoleInv
  OBVIOUS
<1>1. /\ subject = [s \in C!Subject |-> [version |-> 0, value |-> 0]]
      /\ command = [c \in Console |-> C!NoCommand] /\ trail = <<>> /\ commandGone = {}
      /\ worker = C!NoWorker
  BY DEF Init, C!CommandsInit
<1>2. C!NoCommand \in ConsoleCommand /\ C!NoCommand.phase = "idle"
  BY DEF ConsoleCommand, C!NoCommand
<1>3. ConsoleType BY <1>1, <1>2 DEF ConsoleType, SubjectRow
<1>4. EntriesHold BY <1>1, <1>2 DEF EntriesHold, CommandHolds
<1>5. EachChangeOnce BY <1>1 DEF EachChangeOnce
<1>6. WorkerInv BY <1>1 DEF WorkerInv, WorkerRow, C!NoWorker, C!WorkerIsDiligent
<1> QED BY <1>3, <1>4, <1>5, <1>6 DEF ConsoleInv

(* Appending an entry adds its place.                                      *)
LEMMA PlacesAfterAppend ==
  ASSUME NEW tr \in Seq(AuditEntry), NEW e \in AuditEntry, NEW ch
  PROVE  /\ ch # e => Places(ch, Append(tr, e)) = Places(ch, tr)
         /\ Places(e, Append(tr, e)) = Places(e, tr) \cup {Len(tr) + 1}
<1>1. /\ Len(Append(tr, e)) = Len(tr) + 1 /\ Len(tr) \in Nat
      /\ \A i \in 1 .. Len(tr) : Append(tr, e)[i] = tr[i]
      /\ Append(tr, e)[Len(tr) + 1] = e
  OBVIOUS
<1> QED BY <1>1 DEF Places

(* Pruning the oldest entry moves the others down.                         *)
LEMMA PlacesAfterPrune ==
  ASSUME NEW tr \in Seq(AuditEntry), tr # <<>>, NEW ch
  PROVE  /\ Places(ch, tr) = {} => Places(ch, Tail(tr)) = {} /\ Head(tr) # ch
         /\ \A i \in Nat : Places(ch, tr) = {i} =>
              IF Head(tr) = ch THEN Places(ch, Tail(tr)) = {}
              ELSE \E j \in Nat : Places(ch, Tail(tr)) = {j}
<1>1. /\ Len(tr) \in Nat /\ Len(tr) >= 1 /\ Head(tr) = tr[1] /\ Len(Tail(tr)) = Len(tr) - 1
      /\ \A j \in 1 .. Len(tr) - 1 : Tail(tr)[j] = tr[j + 1]
  OBVIOUS
<1>2. \A j \in Nat : j \in Places(ch, Tail(tr)) <=> j >= 1 /\ j + 1 \in Places(ch, tr)
  BY <1>1 DEF Places
<1>3. Head(tr) = ch <=> 1 \in Places(ch, tr) BY <1>1 DEF Places
<1>4. Places(ch, Tail(tr)) \subseteq Nat BY <1>1 DEF Places
<1>5. ASSUME NEW i \in Nat, Places(ch, tr) = {i}
      PROVE  IF Head(tr) = ch THEN Places(ch, Tail(tr)) = {}
             ELSE \E j \in Nat : Places(ch, Tail(tr)) = {j}
  <2>1. CASE i = 1
    <3>1. \A j \in Nat : j \notin Places(ch, Tail(tr)) BY <1>2, <1>5, <2>1
    <3> QED BY <1>3, <1>4, <1>5, <2>1, <3>1
  <2>2. CASE i # 1
    <3>1. i \in 1 .. Len(tr) BY <1>5 DEF Places
    <3>2. i - 1 \in Nat /\ i - 1 >= 1 /\ (i - 1) + 1 = i BY <1>1, <2>2, <3>1
    <3>3. \A j \in Nat : j \in Places(ch, Tail(tr)) <=> j = i - 1 BY <1>2, <1>5, <3>2
    <3>4. Places(ch, Tail(tr)) = {i - 1} BY <1>4, <3>2, <3>3
    <3>5. Head(tr) # ch BY <1>3, <1>5, <2>2
    <3> QED BY <3>2, <3>4, <3>5
  <2> QED BY <2>1, <2>2
<1>6. ASSUME Places(ch, tr) = {} PROVE Places(ch, Tail(tr)) = {} /\ Head(tr) # ch
  BY <1>2, <1>3, <1>4, <1>6
<1> QED BY <1>5, <1>6

(* The fields of a command's entry.                                        *)
LEMMA EntryFields ==
  ASSUME NEW m \in ConsoleCommand, NEW s, NEW k \in Nat
  PROVE  /\ C!Entry(m) = Change(s, k) => m.on = s /\ m.before = k - 1 /\ m.after = k
         /\ m.before = m.after => C!Entry(m) # Change(s, k)
         /\ m.on \in C!Subject => C!Entry(m) \in AuditEntry
<1>1. C!Entry(m) = [on |-> m.on, before |-> m.before, after |-> m.after]
      /\ Change(s, k) = [on |-> s, before |-> k - 1, after |-> k]
  BY DEF C!Entry, Change
<1>2. m.before \in Nat /\ m.after \in Nat BY DEF ConsoleCommand
<1>3. C!Entry(m) = Change(s, k) => m.on = s /\ m.before = k - 1 /\ m.after = k BY <1>1
<1>4. m.before = m.after => C!Entry(m) # Change(s, k) BY <1>2, <1>3
<1>5. m.on \in C!Subject => C!Entry(m) \in AuditEntry BY <1>1, <1>2 DEF AuditEntry
<1> QED BY <1>3, <1>4, <1>5

(* The subject of a command is one of the subjects.                        *)
LEMMA SubjectOf == \A name : C!On(name) \in C!Subject
BY DEF C!On, C!Subject

(* What a service makes of its subject: the row it was or the next version.*)
LEMMA OutcomeOf ==
  ASSUME subject \in [C!Subject -> SubjectRow], NEW name \in C!Manifest, NEW expected,
         NEW r \in C!Outcomes(name, expected)
  PROVE  /\ r \in SubjectRow
         /\ \/ r.version = subject[C!On(name)].version
            \/ r.version = subject[C!On(name)].version + 1
<1> DEFINE Next1(s) == {x \in SubjectRow : \/ x.version = subject[s].version
                                           \/ x.version = subject[s].version + 1}
<1>1. ASSUME NEW s \in C!Subject, NEW v \in Nat PROVE C!Stored(s, v) \in Next1(s)
  <2>0. subject[s] \in SubjectRow /\ subject[s].version \in Nat BY DEF SubjectRow
  <2>1. CASE subject[s].value = v
    <3>1. C!Stored(s, v) = subject[s] BY <2>1 DEF C!Stored
    <3> QED BY <2>0, <3>1
  <2>2. CASE subject[s].value # v
    <3> DEFINE n == subject[s].version + 1
    <3>1. C!Stored(s, v) = [version |-> n, value |-> v] BY <2>2 DEF C!Stored
    <3>2. n \in Nat BY <2>0
    <3> HIDE DEF n
    <3>3. C!Stored(s, v) \in SubjectRow /\ C!Stored(s, v).version = n BY <3>1, <3>2 DEF SubjectRow
    <3> QED BY <3>3 DEF n
  <2> QED BY <2>1, <2>2
<1>2. \A s \in C!Subject : subject[s] \in Next1(s) OBVIOUS
<1> HIDE DEF Next1
<1>3. 0 \in Nat /\ 1 \in Nat /\ 2 \in Nat OBVIOUS
<1>4. {"setting", "quota", "operator", "usage", "test", "delivery", "audit"} = C!Subject
  BY DEF C!Subject
<1>5. r \in Next1(C!On(name))
  <2>1. CASE name \in {"setting:set", "setting:reset"}
    <3>1. C!On(name) = "setting" BY <2>1 DEF C!On
    <3>2. r \in C!SettingCommand(name, expected) BY <2>1 DEF C!Outcomes
    <3>3. r = C!Stored("setting", 1) \/ r = C!Stored("setting", 0)
      BY <3>2 DEF C!SettingCommand, C!Versioned
    <3> QED BY <1>1, <1>3, <1>4, <3>1, <3>3
  <2>2. CASE name \in {"usage:quota:set", "usage:quota:reset"}
    <3>1. C!On(name) = "quota" BY <2>2 DEF C!On
    <3>2. r \in C!QuotaCommand(name, expected) BY <2>2 DEF C!Outcomes
    <3>3. r = C!Stored("quota", 1) \/ r = C!Stored("quota", 0)
      BY <3>2 DEF C!QuotaCommand, C!Versioned
    <3> QED BY <1>1, <1>3, <1>4, <3>1, <3>3
  <2>3. CASE name \in {"operator:grant", "operator:revoke"}
    <3>1. C!On(name) = "operator" BY <2>3 DEF C!On
    <3>2. r \in C!OperatorCommand(name) BY <2>3 DEF C!Outcomes
    <3>3. r = C!Stored("operator", 1) \/ r = C!Stored("operator", 0)
      BY <3>2 DEF C!OperatorCommand
    <3> QED BY <1>1, <1>3, <1>4, <3>1, <3>3
  <2>4. CASE name \in {"usage:record", "usage:consume"}
    <3>1. C!On(name) = "usage" BY <2>4 DEF C!On
    <3>2. r \in C!UsageRecordCommand \/ r \in C!UsageConsumeCommand BY <2>4 DEF C!Outcomes
    <3>3. r = subject["usage"] \/ r = C!Stored("usage", 1) \/ r = C!Stored("usage", 2)
      BY <3>2 DEF C!UsageRecordCommand, C!UsageConsumeCommand, C!Recorded
    <3> QED BY <1>1, <1>2, <1>3, <1>4, <3>1, <3>3
  <2>5. CASE name = "webhook:publish-test"
    <3>1. C!On(name) = "test" BY <2>5 DEF C!On
    <3>2. r \in C!WebhookPublishTestCommand BY <2>5 DEF C!Outcomes
    <3>3. r = subject["test"] \/ r = C!Stored("test", 1)
      BY <3>2 DEF C!WebhookPublishTestCommand, C!Recorded
    <3> QED BY <1>1, <1>2, <1>3, <1>4, <3>1, <3>3
  <2>6. CASE name = "webhook:replay"
    <3>1. C!On(name) = "delivery" BY <2>6 DEF C!On
    <3>2. r \in C!WebhookReplayCommand BY <2>6 DEF C!Outcomes
    <3>3. r = C!Stored("delivery", 0) BY <3>2 DEF C!WebhookReplayCommand
    <3> QED BY <1>1, <1>3, <1>4, <3>1, <3>3
  <2>7. CASE name = "audit:prune"
    <3>1. C!On(name) = "audit" BY <2>7 DEF C!On
    <3>2. r \in C!AuditPruneCommand BY <2>7 DEF C!Outcomes
    <3> QED BY <1>2, <1>4, <3>1, <3>2 DEF C!AuditPruneCommand
  <2> QED BY <2>1, <2>2, <2>3, <2>4, <2>5, <2>6, <2>7 DEF C!Manifest
<1> QED BY <1>5 DEF Next1

(* A command that holds no entry before and after moves nothing.           *)
LEMMA QuietMove ==
  ASSUME ConsoleInv, NEW c \in Console, NEW m \in ConsoleCommand, command[c].phase # "acted",
         m.phase # "acted", CommandHolds(m, subject), command' = [command EXCEPT ![c] = m],
         UNCHANGED <<subject, trail, commandGone>>
  PROVE  ConsoleType' /\ EntriesHold' /\ EachChangeOnce'
<1>0. ConsoleType /\ EntriesHold /\ EachChangeOnce BY DEF ConsoleInv
<1>1. \A d \in Console : command'[d] = IF d = c THEN m ELSE command[d] BY <1>0 DEF ConsoleType
<1>2. ConsoleType' BY <1>0 DEF ConsoleType
<1>3. EntriesHold' BY <1>0, <1>1 DEF EntriesHold
<1>4. \A e : Holders(e, command') = Holders(e, command) BY <1>1 DEF Holders
<1>5. EachChangeOnce' BY <1>0, <1>4 DEF EachChangeOnce, OnePlace
<1> QED BY <1>2, <1>3, <1>5

(* A command is loaded, or refused before it has changed anything.         *)
LEMMA LoadStep ==
  ASSUME ConsoleInv, NEW c \in Console,
         \/ \E name \in C!Manifest, args \in ArgumentLists : C!Load(c, name, args)
         \/ C!Refused(c)
  PROVE  ConsoleType' /\ EntriesHold' /\ EachChangeOnce'
<1>1. UNCHANGED <<subject, trail, commandGone>> /\ command[c].phase # "acted" BY DEF C!Load, C!Refused
<1>2. CASE C!Refused(c)
  <2>1. C!NoCommand \in ConsoleCommand /\ C!NoCommand.phase = "idle"
    BY DEF ConsoleCommand, C!NoCommand
  <2>2. command' = [command EXCEPT ![c] = C!NoCommand] BY <1>2 DEF C!Refused
  <2>3. CommandHolds(C!NoCommand, subject) BY <2>1 DEF CommandHolds
  <2> QED BY <1>1, <2>1, <2>2, <2>3, QuietMove
<1>3. ASSUME NEW name \in C!Manifest, NEW args \in ArgumentLists, C!Load(c, name, args)
      PROVE  ConsoleType' /\ EntriesHold' /\ EachChangeOnce'
  <2> DEFINE on == C!On(name)
             g == C!Given(args)
             m == [C!NoCommand EXCEPT !.phase = "loaded", !.name = name, !.on = on, !.expected = g]
  <2>1. command' = [command EXCEPT ![c] = m] BY <1>3 DEF C!Load
  <2>2. on \in C!Subject /\ g \in {0} \cup {C!Given(a) : a \in ArgumentLists} BY SubjectOf
  <2>3. on = C!On(name) OBVIOUS
  <2> HIDE DEF on, g
  <2>4. m \in ConsoleCommand /\ m.phase = "loaded" /\ m.name = name /\ m.on = on
    BY <2>2 DEF ConsoleCommand, C!NoCommand
  <2> HIDE DEF m
  <2>5. CommandHolds(m, subject) BY <2>3, <2>4 DEF CommandHolds
  <2> QED BY <1>1, <2>1, <2>4, <2>5, QuietMove
<1> QED BY <1>2, <1>3

(* Pruning keeps every record in one place.                                *)
LEMMA PruneKeepsPlaces ==
  ASSUME NEW tr \in Seq(AuditEntry), tr # <<>>, NEW e, NEW cmd, NEW gn, OnePlace(e, tr, cmd, gn)
  PROVE  OnePlace(e, Tail(tr), cmd, gn \cup {Head(tr)})
<1>1. CASE Places(e, tr) = {}
  <2>1. Places(e, Tail(tr)) = {} /\ Head(tr) # e BY <1>1, PlacesAfterPrune
  <2> QED BY <1>1, <2>1 DEF OnePlace
<1>2. ASSUME NEW i \in Nat, Places(e, tr) = {i} PROVE OnePlace(e, Tail(tr), cmd, gn \cup {Head(tr)})
  <2>1. Holders(e, cmd) = {} /\ e \notin gn BY <1>2 DEF OnePlace
  <2>2. IF Head(tr) = e THEN Places(e, Tail(tr)) = {} ELSE \E j \in Nat : Places(e, Tail(tr)) = {j}
    BY <1>2, PlacesAfterPrune
  <2> QED BY <2>1, <2>2 DEF OnePlace
<1> QED BY <1>1, <1>2 DEF OnePlace

(* The transaction: a new version has its entry with the command, and the  *)
(* earlier ones stay where they are.                                       *)
LEMMA ActStep ==
  ASSUME ConsoleInv, NEW c \in Console, C!Act(c)
  PROVE  ConsoleType' /\ EntriesHold' /\ EachChangeOnce'
<1> DEFINE s == command[c].on
           v == subject[s].version
<1>0. ConsoleType /\ EntriesHold /\ EachChangeOnce BY DEF ConsoleInv
<1>1. PICK r \in C!Outcomes(command[c].name, command[c].expected) :
        /\ subject' = [subject EXCEPT ![s] = r]
        /\ command' = [command EXCEPT ![c].phase = "acted", ![c].before = v, ![c].after = r.version,
                                      ![c].audit = C!Records(s, v, r.version)]
  BY DEF C!Act
<1>2. /\ command[c].phase = "loaded"
      /\ \/ trail # <<>> /\ trail' = Tail(trail) /\ commandGone' = commandGone \cup {Head(trail)}
         \/ UNCHANGED <<trail, commandGone>>
  BY DEF C!Act
<1>3. command[c] \in ConsoleCommand /\ command[c].name \in C!Manifest /\ s = C!On(command[c].name)
  BY <1>0, <1>2 DEF ConsoleType, EntriesHold, CommandHolds
<1>4. s \in C!Subject BY <1>3, SubjectOf
<1>5. r \in SubjectRow /\ (r.version = v \/ r.version = v + 1)
  BY <1>0, <1>1, <1>3, OutcomeOf DEF ConsoleType
<1>6. v \in Nat /\ r.version \in Nat
  BY <1>0, <1>4, <1>5 DEF ConsoleType, SubjectRow
<1> DEFINE b == C!Records(s, v, r.version)
           m == [command[c] EXCEPT !.phase = "acted", !.before = v, !.after = r.version, !.audit = b]
<1>7. b \in BOOLEAN /\ (v # r.version => b) /\ (b /\ v = r.version => s \in Chatty)
  BY <1>4 DEF C!Records, Chatty, C!Subject
<1>8. command' = [command EXCEPT ![c] = m] BY <1>0, <1>1 DEF ConsoleType
<1> HIDE DEF b, v
<1>9. /\ m \in ConsoleCommand /\ m.phase = "acted" /\ m.before = v /\ m.after = r.version
      /\ m.audit = b /\ m.on = s /\ m.name = command[c].name
  BY <1>3, <1>6, <1>7 DEF ConsoleCommand
<1> HIDE DEF s, m
<1>10. /\ subject' \in [C!Subject -> SubjectRow] /\ subject'[s] = r
       /\ \A x \in C!Subject : x # s => subject'[x] = subject[x]
  BY <1>0, <1>1, <1>4, <1>5 DEF ConsoleType
<1>11. ASSUME NEW x \in C!Subject PROVE subject'[x].version >= subject[x].version
  <2>1. CASE x = s BY <1>5, <1>6, <1>10, <2>1 DEF v
  <2>2. CASE x # s
    <3>1. subject[x].version \in Nat BY <1>0 DEF ConsoleType, SubjectRow
    <3> QED BY <1>10, <2>2, <3>1
  <2> QED BY <2>1, <2>2
<1>12. \A x \in C!Subject : subject[x].version \in Nat /\ subject'[x].version \in Nat
  BY <1>0, <1>10 DEF ConsoleType, SubjectRow
<1>13. \A d \in Console : command'[d] = IF d = c THEN m ELSE command[d]
  BY <1>0, <1>8 DEF ConsoleType
<1>14. /\ trail' \in Seq(AuditEntry) /\ commandGone' \subseteq AuditEntry
       /\ \A i \in 1 .. Len(trail') : \E j \in 1 .. Len(trail) : trail'[i] = trail[j]
       /\ \A e \in commandGone' : e \in commandGone \/ \E j \in 1 .. Len(trail) : e = trail[j]
  <2>0. trail \in Seq(AuditEntry) /\ commandGone \subseteq AuditEntry BY <1>0 DEF ConsoleType
  <2>1. CASE UNCHANGED <<trail, commandGone>> BY <2>0, <2>1
  <2>2. CASE trail # <<>> /\ trail' = Tail(trail) /\ commandGone' = commandGone \cup {Head(trail)}
    <3>1. /\ Len(trail) \in Nat /\ Len(trail) >= 1 /\ Head(trail) = trail[1]
          /\ Len(Tail(trail)) = Len(trail) - 1 /\ Tail(trail) \in Seq(AuditEntry)
          /\ \A i \in 1 .. Len(trail) - 1 : Tail(trail)[i] = trail[i + 1]
      BY <2>0, <2>2
    <3>2. 1 \in 1 .. Len(trail) /\ \A i \in 1 .. Len(trail) - 1 : i + 1 \in 1 .. Len(trail) BY <3>1
    <3>3. trail[1] \in AuditEntry BY <2>0, <3>2
    <3>4. Len(trail') = Len(trail) - 1 /\ \A i \in 1 .. Len(trail) - 1 : trail'[i] = trail[i + 1]
      BY <2>2, <3>1
    <3>5. \A i \in 1 .. Len(trail') : \E j \in 1 .. Len(trail) : trail'[i] = trail[j]
      <4> TAKE i \in 1 .. Len(trail')
      <4>1. i \in 1 .. Len(trail) - 1 BY <3>4
      <4> QED BY <3>2, <3>4, <4>1
    <3> QED BY <2>0, <2>2, <3>1, <3>2, <3>3, <3>5
  <2> QED BY <1>2, <2>1, <2>2
<1>15. ConsoleType' BY <1>0, <1>8, <1>9, <1>10, <1>14 DEF ConsoleType
<1>16. ASSUME NEW e, e.on \in C!Subject, e.after \in Nat, EntryHolds(e, subject)
       PROVE  EntryHolds(e, subject')
  BY <1>11, <1>12, <1>16 DEF EntryHolds
<1>17. EntriesHold'
  <2>0. EntryHolds(m, subject')
    <3>1. subject'[m.on].version = m.after BY <1>9, <1>10
    <3> QED BY <1>6, <1>9, <3>1 DEF EntryHolds
  <2>1. ASSUME NEW d \in Console PROVE CommandHolds(command'[d], subject')
    <3>1. CASE d = c
      <4>1. CommandHolds(m, subject') BY <1>3, <1>5, <1>7, <1>9, <2>0 DEF CommandHolds
      <4> QED BY <1>13, <3>1, <4>1
    <3>2. CASE d # c
      <4>1. CommandHolds(command[d], subject) /\ command[d] \in ConsoleCommand
        BY <1>0 DEF EntriesHold, ConsoleType
      <4>2. command[d].phase = "acted" => EntryHolds(command[d], subject')
        <5> HAVE command[d].phase = "acted"
        <5>1. command[d].on \in C!Subject /\ command[d].after \in Nat
          BY <4>1, SubjectOf DEF CommandHolds, ConsoleCommand
        <5> QED BY <1>16, <4>1, <5>1 DEF CommandHolds
      <4>3. CommandHolds(command[d], subject') BY <4>1, <4>2 DEF CommandHolds
      <4> QED BY <1>13, <3>2, <4>3
    <3> QED BY <3>1, <3>2
  <2>2. \A j \in 1 .. Len(trail) : EntryHolds(trail[j], subject') /\ trail[j] \in AuditEntry
    <3> TAKE j \in 1 .. Len(trail)
    <3>1. trail[j] \in AuditEntry BY <1>0 DEF ConsoleType
    <3>2. trail[j].on \in C!Subject /\ trail[j].after \in Nat BY <3>1 DEF AuditEntry
    <3>3. EntryHolds(trail[j], subject) BY <1>0 DEF EntriesHold
    <3> QED BY <1>16, <3>1, <3>2, <3>3
  <2>3. \A e \in commandGone : EntryHolds(e, subject')
    <3> TAKE e \in commandGone
    <3>1. e \in AuditEntry BY <1>0 DEF ConsoleType
    <3>2. e.on \in C!Subject /\ e.after \in Nat BY <3>1 DEF AuditEntry
    <3>3. EntryHolds(e, subject) BY <1>0 DEF EntriesHold
    <3> QED BY <1>16, <3>2, <3>3
  <2>4. \A i \in 1 .. Len(trail') : /\ EntryHolds(trail'[i], subject')
                                    /\ trail'[i].before = trail'[i].after => trail'[i].on \in Chatty
    BY <1>0, <1>14, <2>2 DEF EntriesHold
  <2>5. \A e \in commandGone' : EntryHolds(e, subject') BY <1>14, <2>2, <2>3
  <2> QED BY <2>1, <2>4, <2>5 DEF EntriesHold
<1>18. ASSUME NEW x \in C!Subject, NEW k \in Nat \ {0}, k <= subject'[x].version
       PROVE  OnePlace(Change(x, k), trail', command', commandGone')
  <2> DEFINE e == Change(x, k)
  <2>0. command \in [Console -> ConsoleCommand] /\ trail \in Seq(AuditEntry) BY <1>0 DEF ConsoleType
  <2>1. c \notin Holders(e, command) BY <1>2 DEF Holders
  <2>2. CASE k <= subject[x].version
    <3>1. OnePlace(e, trail, command, commandGone) BY <1>0, <2>2 DEF EachChangeOnce
    <3>2. OnePlace(e, trail', command, commandGone')
      <4>1. CASE UNCHANGED <<trail, commandGone>> BY <3>1, <4>1
      <4>2. CASE trail # <<>> /\ trail' = Tail(trail) /\ commandGone' = commandGone \cup {Head(trail)}
        BY <2>0, <3>1, <4>2, PruneKeepsPlaces
      <4> QED BY <1>2, <4>1, <4>2
    <3>3. C!Entry(m) # e
      <4> SUFFICES ASSUME C!Entry(m) = e PROVE FALSE
        OBVIOUS
      <4>1. m.on = x /\ m.before = k - 1 /\ m.after = k BY <1>9, EntryFields
      <4>2. v = k - 1 /\ subject[x].version = v BY <1>9, <4>1 DEF v
      <4> QED BY <1>6, <2>2, <4>2
    <3>4. Holders(e, command') = Holders(e, command)
      BY <1>13, <2>1, <3>3 DEF Holders
    <3> QED BY <3>2, <3>4 DEF OnePlace
  <2>3. CASE ~(k <= subject[x].version)
    <3>1. x = s /\ k = v + 1 /\ r.version = v + 1
      <4>1. x = s BY <1>10, <1>18, <2>3
      <4> QED BY <1>5, <1>6, <1>10, <1>18, <2>3, <4>1 DEF v
    <3>2. C!Entry(m) = e
      <4>1. k - 1 = v BY <1>6, <3>1
      <4> QED BY <1>9, <3>1, <4>1 DEF C!Entry, Change
    <3>3. e.after = k /\ e.on = x BY DEF Change
    <3>4. ~EntryHolds(e, subject) BY <2>3, <3>3 DEF EntryHolds
    <3>5. Places(e, trail) = {} /\ e \notin commandGone BY <1>0, <3>4 DEF EntriesHold, Places
    <3>6. Holders(e, command) = {}
      <4> SUFFICES ASSUME NEW d \in Console, command[d].phase = "acted", C!Entry(command[d]) = e
                   PROVE  FALSE
        BY DEF Holders
      <4>1. command[d].on = x /\ command[d].after = k BY <2>0, EntryFields
      <4>2. EntryHolds(command[d], subject) BY <1>0 DEF EntriesHold, CommandHolds
      <4> QED BY <2>3, <4>1, <4>2 DEF EntryHolds
    <3>7. Holders(e, command') = {c} BY <1>9, <1>13, <3>2, <3>6 DEF Holders
    <3>8. Places(e, trail') = {}
      <4> SUFFICES ASSUME NEW i \in 1 .. Len(trail'), trail'[i] = e PROVE FALSE
        BY DEF Places
      <4>1. PICK j \in 1 .. Len(trail) : trail[j] = e BY <1>14
      <4> QED BY <3>5, <4>1 DEF Places
    <3>9. e \notin commandGone' BY <1>14, <3>5 DEF Places
    <3> HIDE DEF e
    <3>10. OnePlace(e, trail', command', commandGone') BY <3>7, <3>8, <3>9 DEF OnePlace
    <3> QED BY <3>10 DEF e
  <2> QED BY <2>2, <2>3
<1> QED BY <1>15, <1>17, <1>18 DEF EachChangeOnce

(* The command ends: its entry goes to the trail, or is lost.              *)
LEMMA RecordStep ==
  ASSUME ConsoleInv, NEW c \in Console, C!RecordAudit(c) \/ C!AuditFails(c)
  PROVE  ConsoleType' /\ EntriesHold' /\ EachChangeOnce'
<1> DEFINE m == command[c]
           new == C!Entry(m)
<1>0. ConsoleType /\ EntriesHold /\ EachChangeOnce BY DEF ConsoleInv
<1>1. /\ m.phase = "acted" /\ command' = [command EXCEPT ![c] = C!NoCommand] /\ UNCHANGED subject
      /\ \/ ~m.audit /\ UNCHANGED <<trail, commandGone>>
         \/ m.audit /\ trail' = Append(trail, new) /\ UNCHANGED commandGone
         \/ m.audit /\ UNCHANGED trail /\ commandGone' = commandGone \cup {new}
  BY DEF C!RecordAudit, C!AuditFails
<1>2. m \in ConsoleCommand /\ CommandHolds(m, subject) /\ trail \in Seq(AuditEntry)
  BY <1>0 DEF ConsoleType, EntriesHold
<1>3. m.on \in C!Subject BY <1>1, <1>2, SubjectOf DEF CommandHolds
<1>4. /\ new \in AuditEntry /\ EntryHolds(new, subject)
      /\ m.audit /\ new.before = new.after => new.on \in Chatty
  <2>1. new \in AuditEntry BY <1>2, <1>3, EntryFields
  <2>2. new.on = m.on /\ new.before = m.before /\ new.after = m.after BY DEF C!Entry
  <2>3. EntryHolds(m, subject) /\ (m.before = m.after /\ m.audit => m.on \in Chatty)
    BY <1>1, <1>2 DEF CommandHolds
  <2> QED BY <2>1, <2>2, <2>3 DEF EntryHolds
<1>5. C!NoCommand \in ConsoleCommand /\ C!NoCommand.phase = "idle"
  BY DEF ConsoleCommand, C!NoCommand
<1>6. \A d \in Console : command'[d] = IF d = c THEN C!NoCommand ELSE command[d]
  BY <1>0, <1>1 DEF ConsoleType
<1>7. /\ Len(trail) \in Nat /\ Append(trail, new) \in Seq(AuditEntry)
      /\ Len(Append(trail, new)) = Len(trail) + 1 /\ Append(trail, new)[Len(trail) + 1] = new
      /\ \A i \in 1 .. Len(trail) : Append(trail, new)[i] = trail[i]
  BY <1>2, <1>4
<1>8. ConsoleType'
  <2>1. trail' \in Seq(AuditEntry) /\ commandGone' \subseteq AuditEntry
    BY <1>0, <1>1, <1>4, <1>7 DEF ConsoleType
  <2> QED BY <1>0, <1>1, <1>5, <2>1 DEF ConsoleType
<1>n. \A s \in C!Subject : \A k \in Nat \ {0} : new = Change(s, k) => m.audit
  <2> TAKE s \in C!Subject
  <2> TAKE k \in Nat \ {0}
  <2> HAVE new = Change(s, k)
  <2>1. m.before # m.after BY <1>2, EntryFields
  <2> QED BY <1>1, <1>2, <2>1 DEF CommandHolds
<1>h. \A e : /\ e # new => Holders(e, command') = Holders(e, command)
             /\ Holders(new, command') = Holders(new, command) \ {c}
             /\ c \in Holders(new, command)
  BY <1>1, <1>5, <1>6 DEF Holders
<1> HIDE DEF m, new
<1>9. EntriesHold'
  <2>1. CommandHolds(C!NoCommand, subject) BY <1>5 DEF CommandHolds
  <2>2. \A d \in Console : CommandHolds(command'[d], subject') BY <1>0, <1>1, <1>6, <2>1 DEF EntriesHold
  <2>3. \A i \in 1 .. Len(trail') : /\ EntryHolds(trail'[i], subject')
                                    /\ trail'[i].before = trail'[i].after => trail'[i].on \in Chatty
    <3>1. CASE UNCHANGED trail BY <1>0, <1>1, <3>1 DEF EntriesHold
    <3>2. CASE m.audit /\ trail' = Append(trail, new)
      <4> TAKE i \in 1 .. Len(trail')
      <4>1. CASE i \in 1 .. Len(trail)
        <5>1. trail'[i] = trail[i] BY <1>7, <3>2, <4>1
        <5> QED BY <1>0, <1>1, <4>1, <5>1 DEF EntriesHold
      <4>2. CASE i \notin 1 .. Len(trail)
        <5>1. i = Len(trail) + 1 BY <1>7, <3>2, <4>2
        <5>2. trail'[i] = new BY <1>7, <3>2, <5>1
        <5> QED BY <1>1, <1>4, <3>2, <5>2
      <4> QED BY <4>1, <4>2
    <3> QED BY <1>1, <3>1, <3>2
  <2>4. \A e \in commandGone' : EntryHolds(e, subject') BY <1>0, <1>1, <1>4 DEF EntriesHold
  <2> QED BY <2>2, <2>3, <2>4 DEF EntriesHold
<1>10. ASSUME NEW s \in C!Subject, NEW k \in Nat \ {0}, k <= subject'[s].version
       PROVE  OnePlace(Change(s, k), trail', command', commandGone')
  <2> DEFINE e == Change(s, k)
  <2>1. OnePlace(e, trail, command, commandGone) BY <1>0, <1>1, <1>10 DEF EachChangeOnce
  <2>n. e = new => m.audit BY <1>n
  <2> HIDE DEF e
  <2>2. CASE e # new
    <3>1. Holders(e, command') = Holders(e, command) BY <1>h, <2>2
    <3>2. Places(e, trail') = Places(e, trail)
      <4>1. Places(e, Append(trail, new)) = Places(e, trail) BY <1>2, <1>4, <2>2, PlacesAfterAppend
      <4> QED BY <1>1, <4>1
    <3>3. e \in commandGone' <=> e \in commandGone BY <1>1, <2>2
    <3> QED BY <2>1, <3>1, <3>2, <3>3 DEF OnePlace, e
  <2>3. CASE e = new
    <3>1. /\ Places(new, trail) = {} /\ new \notin commandGone
          /\ \E d \in Console : Holders(new, command) = {d}
      BY <1>h, <2>1, <2>3 DEF OnePlace
    <3>2. Holders(new, command') = {} BY <1>h, <3>1
    <3>3. CASE trail' = Append(trail, new) /\ UNCHANGED commandGone
      <4>1. Places(new, trail') = {Len(trail) + 1} BY <1>2, <1>4, <3>1, <3>3, PlacesAfterAppend
      <4>2. Len(trail) + 1 \in Nat BY <1>7
      <4>3. OnePlace(new, trail', command', commandGone') BY <3>1, <3>2, <3>3, <4>1, <4>2 DEF OnePlace
      <4> QED BY <2>3, <4>3 DEF e
    <3>4. CASE UNCHANGED trail /\ commandGone' = commandGone \cup {new}
      <4>1. OnePlace(new, trail', command', commandGone') BY <3>1, <3>2, <3>4 DEF OnePlace
      <4> QED BY <2>3, <4>1 DEF e
    <3> QED BY <1>1, <2>n, <2>3, <3>3, <3>4
  <2> QED BY <2>2, <2>3
<1> QED BY <1>8, <1>9, <1>10 DEF EachChangeOnce

(* A step that changes no version, no command and no record.               *)
LEMMA RecordsStay ==
  ASSUME ConsoleInv, UNCHANGED <<command, trail, commandGone>>,
         subject' \in [C!Subject -> SubjectRow],
         \A s \in C!Subject : subject'[s].version = subject[s].version
  PROVE  ConsoleType' /\ EntriesHold' /\ EachChangeOnce'
<1>0. ConsoleType /\ EntriesHold /\ EachChangeOnce BY DEF ConsoleInv
<1>1. ConsoleType' BY <1>0 DEF ConsoleType
<1>2. EachChangeOnce' BY <1>0 DEF EachChangeOnce
<1>3. \A e : e.on \in C!Subject /\ EntryHolds(e, subject) => EntryHolds(e, subject') BY DEF EntryHolds
<1>4. \A d \in Console : CommandHolds(command[d], subject')
  <2> TAKE d \in Console
  <2>1. CommandHolds(command[d], subject) BY <1>0 DEF EntriesHold
  <2>2. command[d].phase # "idle" => command[d].on \in C!Subject BY <2>1, SubjectOf DEF CommandHolds
  <2> QED BY <1>3, <2>1, <2>2 DEF CommandHolds
<1>5. \A i \in 1 .. Len(trail) : EntryHolds(trail[i], subject')
  <2> TAKE i \in 1 .. Len(trail)
  <2>1. trail[i] \in AuditEntry /\ EntryHolds(trail[i], subject) BY <1>0 DEF ConsoleType, EntriesHold
  <2> QED BY <1>3, <2>1 DEF AuditEntry
<1>6. \A e \in commandGone : EntryHolds(e, subject')
  <2> TAKE e \in commandGone
  <2>1. e \in AuditEntry /\ EntryHolds(e, subject) BY <1>0 DEF ConsoleType, EntriesHold
  <2> QED BY <1>3, <2>1 DEF AuditEntry
<1>7. EntriesHold' BY <1>0, <1>4, <1>5, <1>6 DEF EntriesHold
<1> QED BY <1>1, <1>2, <1>7

(* The webhook worker: the pause is the poll or within the cap, and it is  *)
(* taken only after a failure or a batch that was not full.                *)
LEMMA WorkerStep == ConsoleInv /\ C!WorkerNext => ConsoleInv'
<1> SUFFICES ASSUME ConsoleInv, C!WorkerNext PROVE ConsoleInv'
  OBVIOUS
<1>0. ConsoleType /\ WorkerInv BY DEF ConsoleInv
<1>w. /\ worker \in WorkerRow /\ MaxDelay \in Nat /\ MaxBatch \in Nat /\ Polls \subseteq Nat
      /\ worker.delay <= worker.poll \/ worker.delay <= MaxDelay
  BY <1>0, TenancyAssumption DEF WorkerInv, C!CommandsAssumption, C!WorkerIsDiligent
<1>f. /\ worker.batch \in Nat /\ worker.poll \in Nat /\ worker.delay \in Nat /\ worker.total \in Nat
      /\ worker.processed \in Nat /\ worker.once \in BOOLEAN /\ worker.failed \in BOOLEAN
  BY <1>w DEF WorkerRow
<1>1. ConsoleType' /\ EntriesHold' /\ EachChangeOnce'
  <2>1. CASE UNCHANGED <<subject, command, trail, commandGone>>
    <3>1. subject \in [C!Subject -> SubjectRow] BY <1>0 DEF ConsoleType
    <3> QED BY <2>1, <3>1, RecordsStay
  <2>2. ASSUME NEW n \in 0 .. MaxBatch, NEW failed \in BOOLEAN, C!DispatchBatch(n, failed)
        PROVE  ConsoleType' /\ EntriesHold' /\ EachChangeOnce'
    <3> DEFINE old == subject["delivery"]
               val == IF n > 0 THEN 1 ELSE old.value
               row == [old EXCEPT !.value = val]
    <3>0. subject \in [C!Subject -> SubjectRow] /\ "delivery" \in C!Subject
      BY <1>0 DEF ConsoleType, C!Subject
    <3>1. UNCHANGED <<command, trail, commandGone>> BY <2>2 DEF C!DispatchBatch
    <3>2. subject' = [subject EXCEPT !["delivery"] = row] BY <2>2 DEF C!DispatchBatch
    <3>3. old \in SubjectRow BY <3>0
    <3>4. val \in Nat BY <3>3 DEF SubjectRow
    <3> HIDE DEF old, val
    <3>5. row \in SubjectRow /\ row.version = old.version BY <3>3, <3>4 DEF SubjectRow
    <3> HIDE DEF row
    <3>6. /\ subject' \in [C!Subject -> SubjectRow]
          /\ \A s \in C!Subject : subject'[s] = IF s = "delivery" THEN row ELSE subject[s]
      BY <3>0, <3>2, <3>5
    <3>7. \A s \in C!Subject : subject'[s].version = subject[s].version BY <3>5, <3>6 DEF old
    <3> QED BY <3>1, <3>6, <3>7, RecordsStay
  <2> QED BY <2>1, <2>2 DEF C!WorkerNext, C!Arrive, C!StartWorker, C!runWebhookWorker,
                            C!waitForWebhookWorker, C!StopWorker
<1>2. WorkerInv'
  <2>1. CASE UNCHANGED worker BY <1>0, <2>1 DEF WorkerInv, C!WorkerIsDiligent
  <2>2. ASSUME NEW batch \in 1 .. MaxBatch, NEW poll \in Polls, NEW once \in BOOLEAN,
               C!StartWorker(batch, poll, once)
        PROVE  WorkerInv'
    <3>1. worker' = [C!NoWorker EXCEPT !.phase = "check", !.batch = batch, !.poll = poll, !.once = once,
                                       !.delay = poll]
      BY <2>2 DEF C!StartWorker
    <3>2. batch \in Nat /\ poll \in Nat BY <1>w
    <3>3. worker' \in WorkerRow /\ worker'.phase = "check" /\ worker'.delay = poll /\ worker'.poll = poll
      BY <3>1, <3>2 DEF WorkerRow, C!NoWorker
    <3> QED BY <3>2, <3>3 DEF WorkerInv, C!WorkerIsDiligent
  <2>3. ASSUME NEW n \in 0 .. MaxBatch, NEW failed \in BOOLEAN, C!DispatchBatch(n, failed)
        PROVE  WorkerInv'
    <3> DEFINE t == worker.total + n
    <3>1. n <= worker.batch /\ worker' = [worker EXCEPT !.total = t, !.processed = n,
                                                         !.failed = failed, !.phase = "decide"]
      BY <2>3 DEF C!DispatchBatch
    <3>2. n \in Nat /\ t \in Nat BY <1>w, <1>f
    <3> HIDE DEF t
    <3>3. /\ worker' \in WorkerRow /\ worker'.phase = "decide" /\ worker'.processed = n
          /\ worker'.batch = worker.batch /\ worker'.delay = worker.delay /\ worker'.poll = worker.poll
      BY <1>w, <3>1, <3>2 DEF WorkerRow
    <3> QED BY <1>w, <3>1, <3>3 DEF WorkerInv, C!WorkerIsDiligent
  <2>4. CASE C!Ended = worker'
    <3>1. worker' = [C!NoWorker EXCEPT !.phase = "ended", !.total = worker.total]
      BY <2>4 DEF C!Ended
    <3>2. worker' \in WorkerRow /\ worker'.phase = "ended" /\ worker'.delay = 1 /\ worker'.poll = 1
      BY <1>f, <3>1 DEF WorkerRow, C!NoWorker
    <3> QED BY <3>2 DEF WorkerInv, C!WorkerIsDiligent
  <2>5. CASE C!runWebhookWorker
    <3> DEFINE d == IF worker.failed THEN worker.delay ELSE worker.poll
               p == IF C!GoesOn THEN "check" ELSE "wait"
    <3>1. worker.phase = "decide" /\ (worker' = C!Ended \/ worker' = [worker EXCEPT !.delay = d, !.phase = p])
      BY <2>5 DEF C!runWebhookWorker
    <3>2. CASE worker' = [worker EXCEPT !.delay = d, !.phase = p]
      <4>1. d \in Nat /\ p \in {"check", "wait"} BY <1>f
      <4>2. /\ p = "wait" => worker.failed \/ worker.processed # worker.batch
            /\ ~worker.failed => d = worker.poll
            /\ worker.failed => d = worker.delay
        BY DEF C!GoesOn
      <4> HIDE DEF d, p
      <4>3. /\ worker' \in WorkerRow /\ worker'.phase = p /\ worker'.delay = d
            /\ worker'.poll = worker.poll /\ worker'.processed = worker.processed
            /\ worker'.batch = worker.batch /\ worker'.failed = worker.failed
        BY <1>w, <3>2, <4>1 DEF WorkerRow
      <4>4. worker.processed <= worker.batch BY <1>0, <3>1 DEF WorkerInv
      <4>5. d <= worker.poll \/ d <= MaxDelay BY <1>w, <1>f, <4>2
      <4>6. p = "wait" => worker.failed \/ (worker.processed < worker.batch /\ d = worker.poll)
        BY <1>f, <4>2, <4>4
      <4>7. C!WorkerIsDiligent' BY <4>3, <4>5, <4>6 DEF C!WorkerIsDiligent
      <4> QED BY <4>1, <4>3, <4>7 DEF WorkerInv
    <3> QED BY <2>4, <3>1, <3>2
  <2>6. CASE C!waitForWebhookWorker
    <3> DEFINE d == IF worker.failed THEN C!SmallerOf(2 * worker.delay, MaxDelay) ELSE worker.delay
    <3>1. worker' = [worker EXCEPT !.phase = "check", !.delay = d] BY <2>6 DEF C!waitForWebhookWorker
    <3>2. d \in Nat /\ (d <= worker.poll \/ d <= MaxDelay)
      <4>1. 2 * worker.delay \in Nat BY <1>f
      <4>2. C!SmallerOf(2 * worker.delay, MaxDelay) \in Nat
            /\ C!SmallerOf(2 * worker.delay, MaxDelay) <= MaxDelay
        BY <1>w, <4>1 DEF C!SmallerOf
      <4> QED BY <1>w, <1>f, <4>2
    <3> HIDE DEF d
    <3>3. /\ worker' \in WorkerRow /\ worker'.phase = "check" /\ worker'.delay = d
          /\ worker'.poll = worker.poll
      BY <1>w, <3>1, <3>2 DEF WorkerRow
    <3> QED BY <3>2, <3>3 DEF WorkerInv, C!WorkerIsDiligent
  <2> QED BY <2>1, <2>2, <2>3, <2>4, <2>5, <2>6 DEF C!WorkerNext, C!Arrive, C!StopWorker
<1> QED BY <1>1, <1>2 DEF ConsoleInv

(* One step of any component keeps the console sound.                      *)
LEMMA ConsoleStep == ConsoleInv /\ [Next]_vars => ConsoleInv'
<1> SUFFICES ASSUME ConsoleInv, [Next]_vars PROVE ConsoleInv'
  OBVIOUS
<1>1. CASE UNCHANGED consoleVars
  BY <1>1 DEF consoleVars, ConsoleInv, ConsoleType, EntriesHold, EachChangeOnce, WorkerInv,
              C!WorkerIsDiligent
<1>2. CASE C!CommandNext
  <2>1. UNCHANGED worker
    BY <1>2 DEF C!CommandNext, C!Load, C!Act, C!Refused, C!RecordAudit, C!AuditFails
  <2>2. WorkerInv' BY <2>1 DEF ConsoleInv, WorkerInv, C!WorkerIsDiligent
  <2>3. ConsoleType' /\ EntriesHold' /\ EachChangeOnce'
    BY <1>2, LoadStep, ActStep, RecordStep DEF C!CommandNext
  <2> QED BY <2>2, <2>3 DEF ConsoleInv
<1> QED BY <1>1, <1>2, WorkerStep DEF C!CommandsNext, Next, vars, OrganizationScene, AccountsScene,
                          PermissionsScene, KeysScene, OperatorsScene, ConsoleScene

(* Every change an operator command made has exactly one audit record      *)
(* unless storing it failed or it was pruned, for any number of shells and *)
(* commands, and the webhook worker waits only after a failure or with     *)
(* nothing left to send (operatorcommands, runWebhookWorker).              *)
THEOREM ConsoleIsSound == Spec => []ConsoleSound
<1>1. ConsoleInv => ConsoleSound
  <2> SUFFICES ASSUME ConsoleInv PROVE C!TrailIsTrue
    BY DEF ConsoleInv, WorkerInv, ConsoleSound, C!CommandsSound
  <2>0. ConsoleType /\ EntriesHold /\ EachChangeOnce BY DEF ConsoleInv
  <2>1. DOMAIN trail = 1 .. Len(trail) BY <2>0 DEF ConsoleType
  <2>2. \A i \in DOMAIN trail : /\ trail[i].after <= subject[trail[i].on].version
                                /\ trail[i].before = trail[i].after => trail[i].on \in Chatty
    BY <2>0, <2>1 DEF EntriesHold, EntryHolds
  <2>3. ASSUME NEW s \in C!Subject, NEW k \in 1 .. subject[s].version
        PROVE  Cardinality({i \in DOMAIN trail : trail[i] = Change(s, k)})
                 + Cardinality({c \in Console : command[c].phase = "acted"
                                                /\ C!Entry(command[c]) = Change(s, k)})
                 + Cardinality({Change(s, k)} \cap commandGone) = 1
    <3> DEFINE e == Change(s, k)
               inTrail == Places(e, trail)
               held == Holders(e, command)
               lost == {e} \cap commandGone
    <3>1. k \in Nat \ {0} /\ k <= subject[s].version
      <4>1. subject[s].version \in Nat BY <2>0 DEF ConsoleType, SubjectRow
      <4> QED BY <4>1
    <3>2. OnePlace(e, trail, command, commandGone) BY <2>0, <3>1 DEF EachChangeOnce
    <3>3. /\ inTrail = {i \in DOMAIN trail : trail[i] = e}
          /\ held = {c \in Console : command[c].phase = "acted" /\ C!Entry(command[c]) = e}
          /\ lost = {e} \cap commandGone
      BY <2>1 DEF Places, Holders
    <3>4. \/ (\E i : inTrail = {i}) /\ held = {} /\ lost = {}
          \/ inTrail = {} /\ (\E c : held = {c}) /\ lost = {}
          \/ inTrail = {} /\ held = {} /\ (\E x : lost = {x})
      BY <3>2 DEF OnePlace
    <3> HIDE DEF inTrail, held, lost
    <3>5. Cardinality({}) = 0 BY FS_EmptySet
    <3>6. \A x : Cardinality({x}) = 1 BY FS_Singleton
    <3>7. /\ Cardinality(inTrail) \in {0, 1} /\ Cardinality(held) \in {0, 1} /\ Cardinality(lost) \in {0, 1}
          /\ \/ Cardinality(inTrail) = 1 /\ Cardinality(held) = 0 /\ Cardinality(lost) = 0
             \/ Cardinality(inTrail) = 0 /\ Cardinality(held) = 1 /\ Cardinality(lost) = 0
             \/ Cardinality(inTrail) = 0 /\ Cardinality(held) = 0 /\ Cardinality(lost) = 1
      BY <3>4, <3>5, <3>6, Zenon
    <3>8. Cardinality(inTrail) + Cardinality(held) + Cardinality(lost) = 1 BY <3>7
    <3> QED BY <3>3, <3>8
  <2>4. \A set : C!Cardinality(set) = Cardinality(set) BY DEF C!Cardinality, Cardinality
  <2> QED BY <2>2, <2>3, <2>4, Zenon DEF C!TrailIsTrue, Chatty, Change
<1> QED BY <1>1, ConsoleStart, ConsoleStep, PTL DEF Spec
===============================================================================
