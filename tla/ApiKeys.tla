-------------------------------- MODULE ApiKeys --------------------------------
(* API keys of a user (api/internal/modules/apikey): a request reads the    *)
(* key, decides, and records the use afterwards with a conditional update. *)
EXTENDS Naturals, FiniteSets

CONSTANTS
  ApiKey,       \* keys that may be created
  Scope,        \* scopes a key may carry; AnyScope grants them all
  AnyScope,
  Caller,       \* requests that overlap
  UseThrottle,  \* lastUsedAtThrottle
  MaxMinute     \* bound: the clock stops here

ApiKeysAssumption == AnyScope \in Scope /\ UseThrottle \in Nat \ {0}

VARIABLES
  key,       \* rows of api_keys
  call,      \* requests under way
  minute,    \* the time
  revocations  \* history: revocations recorded in the audit log, by key

apiKeysVars == <<key, call, minute, revocations>>

NoKey == [state |-> "none"]
NoCall == [at |-> "none"]
Never == 0

ApiKeysInit ==
  /\ key = [k \in ApiKey |-> NoKey]
  /\ call = [c \in Caller |-> NoCall]
  /\ minute = 1
  /\ revocations = [k \in ApiKey |-> 0]

(* CreateForUser; an expiry, if any, lies in the future. *)
CreateForUser(k, scopes, expires) ==
  /\ key[k] = NoKey
  /\ expires = Never \/ expires > minute
  /\ key' = [key EXCEPT ![k] = [state |-> "live", scopes |-> scopes, expires |-> expires,
                                used |-> Never, revoked |-> Never]]
  /\ UNCHANGED <<call, minute, revocations>>

(* HasScope *)
HasScope(row, scope) == scope \in row.scopes \/ AnyScope \in row.scopes

(* Validate reads the row by its hash and decides on what it read. *)
ValidateRead(c, k, required) ==
  /\ call[c] = NoCall /\ key[k].state = "live"
  /\ key[k].expires = Never \/ key[k].expires >= minute
  /\ \A scope \in required : HasScope(key[k], scope)
  /\ call' = [call EXCEPT ![c] = [at |-> "granted", k |-> k, now |-> minute, used |-> key[k].used]]
  /\ UNCHANGED <<key, minute, revocations>>

(* Mutant of RecordUse: the row is written as it was read. *)
RecordUseBlindly(c) ==
  /\ call[c].at = "granted"
  /\ key' = IF key[call[c].k] # NoKey THEN [key EXCEPT ![call[c].k].used = call[c].now] ELSE key
  /\ call' = [call EXCEPT ![c] = NoCall]
  /\ UNCHANGED <<minute, revocations>>

(* RecordUse, when the last use read is old enough: only if the key is    *)
(* not revoked, not expired and not used since.                           *)
RecordUse(c) ==
  LET k == call[c].k now == call[c].now IN
  /\ call[c].at = "granted"
  /\ key' = IF /\ call[c].used = Never \/ now >= call[c].used + UseThrottle
               /\ key[k].state = "live"
               /\ key[k].expires = Never \/ key[k].expires > now
               /\ key[k].used = Never \/ key[k].used + UseThrottle <= now
            THEN [key EXCEPT ![k].used = now] ELSE key
  /\ call' = [call EXCEPT ![c] = NoCall]
  /\ UNCHANGED <<minute, revocations>>

(* The write fails; the request was granted all the same. *)
RecordUseFails(c) ==
  /\ call[c].at = "granted" /\ call' = [call EXCEPT ![c] = NoCall]
  /\ UNCHANGED <<key, minute, revocations>>

(* RevokeForUser reads the clock, then updates the row. *)
RevokeStart(c, k) ==
  /\ call[c] = NoCall /\ key[k] # NoKey
  /\ call' = [call EXCEPT ![c] = [at |-> "revoking", k |-> k, now |-> minute]]
  /\ UNCHANGED <<key, minute, revocations>>

(* Revoke is conditional; only the update that hits is audited. *)
Revoke(c) ==
  LET k == call[c].k IN
  /\ call[c].at = "revoking"
  /\ IF key[k].state = "live"
     THEN /\ key' = [key EXCEPT ![k].state = "revoked", ![k].revoked = call[c].now]
          /\ revocations' = [revocations EXCEPT ![k] = @ + 1]
     ELSE UNCHANGED <<key, revocations>>
  /\ call' = [call EXCEPT ![c] = NoCall]
  /\ UNCHANGED minute

MinutePasses ==
  /\ minute < MaxMinute /\ minute' = minute + 1
  /\ UNCHANGED <<key, call, revocations>>

-----------------------------------------------------------------------------
KeyHandler ==
  \/ \E k \in ApiKey, scopes \in SUBSET Scope, expires \in {Never} \cup 1 .. MaxMinute :
       CreateForUser(k, scopes, expires)
  \/ \E c \in Caller : (\E k \in ApiKey : RevokeStart(c, k)) \/ Revoke(c)
KeyAuth(c) ==
  \/ \E k \in ApiKey, required \in SUBSET Scope : ValidateRead(c, k, required)
  \/ RecordUse(c) \/ RecordUseFails(c)

ApiKeysNext == KeyHandler \/ (\E c \in Caller : KeyAuth(c)) \/ MinutePasses
ApiKeysSpec == ApiKeysInit /\ [][ApiKeysNext]_apiKeysVars

-----------------------------------------------------------------------------
(* A revoked key stays as it was revoked, and a use never makes the last  *)
(* use of a key older: requests that overlap write in any order.          *)
KeysOnlyForward ==
  [][\A k \in ApiKey : key[k] # NoKey =>
       /\ key[k].state = "revoked" => key'[k] = key[k]
       /\ key'[k].used >= key[k].used]_apiKeysVars

(* However many requests revoke a key, one of them is audited. *)
RevokedOnce == \A k \in ApiKey :
  revocations[k] = IF key[k].state = "revoked" THEN 1 ELSE 0
=============================================================================
