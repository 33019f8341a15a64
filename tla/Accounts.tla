------------------------------- MODULE Accounts -------------------------------
(* One account, its sessions and its password reset tokens                 *)
(* (api/internal/modules/user). A request reads, and acts later on what it *)
(* read; the password is a number that every change increases.             *)
EXTENDS Naturals, FiniteSets

CONSTANTS
  Session,       \* sessions that may be issued
  ResetToken,    \* reset tokens that may be drawn
  Visitor,       \* requests that overlap
  SessionTTL, SessionIdle, TouchInterval, SessionRetention, \* policy
  TokenTTL,      \* life of a reset token
  ResetSlots,    \* passwordResetConcurrency
  MaxHour,       \* bound: the clock stops here
  MaxPassword    \* bound: changes of the password

(* normalizedAuthenticationPolicy *)
AccountsAssumption ==
  /\ SessionTTL \in Nat \ {0} /\ SessionIdle \in 1 .. SessionTTL
  /\ TouchInterval \in 1 .. SessionIdle /\ SessionRetention \in Nat /\ TokenTTL \in Nat

VARIABLES
  account,  \* the row of users
  session,  \* rows of authentication_sessions
  token,    \* rows of password_reset_tokens
  visit,    \* requests under way
  hour,     \* the time
  resets    \* history: tokens that have changed the password, with how often

accountsVars == <<account, session, token, visit, hour, resets>>

NoSession == [state |-> "none"]
NoToken == [state |-> "none"]
Away == [at |-> "away"]

AccountsInit ==
  /\ account = [state |-> "absent", password |-> 0]
  /\ session = [s \in Session |-> NoSession]
  /\ token = [t \in ResetToken |-> NoToken]
  /\ visit = [v \in Visitor |-> Away]
  /\ hour = 0
  /\ resets = [t \in ResetToken |-> 0]

Present == account.state \in {"active", "disabled"}
Leaves(v) == visit' = [visit EXCEPT ![v] = Away]

(* revokeUserSessionsDB *)
Revoked == [s \in Session |->
  IF session[s].state = "live" THEN [session[s] EXCEPT !.state = "revoked", !.ended = hour]
  ELSE session[s]]

-----------------------------------------------------------------------------
(* Register looks for the name first; the unique index decides. *)
RegisterRead(v) ==
  /\ visit[v] = Away /\ ~Present
  /\ visit' = [visit EXCEPT ![v] = [at |-> "register"]]
  /\ UNCHANGED <<account, session, token, hour, resets>>

Register(v) ==
  /\ visit[v].at = "register" /\ account.state = "absent"
  /\ account' = [state |-> "active", password |-> 1]
  /\ Leaves(v)
  /\ UNCHANGED <<session, token, hour, resets>>

-----------------------------------------------------------------------------
(* signIn verifies the password it read, then issues a session. *)
SignInRead(v) ==
  /\ visit[v] = Away /\ account.state = "active"
  /\ visit' = [visit EXCEPT ![v] = [at |-> "verified"]]
  /\ UNCHANGED <<account, session, token, hour, resets>>

Earlier(a, b) == IF a < b THEN a ELSE b

(* Issue; "reign" is the password at that time, whichever was verified. *)
Issue(v, s) ==
  /\ visit[v].at = "verified" /\ session[s].state = "none"
  /\ session' = [session EXCEPT ![s] =
       [state |-> "live", expires |-> hour + SessionTTL,
        idle |-> Earlier(hour + SessionIdle, hour + SessionTTL),
        seen |-> hour, ended |-> 0, reign |-> account.password]]
  /\ Leaves(v)
  /\ UNCHANGED <<account, token, hour, resets>>

(* authenticateSession reads the session with its user. *)
AuthenticateRead(v, s) ==
  /\ visit[v] = Away /\ session[s].state \in {"live", "revoked"}
  /\ visit' = [visit EXCEPT ![v] =
       [at |-> "authenticating", s |-> s, now |-> hour, user |-> account.state,
        row |-> session[s]]]
  /\ UNCHANGED <<account, session, token, hour, resets>>

(* What it makes of the row, and the reason of a revocation. *)
AuthenticationVerdict(v) ==
  CASE visit[v].row.state = "revoked" -> "refuse"
    [] visit[v].user = "deleted" -> "revoke"
    [] visit[v].user = "disabled" -> "revoke_all"
    [] visit[v].now >= visit[v].row.expires \/ visit[v].now >= visit[v].row.idle -> "revoke"
    [] visit[v].now >= visit[v].row.seen + TouchInterval -> "touch"
    [] OTHER -> "grant"

AuthenticateRefuse(v) ==
  /\ visit[v].at = "authenticating"
  /\ LET verdict == AuthenticationVerdict(v) s == visit[v].s IN
     \/ verdict \in {"refuse", "grant"} /\ UNCHANGED session
     \/ /\ verdict = "revoke"
        /\ session' = IF session[s].state = "live"
                      THEN [session EXCEPT ![s].state = "revoked", ![s].ended = hour] ELSE session
     \/ verdict = "revoke_all" /\ session' = Revoked
  /\ Leaves(v)
  /\ UNCHANGED <<account, token, hour, resets>>

(* Mutant of AuthenticateTouch: the row is written back as it was read. *)
TouchStale(v) ==
  LET s == visit[v].s IN
  /\ visit[v].at = "authenticating" /\ AuthenticationVerdict(v) = "touch"
  /\ session' = IF session[s].state # "none"
       THEN [session EXCEPT ![s] = [visit[v].row EXCEPT !.seen = visit[v].now,
               !.idle = Earlier(visit[v].now + SessionIdle, visit[v].row.expires)]]
       ELSE session
  /\ Leaves(v)
  /\ UNCHANGED <<account, token, hour, resets>>

(* The touch is conditional: not revoked, not touched meanwhile. *)
AuthenticateTouch(v) ==
  LET s == visit[v].s now == visit[v].now IN
  /\ visit[v].at = "authenticating" /\ AuthenticationVerdict(v) = "touch"
  /\ session' = IF session[s].state = "live" /\ session[s].seen + TouchInterval <= now
       THEN [session EXCEPT ![s].seen = now,
               ![s].idle = Earlier(now + SessionIdle, visit[v].row.expires)]
       ELSE session
  /\ Leaves(v)
  /\ UNCHANGED <<account, token, hour, resets>>

(* Logout, and an operator that ends every session. *)
Logout(s) ==
  /\ session[s].state = "live"
  /\ session' = [session EXCEPT ![s].state = "revoked", ![s].ended = hour]
  /\ UNCHANGED <<account, token, visit, hour, resets>>

RevokeUserSessions ==
  /\ Present /\ session' = Revoked
  /\ UNCHANGED <<account, token, visit, hour, resets>>

(* The first of its ends; the idle end never lies after the life. *)
Lapse(row) == IF row.state = "revoked" THEN Earlier(row.ended, row.idle) ELSE row.idle

(* pruneAuthenticationSessions: what has ended longer than the retention. *)
PruneAuthenticationSessions ==
  /\ session' = [s \in Session |->
       IF session[s].state # "none" /\ Lapse(session[s]) + SessionRetention <= hour
       THEN NoSession ELSE session[s]]
  /\ UNCHANGED <<account, token, visit, hour, resets>>

-----------------------------------------------------------------------------
(* Passwords.                                                              *)

(* UpdatePasswordAndRevokeSessions *)
ChangePassword ==
  /\ Present /\ account.password < MaxPassword
  /\ account' = [account EXCEPT !.password = @ + 1]
  /\ session' = Revoked
  /\ UNCHANGED <<token, visit, hour, resets>>

(* RequestPasswordReset runs in the background, in one of a few slots. *)
RequestPasswordReset(v) ==
  /\ visit[v] = Away /\ Present
  /\ Cardinality({w \in Visitor : visit[w].at = "delivering"}) < ResetSlots
  /\ visit' = [visit EXCEPT ![v] = [at |-> "delivering"]]
  /\ UNCHANGED <<account, session, token, hour, resets>>

(* StorePasswordResetToken: unused tokens make room for the new one. *)
StorePasswordResetToken(v, t) ==
  /\ visit[v].at = "delivering" /\ token[t].state = "none" /\ resets[t] = 0
  /\ token' = [k \in ResetToken |->
       IF k = t THEN [state |-> "unused", expires |-> hour + TokenTTL]
       ELSE IF token[k].state = "unused" THEN NoToken ELSE token[k]]
  /\ Leaves(v)
  /\ UNCHANGED <<account, session, hour, resets>>

(* ResetPasswordWithToken reads the token first. *)
ConfirmRead(v, t) ==
  /\ visit[v] = Away /\ token[t].state = "unused" /\ hour <= token[t].expires
  /\ visit' = [visit EXCEPT ![v] = [at |-> "confirming", t |-> t]]
  /\ UNCHANGED <<account, session, token, hour, resets>>

(* The update of the password stands only if the token is still unused. *)
ResetPasswordWithToken(v) ==
  /\ visit[v].at = "confirming" /\ account.password < MaxPassword
  /\ token[visit[v].t].state = "unused"
  /\ account' = IF Present THEN [account EXCEPT !.password = @ + 1] ELSE account
  /\ session' = Revoked
  /\ token' = [token EXCEPT ![visit[v].t] = [state |-> "used"]]
  /\ resets' = [resets EXCEPT ![visit[v].t] = @ + 1]
  /\ Leaves(v) /\ UNCHANGED hour

-----------------------------------------------------------------------------
(* Administration.                                                         *)

SetUserStatus(status) ==
  /\ Present /\ account' = [account EXCEPT !.state = status]
  /\ session' = IF status = "disabled" THEN Revoked ELSE session
  /\ UNCHANGED <<token, visit, hour, resets>>

(* DeleteAccount, once the guards and cleaners have agreed. *)
SoftDelete ==
  /\ Present /\ account' = [account EXCEPT !.state = "deleted"]
  /\ session' = Revoked
  /\ UNCHANGED <<token, visit, hour, resets>>

(* A request fails or its answer is negative. *)
Fail(v) ==
  /\ visit[v] # Away /\ visit[v].at # "authenticating"
  /\ Leaves(v) /\ UNCHANGED <<account, session, token, hour, resets>>

HourPasses ==
  /\ hour < MaxHour /\ hour' = hour + 1
  /\ UNCHANGED <<account, session, token, visit, resets>>

-----------------------------------------------------------------------------
SignIn(v) == SignInRead(v) \/ \E s \in Session : Issue(v, s)
Authenticate(v) ==
  (\E s \in Session : AuthenticateRead(v, s)) \/ AuthenticateRefuse(v) \/ AuthenticateTouch(v)
DeliverPasswordReset(v) ==
  RequestPasswordReset(v) \/ \E t \in ResetToken : StorePasswordResetToken(v, t)
ConfirmPasswordReset(v) ==
  ResetPasswordWithToken(v) \/ \E t \in ResetToken : ConfirmRead(v, t)
Administer == RevokeUserSessions \/ \E status \in {"active", "disabled"} : SetUserStatus(status)

AccountsNext ==
  \/ \E v \in Visitor : \/ RegisterRead(v) \/ Register(v) \/ SignIn(v) \/ Authenticate(v)
                        \/ DeliverPasswordReset(v) \/ ConfirmPasswordReset(v) \/ Fail(v)
  \/ ChangePassword \/ SoftDelete \/ Administer
  \/ \E s \in Session : Logout(s)
  \/ PruneAuthenticationSessions
  \/ HourPasses

AccountsSpec == AccountsInit /\ [][AccountsNext]_accountsVars

-----------------------------------------------------------------------------
(* A change of the password ends every session that existed; a session in  *)
(* use was issued after the last change.                                   *)
SessionsOfThisReign ==
  \A s \in Session : session[s].state = "live" => session[s].reign = account.password

(* A reset token changes the password once, also when two confirmations    *)
(* have both found it unused.                                              *)
TokenWorksOnce == \A t \in ResetToken : resets[t] <= 1

(* A session that has ended stays ended, and a late touch neither moves    *)
(* the last visit back nor the session beyond its life.                    *)
SessionForward(s) ==
  session[s].state # "none" /\ session'[s].state # "none" =>
    /\ session[s].state = "revoked" => session'[s] = session[s]
    /\ session'[s].seen >= session[s].seen /\ session'[s].idle <= session'[s].expires
SessionsOnlyForward == [][\A s \in Session : SessionForward(s)]_accountsVars
=============================================================================
