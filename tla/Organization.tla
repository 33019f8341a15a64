----------------------------- MODULE Organization -----------------------------
(* Members and invitations of one organization                             *)
(* (api/internal/modules/organization), with the account deletion of       *)
(* api/internal/modules/user that must not orphan it. A transaction locks  *)
(* its rows one after the other and is one step per lock.                  *)
EXTENDS Naturals, FiniteSets

CONSTANTS
  Person,     \* users; an invitation names one by e-mail
  Invitation, \* ids of invitations
  Clerk       \* processes that serve requests

OrganizationAssumption == Person # {}

VARIABLES
  role,    \* organization_memberships: the role of a person, or "none"
  gone,    \* persons whose account is soft-deleted
  invite,  \* organization_invitations
  clerk    \* transactions under way

organizationVars == <<role, gone, invite, clerk>>

NoInvite == [state |-> "none"]
Free == [op |-> "free"]

(* CreateWithOwner has run. *)
OrganizationInit ==
  /\ LET founder == CHOOSE u \in Person : TRUE
     IN  role = [p \in Person |-> IF p = founder THEN "owner" ELSE "none"]
  /\ gone = {}
  /\ invite = [i \in Invitation |-> NoInvite]
  /\ clerk = [c \in Clerk |-> Free]

-----------------------------------------------------------------------------
(* domain.OrganizationRole *)
CanManageOrganization(r) == r \in {"owner", "admin"}
CanChangeMemberRoles(r) == r = "owner"
CanBeInvited == {"admin", "member"}
CanRemoveMember(r, target) ==
  (r = "owner" /\ target \in {"admin", "member"}) \/ (r = "admin" /\ target = "member")

(* Rows a transaction holds FOR UPDATE. *)
HeldMembers(tx) ==
  CASE tx.op = "free" -> {}
    [] tx.op \in {"change", "remove", "transfer"} ->
         IF tx.locked THEN {tx.actor, tx.target} ELSE {tx.actor}
    [] OTHER -> {}

HeldUsers(tx) ==
  CASE tx.op = "delete" -> {tx.user}
    [] tx.op = "accept" /\ tx.locked -> {tx.user}
    [] OTHER -> {}

MemberFree(c, u) == \A d \in Clerk \ {c} : u \notin HeldMembers(clerk[d])
UserFree(c, u) == \A d \in Clerk \ {c} : u \notin HeldUsers(clerk[d])

-----------------------------------------------------------------------------
(* ChangeMemberRole, RemoveMember and TransferOwnership: the actor's row,  *)
(* the target's row, the update.                                           *)

(* findMembershipForUserUpdate, and what is refused before the target is   *)
(* read.                                                                   *)
LockActor(c, op, u, t, r) ==
  /\ clerk[c] = Free
  /\ role[u] # "none" /\ MemberFree(c, u)
  /\ op = "change" => CanChangeMemberRoles(role[u])
  /\ op = "transfer" => role[u] = "owner"
  /\ clerk' = [clerk EXCEPT ![c] =
       [op |-> op, actor |-> u, target |-> t, to |-> r, locked |-> FALSE]]
  /\ UNCHANGED <<role, gone, invite>>

(* findMembershipByIDUpdate *)
LockTarget(c) ==
  /\ clerk[c].op \in {"change", "remove", "transfer"} /\ ~clerk[c].locked
  /\ role[clerk[c].target] # "none" /\ MemberFree(c, clerk[c].target)
  /\ clerk' = [clerk EXCEPT ![c].locked = TRUE]
  /\ UNCHANGED <<role, gone, invite>>

ChangeMemberRole(c) ==
  LET tx == clerk[c] IN
  /\ tx.op = "change" /\ tx.locked
  /\ tx.target \notin gone /\ role[tx.target] # "owner"
  /\ role' = [role EXCEPT ![tx.target] = tx.to]
  /\ clerk' = [clerk EXCEPT ![c] = Free]
  /\ UNCHANGED <<gone, invite>>

(* A member leaves, or is removed by one above it; an owner stays. *)
RemoveMember(c) ==
  LET tx == clerk[c] IN
  /\ tx.op = "remove" /\ tx.locked
  /\ IF tx.actor = tx.target THEN role[tx.actor] # "owner"
     ELSE CanRemoveMember(role[tx.actor], role[tx.target])
  /\ role' = [role EXCEPT ![tx.target] = "none"]
  /\ clerk' = [clerk EXCEPT ![c] = Free]
  /\ UNCHANGED <<gone, invite>>

TransferOwnership(c) ==
  LET tx == clerk[c] IN
  /\ tx.op = "transfer" /\ tx.locked
  /\ tx.actor # tx.target /\ role[tx.target] \in CanBeInvited /\ tx.target \notin gone
  /\ role' = [role EXCEPT ![tx.actor] = "admin", ![tx.target] = "owner"]
  /\ clerk' = [clerk EXCEPT ![c] = Free]
  /\ UNCHANGED <<gone, invite>>

-----------------------------------------------------------------------------
(* Invitations.                                                            *)

(* invitationManager, and the count of members with the address. *)
InviteCheck(c, u, e, r) ==
  /\ clerk[c] = Free
  /\ CanManageOrganization(role[u]) /\ role[e] = "none"
  /\ clerk' = [clerk EXCEPT ![c] = [op |-> "invite", email |-> e, to |-> r]]
  /\ UNCHANGED <<role, gone, invite>>

PendingFor(e) == {i \in Invitation : invite[i].state = "pending" /\ invite[i].email = e}

(* One pending invitation per address; an expired one makes room. *)
CreateInvitation(c, i) ==
  LET tx == clerk[c] IN
  /\ tx.op = "invite" /\ invite[i].state = "none"
  /\ \A j \in PendingFor(tx.email) : invite[j].expired
  /\ invite' = [j \in Invitation |->
       IF j = i THEN [state |-> "pending", email |-> tx.email, to |-> tx.to, expired |-> FALSE]
       ELSE IF j \in PendingFor(tx.email) THEN [invite[j] EXCEPT !.state = "replaced"]
       ELSE invite[j]]
  /\ clerk' = [clerk EXCEPT ![c] = Free]
  /\ UNCHANGED <<role, gone>>

RevokeRead(c, u, i) ==
  /\ clerk[c] = Free /\ CanManageOrganization(role[u])
  /\ invite[i].state = "pending" /\ ~invite[i].expired
  /\ clerk' = [clerk EXCEPT ![c] = [op |-> "revoke", i |-> i]]
  /\ UNCHANGED <<role, gone, invite>>

RevokeInvitation(c) ==
  /\ clerk[c].op = "revoke" /\ invite[clerk[c].i].state = "pending"
  /\ invite' = [invite EXCEPT ![clerk[c].i].state = "revoked"]
  /\ clerk' = [clerk EXCEPT ![c] = Free]
  /\ UNCHANGED <<role, gone>>

AcceptRead(c, i, u) ==
  /\ clerk[c] = Free
  /\ invite[i].state = "pending" /\ ~invite[i].expired /\ invite[i].email = u
  /\ clerk' = [clerk EXCEPT ![c] = [op |-> "accept", i |-> i, user |-> u, locked |-> FALSE]]
  /\ UNCHANGED <<role, gone, invite>>

(* Mutant of AcceptLock: the user is looked up without a lock. *)
AcceptLookUp(c) ==
  /\ clerk[c].op = "accept" /\ ~clerk[c].locked
  /\ clerk[c].user \notin gone /\ role[clerk[c].user] = "none"
  /\ clerk' = [clerk EXCEPT ![c].locked = TRUE]
  /\ UNCHANGED <<role, gone, invite>>

(* findUndeletedUserForUpdate, and the membership that must not exist. *)
AcceptLock(c) ==
  /\ clerk[c].op = "accept" /\ ~clerk[c].locked
  /\ UserFree(c, clerk[c].user)
  /\ clerk[c].user \notin gone /\ role[clerk[c].user] = "none"
  /\ clerk' = [clerk EXCEPT ![c].locked = TRUE]
  /\ UNCHANGED <<role, gone, invite>>

AcceptInvitation(c) ==
  LET tx == clerk[c] IN
  /\ tx.op = "accept" /\ tx.locked
  /\ role[tx.user] = "none" /\ invite[tx.i].state = "pending"
  /\ role' = [role EXCEPT ![tx.user] = invite[tx.i].to]
  /\ invite' = [invite EXCEPT ![tx.i].state = "accepted"]
  /\ clerk' = [clerk EXCEPT ![c] = Free]
  /\ UNCHANGED gone

InviteExpires(i) ==
  /\ invite[i].state = "pending" /\ ~invite[i].expired
  /\ invite' = [invite EXCEPT ![i].expired = TRUE]
  /\ UNCHANGED <<role, gone, clerk>>

-----------------------------------------------------------------------------
(* DeleteAccount: the user's row is locked, CheckAccountDeletion counts    *)
(* the memberships, the row is soft-deleted.                               *)
CheckAccountDeletion(c, u) ==
  /\ clerk[c] = Free /\ u \notin gone /\ UserFree(c, u)
  /\ role[u] = "none"
  /\ clerk' = [clerk EXCEPT ![c] = [op |-> "delete", user |-> u]]
  /\ UNCHANGED <<role, gone, invite>>

DeleteMemberAccount(c) ==
  /\ clerk[c].op = "delete"
  /\ gone' = gone \cup {clerk[c].user}
  /\ clerk' = [clerk EXCEPT ![c] = Free]
  /\ UNCHANGED <<role, invite>>

(* A refusal, an error, or the victim of a deadlock between two lockers of *)
(* each other's rows.                                                      *)
GiveUpRequest(c) ==
  /\ clerk[c] # Free
  /\ clerk' = [clerk EXCEPT ![c] = Free]
  /\ UNCHANGED <<role, gone, invite>>

-----------------------------------------------------------------------------
MembershipRequest(c) ==
  \/ \E op \in {"change", "remove", "transfer"}, u, t \in Person, r \in CanBeInvited :
       LockActor(c, op, u, t, r)
  \/ LockTarget(c)
  \/ ChangeMemberRole(c) \/ RemoveMember(c) \/ TransferOwnership(c)

Invite(c) ==
  \/ \E u, e \in Person, r \in CanBeInvited : InviteCheck(c, u, e, r)
  \/ \E i \in Invitation : CreateInvitation(c, i)

Revoke(c) == RevokeInvitation(c) \/ \E u \in Person, i \in Invitation : RevokeRead(c, u, i)

Accept(c) ==
  \/ \E u \in Person, i \in Invitation : AcceptRead(c, i, u)
  \/ AcceptLock(c) \/ AcceptInvitation(c)

DeleteAccount(c) == DeleteMemberAccount(c) \/ \E u \in Person : CheckAccountDeletion(c, u)

OrganizationNext ==
  \/ \E c \in Clerk : \/ MembershipRequest(c) \/ Invite(c) \/ Revoke(c) \/ Accept(c)
                      \/ DeleteAccount(c) \/ GiveUpRequest(c)
  \/ \E i \in Invitation : InviteExpires(i)

OrganizationSpec == OrganizationInit /\ [][OrganizationNext]_organizationVars

-----------------------------------------------------------------------------
(* The organization has one owner at all times, and the account exists:    *)
(* transfers, removals, role changes and deletions overlap.                *)
OneOwner == \E u \in Person \ gone : \A p \in Person : role[p] = "owner" <=> p = u

(* Nobody becomes a member while the account is being deleted. *)
NoMemberIsGone == \A u \in gone : role[u] = "none"

(* An invitation is accepted or revoked once: of two requests that both    *)
(* saw it pending, one wins.                                               *)
InvitationDecided ==
  [][\A i \in Invitation : invite[i].state \in {"accepted", "revoked", "replaced"} =>
       invite'[i].state = invite[i].state]_organizationVars
=============================================================================
