------------------------------ MODULE Permissions ------------------------------
(* Access roles of one organization (api/internal/modules/permission): who *)
(* manages roles may hand out only what they hold themselves. The actor's  *)
(* membership and roles stay locked from the check to the commit.          *)
EXTENDS Naturals, FiniteSets

CONSTANTS
  Boss,        \* the owner, who holds every permission
  Member,      \* the other members
  AccessRole,  \* roles that may be created
  Permission,  \* the catalog
  Manage,      \* permissions that allow to manage roles and assignments
  Desk         \* processes that serve requests

PermissionsAssumption ==
  Boss \notin Member /\ Manage \in Permission /\ "absent" \notin Permission

VARIABLES
  grants,    \* permission_role_grants; "absent" if the role does not exist
  assigned,  \* permission_role_assignments
  grant      \* transactions under way

permissionsVars == <<grants, assigned, grant>>

Absent == {"absent"}
NoGrant == [op |-> "none"]

PermissionsInit ==
  /\ grants = [r \in AccessRole |-> Absent]
  /\ assigned = [m \in Member |-> {}]
  /\ grant = [d \in Desk |-> NoGrant]

Roles == {r \in AccessRole : grants[r] # Absent}

(* Effective: the owner has the whole catalog. *)
Effective(m) ==
  IF m = Boss THEN Permission ELSE UNION {grants[r] : r \in assigned[m]}

(* dominatesRoles *)
Dominates(m, held, permissions) == m = Boss \/ permissions \subseteq held

(* effectiveForUpdate: the rows a transaction keeps locked. *)
LockedMembers(tx) == IF tx.op = "none" THEN {} ELSE {tx.actor}
LockedRoles(tx) == IF tx.op = "none" THEN {} ELSE tx.roles

(* lockWhenTransactional *)
Unlocked(d, members, roles) ==
  \A e \in Desk \ {d} : /\ members \cap LockedMembers(grant[e]) = {}
                        /\ roles \cap LockedRoles(grant[e]) = {}

-----------------------------------------------------------------------------
(* withAuthorizedTransaction *)
Authorize(d, op, m) ==
  LET roles == IF m = Boss THEN {} ELSE assigned[m] IN
  /\ grant[d] = NoGrant
  /\ Unlocked(d, {m}, roles)
  /\ Manage \in Effective(m)
  /\ grant' = [grant EXCEPT ![d] = [op |-> op, actor |-> m, roles |-> roles, held |-> Effective(m)]]
  /\ UNCHANGED <<grants, assigned>>

Ends(d) == grant' = [grant EXCEPT ![d] = NoGrant]

CreateRole(d, r, permissions) ==
  /\ grant[d].op = "create" /\ grants[r] = Absent
  /\ Dominates(grant[d].actor, grant[d].held, permissions)
  /\ grants' = [grants EXCEPT ![r] = permissions]
  /\ Ends(d) /\ UNCHANGED assigned

(* What the role grants now, and what it is to grant. *)
UpdateRole(d, r, permissions) ==
  /\ grant[d].op = "update" /\ r \in Roles /\ Unlocked(d, {}, {r})
  /\ Dominates(grant[d].actor, grant[d].held, grants[r] \cup permissions)
  /\ grants' = [grants EXCEPT ![r] = permissions]
  /\ Ends(d) /\ UNCHANGED assigned

DeleteRole(d, r) ==
  /\ grant[d].op = "delete" /\ r \in Roles /\ Unlocked(d, {}, {r})
  /\ Dominates(grant[d].actor, grant[d].held, grants[r])
  /\ grants' = [grants EXCEPT ![r] = Absent]
  /\ assigned' = [m \in Member |-> assigned[m] \ {r}]
  /\ Ends(d)

(* Mutant of ReplaceMemberRoles: the roles are taken as named. *)
ReplaceUnlocked(d, m, roles) ==
  /\ grant[d].op = "assign" /\ Unlocked(d, {m}, assigned[m])
  /\ Dominates(grant[d].actor, grant[d].held,
               UNION {grants[r] : r \in (assigned[m] \cup roles) \cap Roles})
  /\ assigned' = [assigned EXCEPT ![m] = roles]
  /\ Ends(d) /\ UNCHANGED grants

(* The roles a member has, and the roles it is to have. *)
ReplaceMemberRoles(d, m, roles) ==
  /\ grant[d].op = "assign"
  /\ roles \subseteq Roles /\ Unlocked(d, {m}, assigned[m] \cup roles)
  /\ Dominates(grant[d].actor, grant[d].held,
               UNION {grants[r] : r \in assigned[m] \cup roles})
  /\ assigned' = [assigned EXCEPT ![m] = roles]
  /\ Ends(d) /\ UNCHANGED grants

(* The organization removes the member; its assignments go with it. *)
MemberLeaves(m) ==
  /\ \A d \in Desk : m \notin LockedMembers(grant[d])
  /\ assigned' = [assigned EXCEPT ![m] = {}]
  /\ UNCHANGED <<grants, grant>>

GiveUpGrant(d) ==
  /\ grant[d] # NoGrant /\ Ends(d) /\ UNCHANGED <<grants, assigned>>

-----------------------------------------------------------------------------
RoleRequest(d) ==
  \E r \in AccessRole : \/ \E permissions \in SUBSET Permission :
                             CreateRole(d, r, permissions) \/ UpdateRole(d, r, permissions)
                        \/ DeleteRole(d, r)
AssignRequest(d) == \E m \in Member, roles \in SUBSET AccessRole : ReplaceMemberRoles(d, m, roles)

PermissionsNext ==
  \/ \E d \in Desk : \/ \E op \in {"create", "update", "delete", "assign"}, m \in Member \cup {Boss} :
                          Authorize(d, op, m)
                     \/ RoleRequest(d) \/ AssignRequest(d) \/ GiveUpGrant(d)
  \/ \E m \in Member : MemberLeaves(m)

PermissionsSpec == PermissionsInit /\ [][PermissionsNext]_permissionsVars

-----------------------------------------------------------------------------
(* A member gains a permission only from someone who holds it at that      *)
(* moment: the owner, or a manager whose own roles were not cut meanwhile. *)
Gained == UNION {Effective(m)' \ Effective(m) : m \in Member}
NoEscalation ==
  [][\A d \in Desk : grant[d] # NoGrant /\ grant'[d] = NoGrant =>
       Gained \subseteq Effective(grant[d].actor)]_permissionsVars

(* Every assigned role exists. *)
AssignedRolesExist == \A m \in Member : assigned[m] \subseteq Roles
=============================================================================
