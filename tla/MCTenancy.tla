------------------------------ MODULE MCTenancy -------------------------------
(* Who may do what: accounts and their sessions, organizations, permissions,   *)
(* API keys, operators and the operator console. The components share no state *)
(* here, so a behaviour plays one of them, the scene it begins with, and leaves *)
(* the others alone.                                                           *)
EXTENDS Naturals, Sequences, TLC

CONSTANTS
    Person, Invitation, Clerk,
    Session, ResetToken, Visitor, SessionTTL, SessionIdle, TouchInterval, SessionRetention, TokenTTL,
    ResetSlots, MaxHour, MaxPassword,
    Boss, Member, AccessRole, Permission, Manage, Desk,
    ApiKey, Scope, AnyScope, Caller, UseThrottle, MaxMinute,
    Account, OpSession, Request,
    Console, Selected, MaxCommands, MaxBatch, Polls, MaxDelay, MaxArrivals

VARIABLES
    scene,
    role, gone, invite, clerk,
    account, session, token, visit, hour, resets,
    grants, assigned, grant,
    key, call, minute, revocations,
    operators, active, opSession, request, lapsed,
    subject, command, trail, commandGone, commands, worker, due

(* Arguments of a command: none, one version, two, an unknown flag, no value.  *)
Flag(f, n) == [flag |-> f, value |-> n]
ArgumentLists == {<<>>, <<Flag("n", 1)>>, <<Flag("n", 2)>>, <<Flag("n", 2), Flag("n", 1)>>,
                  <<Flag("x", 1)>>, <<Flag("n", 0)>>}

O == INSTANCE Organization
A == INSTANCE Accounts
P == INSTANCE Permissions
K == INSTANCE ApiKeys
S == INSTANCE Operators
C == INSTANCE OperatorCommands WITH gone <- commandGone, Arguments <- ArgumentLists

ASSUME TenancyAssumption ==
    /\ O!OrganizationAssumption /\ A!AccountsAssumption /\ P!PermissionsAssumption
    /\ K!ApiKeysAssumption /\ S!OperatorsAssumption /\ C!CommandsAssumption

Symmetry == Permutations(Invitation) \cup Permutations(Clerk)

organizationVars == <<role, gone, invite, clerk>>
accountsVars == <<account, session, token, visit, hour, resets>>
permissionsVars == <<grants, assigned, grant>>
keysVars == <<key, call, minute, revocations>>
operatorsVars == <<operators, active, opSession, request, lapsed>>
consoleVars == <<subject, command, trail, commandGone, commands, worker, due>>
vars == <<scene, organizationVars, accountsVars, permissionsVars, keysVars, operatorsVars,
            consoleVars>>

Init ==
    /\ scene \in {"organization", "accounts", "permissions", "keys", "operators", "console"}
    /\ O!OrganizationInit
    /\ A!AccountsInit
    /\ P!PermissionsInit
    /\ K!ApiKeysInit
    /\ S!OperatorsInit
    /\ C!CommandsInit

OrganizationScene ==
    /\ scene = "organization" /\ O!OrganizationNext
    /\ UNCHANGED <<scene, accountsVars, permissionsVars, keysVars, operatorsVars, consoleVars>>
AccountsScene ==
    /\ scene = "accounts" /\ A!AccountsNext
    /\ UNCHANGED <<scene, organizationVars, permissionsVars, keysVars, operatorsVars,
            consoleVars>>
PermissionsScene ==
    /\ scene = "permissions" /\ P!PermissionsNext
    /\ UNCHANGED <<scene, organizationVars, accountsVars, keysVars, operatorsVars, consoleVars>>
KeysScene ==
    /\ scene = "keys" /\ K!ApiKeysNext
    /\ UNCHANGED <<scene, organizationVars, accountsVars, permissionsVars, operatorsVars,
            consoleVars>>
OperatorsScene ==
    /\ scene = "operators" /\ S!OperatorsNext
    /\ UNCHANGED <<scene, organizationVars, accountsVars, permissionsVars, keysVars, consoleVars>>
ConsoleScene ==
    /\ scene = "console" /\ C!CommandsNext
    /\ UNCHANGED <<scene, organizationVars, accountsVars, permissionsVars, keysVars,
            operatorsVars>>

Next ==
    \/ OrganizationScene \/ AccountsScene \/ PermissionsScene \/ KeysScene \/ OperatorsScene
    \/ ConsoleScene

Spec == Init /\ [][Next]_vars

(* An organization has one owner, whose account exists, nobody is a member     *)
(* while the account is deleted, and an invitation is decided once, with       *)
(* TransferOwnership, RemoveMember, Accept, Revoke and the account's deletion  *)
(* beside each other.                                                          *)
OrganizationSound == [](O!OneOwner /\ O!NoMemberIsGone) /\ O!InvitationDecided

(* A session in use is younger than the last change of the password, a reset   *)
(* token works once, and sessions only move forward, with Authenticate's late  *)
(* touch, ChangePassword and ResetPasswordWithToken beside each other.         *)
AccountsSound == [](A!SessionsOfThisReign /\ A!TokenWorksOnce) /\ A!SessionsOnlyForward

(* Every assigned role exists, and nobody is given more than the giver holds   *)
(* at that moment, with ReplaceMemberRoles, UpdateRole and DeleteRole beside   *)
(* each other.                                                                 *)
PermissionsSound == [](scene = "permissions" => P!AssignedRolesExist) /\ P!NoEscalation

(* A key is revoked once and stays as it was, and its last use never moves     *)
(* back, though overlapping requests write in any order (Revoke, RecordUse).   *)
ApiKeysSound == []K!RevokedOnce /\ K!KeysOnlyForward

(* No operator request that came after the revocation of the grant gets as far *)
(* as to act, though its session lives on (requireOperator).                   *)
OperatorsSound == S!GrantIsNeeded

(* Every change an operator command made has one audit record unless its       *)
(* storing failed, and the webhook worker waits only with nothing left to send *)
(* or after a failure (operatorcommands).                                      *)
ConsoleSound == scene = "console" => C!CommandsSound
===============================================================================
