------------------------------- MODULE Settings -------------------------------
(* Overrides of one setting (api/internal/modules/setting): a client reads *)
(* the value with its version, and sets or resets it later under If-Match. *)
(* The setting of a user goes with the account.                            *)
EXTENDS Naturals, FiniteSets

CONSTANTS
  SettingScope,   \* "app", and "user", whose owner may delete the account
  Choice,         \* values the definition accepts
  Default,        \* the value of the code
  Editor,         \* clients that overlap
  MaxEdits        \* bound: the highest version

SettingsAssumption == Default \in Choice

VARIABLES
  override,   \* rows of settings
  edit,       \* what a client has read
  owner       \* the account: "here", "leaving" and "cleaned" (its deletion holds the row), "gone"

settingsVars == <<override, edit, owner>>

NoOverride == [version |-> 0, overridden |-> FALSE, value |-> Default]
NoEdit == [scope |-> "none"]

SettingsInit ==
  /\ override = [s \in SettingScope |-> NoOverride]
  /\ edit = [e \in Editor |-> NoEdit]
  /\ owner = "here"

(* effectiveSetting *)
EffectiveSetting(s) == IF override[s].overridden THEN override[s].value ELSE Default

GetSetting(e, s) ==
  /\ edit[e] = NoEdit
  /\ edit' = [edit EXCEPT ![e] = [scope |-> s, version |-> override[s].version,
                                  value |-> EffectiveSetting(s)]]
  /\ UNCHANGED <<override, owner>>

(* lockSettingOwner: waits for the account's transaction; then, not found. *)
LockSettingOwner(s) == s = "user" => owner = "here"

(* Set: another version is a conflict, the same value no change. *)
SetSetting(e, value) ==
  LET s == edit[e].scope row == override[s] IN
  /\ edit[e] # NoEdit /\ LockSettingOwner(s)
  /\ row.version = edit[e].version /\ row.version < MaxEdits
  /\ IF row.overridden /\ row.value = value
     THEN UNCHANGED override
     ELSE override' = [override EXCEPT ![s] =
            [version |-> row.version + 1, overridden |-> TRUE, value |-> value]]
  /\ edit' = [edit EXCEPT ![e] = NoEdit]
  /\ UNCHANGED owner

(* Mutant of ResetSetting: the row is deleted. *)
ResetDeletes(e) ==
  LET s == edit[e].scope row == override[s] IN
  /\ edit[e] # NoEdit /\ LockSettingOwner(s)
  /\ row.version = edit[e].version
  /\ override' = [override EXCEPT ![s] = NoOverride]
  /\ edit' = [edit EXCEPT ![e] = NoEdit]
  /\ UNCHANGED owner

(* Reset keeps the row, and its version goes on. *)
ResetSetting(e) ==
  LET s == edit[e].scope row == override[s] IN
  /\ edit[e] # NoEdit /\ LockSettingOwner(s)
  /\ row.version = edit[e].version /\ row.version < MaxEdits
  /\ IF row.overridden
     THEN override' = [override EXCEPT ![s] =
            [version |-> row.version + 1, overridden |-> FALSE, value |-> Default]]
     ELSE UNCHANGED override
  /\ edit' = [edit EXCEPT ![e] = NoEdit]
  /\ UNCHANGED owner

(* Precondition missing or failed, value refused, owner gone. *)
EditFails(e) ==
  /\ edit[e] # NoEdit /\ edit' = [edit EXCEPT ![e] = NoEdit]
  /\ UNCHANGED <<override, owner>>

(* The transaction of an account deletion: lock, clean, commit or not. *)
AccountLocked ==
  /\ owner = "here" /\ owner' = "leaving"
  /\ UNCHANGED <<override, edit>>
CleanAccountDeletion ==
  /\ owner = "leaving"
  /\ override' = [s \in SettingScope |-> IF s = "user" THEN NoOverride ELSE override[s]]
  /\ owner' = "cleaned" /\ UNCHANGED edit
AccountDeleted ==
  /\ owner = "cleaned" /\ owner' = "gone"
  /\ UNCHANGED <<override, edit>>

-----------------------------------------------------------------------------
SettingRequest(e) ==
  \/ \E s \in SettingScope : GetSetting(e, s)
  \/ \E value \in Choice : SetSetting(e, value)
  \/ ResetSetting(e) \/ EditFails(e)
AccountDeletion == AccountLocked \/ CleanAccountDeletion \/ AccountDeleted

SettingsNext == (\E e \in Editor : SettingRequest(e)) \/ AccountDeletion
SettingsSpec == SettingsInit /\ [][SettingsNext]_settingsVars

-----------------------------------------------------------------------------
(* A client replaces the value it has seen, never one set meanwhile; the   *)
(* versions of a setting are not used twice.                               *)
NoLostSetting ==
  [][\A s \in SettingScope : owner' = owner /\ override'[s] # override[s] =>
       \E e \in Editor : /\ edit[e] # NoEdit /\ edit'[e] = NoEdit
                         /\ edit[e].scope = s /\ edit[e].value = EffectiveSetting(s)]_settingsVars

(* A deleted account leaves no setting. *)
NoSettingOfNobody == owner = "gone" /\ "user" \in SettingScope => override["user"] = NoOverride
=============================================================================
