---------------------------- MODULE PluginRegistry ----------------------------
(* plugin:add, plugin:update, plugin:remove and project:upgrade on one project *)
(* checkout (infra/pluginregistry, infra/projectfiles).  A command plans its   *)
(* changes in memory (a ChangeSet), writes them file by file, runs the         *)
(* contract tool, and writes the lock; an error at any of these steps rolls    *)
(* the ChangeSet back.  A template installs its plugins one after the other    *)
(* and removes them again when one fails.  Commands run one at a time; the     *)
(* builder edits the checkout between them.                                    *)
EXTENDS Naturals, Sequences, FiniteSets, TLC

CONSTANTS
    Plugin,       \* the feature and theme plugins of the registry
    Theme,        \* those of them that are themes (no contract fragment)
    Includes,     \* the plugins the template installs, in order
    Needs,        \* [Plugin -> [1..2 -> SUBSET Plugin]]: requires.plugins
    Ships,        \* [1..2 -> SUBSET STRING]: files in each release, of a plugin or the scaffold
    Absent,       \* content of a file that is not there
    MaxEdits,     \* bound: changes the builder makes by hand
    MaxFaults     \* bound: writes and tool calls that fail

Release == 1..2

(* A file's content: the release it comes from and whether the builder's work  *)
(* is in it; release 0 is a file of the builder's own.  A checksum tells       *)
(* contents apart, so the lock records the content.                            *)
Clean(v) == [release |-> v, edited |-> FALSE]
Own == [release |-> 0, edited |-> TRUE]

File(p, n) == <<"file", p, n>>
Core(n) == <<"core", n>>
Incoming(x) == <<"incoming">> \o x          \* IncomingSuffix
Fragment(p) == <<"fragment", p>>
Slots == <<"slots">>
Contract == <<"contract">>                  \* ContractFile
LockFile == <<"lock">>
Marker == <<"marker">>                      \* the project's scaffold release
Name == Ships[1] \cup Ships[2]
PluginFile == {File(p, n) : p \in Plugin, n \in Name}
CoreFile == {Core(n) : n \in Name}
Path == PluginFile \cup CoreFile \cup {Incoming(x) : x \in PluginFile \cup CoreFile}
        \cup {Fragment(p) : p \in Plugin} \cup {Slots, Contract, LockFile, Marker}

(* What validation of the index and the manifests guarantees.                  *)
ManifestAssumption ==
    /\ Theme \subseteq Plugin
    /\ Includes \in Seq(Plugin)
    /\ \A i, j \in DOMAIN Includes : Includes[i] = Includes[j] => i = j
    /\ \A p \in Plugin, v \in Release : Needs[p][v] \subseteq Plugin \ {p}
    /\ \A v \in Release : Ships[v] # {}

VARIABLES
    tree,         \* [Path -> content]: the checkout
    offered,      \* [Plugin -> Release]: the version the source offers
    staged,       \* the ChangeSet: content to write, Absent to delete
    original,     \* the ChangeSet: what the files it wrote held before
    cmd,          \* the operation under way and the steps it has left
    template,     \* a template's plugins to install, and the ones to undo
    before,       \* history: the checkout when the command started
    outcome,      \* how the last command ended
    manual,       \* follow-ups reported: additions left in the contract
    edits, faults

registryVars == <<tree, offered, staged, original, cmd, template, before, outcome, manual, edits, faults>>
bounds == <<offered, edits>>

Lock == tree[LockFile]
NotLocked == [release |-> 0, requires |-> {}, wiring |-> {}, files |-> <<>>, contract |-> 0]
Installed(p) == Lock[p].release # 0
Locked == {p \in Plugin : Installed(p)}
HasFragment(p) == p \notin Theme
Line(p, v) == <<p, v>>                       \* AllInserts: what release v of p wires

(* read: every file a release ships, a contract fragment included.             *)
Contents(p, v) ==
    [x \in {File(p, n) : n \in Ships[v]} |-> Clean(v)]
      @@ (IF HasFragment(p) THEN Fragment(p) :> Clean(v) ELSE <<>>)

NoCommand == [op |-> "none", plugin |-> Absent, entry |-> NotLocked, force |-> FALSE, todo |-> <<>>]
NoTemplate == [left |-> <<>>, done |-> <<>>, undo |-> FALSE]
Quiet == cmd.todo = <<>>
Idle == Quiet /\ template = NoTemplate

RegistryInit ==
    /\ tree = [x \in Path |->
           CASE x \in CoreFile -> IF x[2] \in Ships[1] THEN Clean(1) ELSE Absent
             [] x = Slots -> {}
             [] x = Contract -> {}
             [] x = Marker -> 1
             [] x = LockFile -> [p \in Plugin |-> NotLocked]
             [] OTHER -> Absent]
    /\ offered = [p \in Plugin |-> 1]
    /\ staged = <<>> /\ original = <<>>
    /\ cmd = NoCommand /\ template = NoTemplate
    /\ before = tree /\ outcome = "ok" /\ manual = {}
    /\ edits = 0 /\ faults = 0

-------------------------------------------------------------------------------
(* The change set.                                                             *)

Remembered(x) == IF x \in DOMAIN original THEN original ELSE original @@ (x :> tree[x])

Restored(t) == [x \in Path |-> IF x \in DOMAIN original THEN original[x] ELSE t[x]]

Without(f, x) == [y \in DOMAIN f \ {x} |-> f[y]]

(* Begin: the plan of a command becomes its staged changes and its steps.      *)
Begin(op, p, entry, force, changes, todo) ==
    /\ cmd' = [op |-> op, plugin |-> p, entry |-> entry, force |-> force, todo |-> todo]
    /\ staged' = changes
    /\ original' = <<>>

Over == cmd' = NoCommand /\ staged' = <<>> /\ original' = <<>>

(* The next step of the command, or its end.                                   *)
Advance ==
    IF Len(cmd.todo) > 1
    THEN cmd' = [cmd EXCEPT !.todo = Tail(@)] /\ UNCHANGED outcome
    ELSE cmd' = NoCommand /\ outcome' = IF template.undo THEN outcome ELSE "ok"

(* Files are written in one fixed order.                                       *)
Foremost(S) == CHOOSE x \in S : TRUE

(* One file of Commit: its content is remembered once, then written.           *)
CommitFile(x) ==
    /\ original' = Remembered(x)
    /\ tree' = [tree EXCEPT ![x] = staged[x]]
    /\ staged' = Without(staged, x)

Commit ==
    /\ ~Quiet /\ Head(cmd.todo) \in {"commit", "lock"}
    /\ IF DOMAIN staged = {}
       THEN Advance /\ UNCHANGED <<tree, staged, original>>
       ELSE CommitFile(Foremost(DOMAIN staged)) /\ UNCHANGED <<cmd, outcome>>
    /\ UNCHANGED <<template, before, manual, faults, bounds>>

(* An error in the undo of a template is reported: the undo is unfinished.     *)
Ends == outcome' = IF template.undo THEN "unfinished" ELSE "failed"

(* Fail: the error is returned once everything written is restored.            *)
Rollback(t) ==
    /\ tree' = Restored(t)
    /\ Over /\ Ends

WriteFails ==
    /\ ~Quiet /\ Head(cmd.todo) \in {"commit", "lock"}
    /\ DOMAIN staged # {} /\ faults < MaxFaults
    /\ faults' = faults + 1
    /\ Rollback(tree)
    /\ UNCHANGED <<template, before, manual, bounds>>

-------------------------------------------------------------------------------
(* Install.                                                                    *)

(* checkRequirements: the plugins a release needs, and one theme at a time.    *)
RequirementsMet(p, v, fresh) ==
    /\ Needs[p][v] \subseteq Locked
    /\ fresh /\ p \in Theme => Locked \cap Theme = {}

Conflicting(new) == {x \in DOMAIN new : tree[x] \notin {Absent, new[x]}}
ToWrite(new) == {x \in DOMAIN new : tree[x] = Absent}

InstallRefused(p) ==
    \/ Installed(p)
    \/ ~RequirementsMet(p, offered[p], TRUE)
    \/ Conflicting(Contents(p, offered[p])) # {}

(* stageInsert claims a line only when it was not there.                       *)
Inserted(p, v) == {Line(p, v)} \ tree[Slots]

(* Files are recorded with their checksums, merged fragments excepted, those   *)
(* that were there already included.                                           *)
InstallEntry(p, v, tool) ==
    LET merged == tool /\ HasFragment(p)
        new == Contents(p, v)
    IN  [release |-> v, requires |-> Needs[p][v], wiring |-> Inserted(p, v),
         files |-> IF merged THEN Without(new, Fragment(p)) ELSE new,
         contract |-> IF merged THEN v ELSE 0]

Install(p, tool) ==
    LET v == offered[p]
        new == Contents(p, v)
        entry == InstallEntry(p, v, tool)
        lines == IF entry.wiring = {} THEN <<>> ELSE Slots :> (tree[Slots] \cup entry.wiring)
    IN  Begin("install", p, entry, FALSE, [x \in ToWrite(new) |-> new[x]] @@ lines,
              <<"commit", IF entry.contract = 0 THEN "save" ELSE "merge", "lock">>)

(* The contract tool refuses names that are there already.  The files it edits *)
(* are tracked, so that a rollback restores them too.                          *)
ContractWithout(p) == {a \in tree[Contract] : a[1] # p}
Collides == cmd.op = "install" /\ ContractWithout(cmd.plugin) # tree[Contract]
Track == Remembered(Contract) @@ (Fragment(cmd.plugin) :> tree[Fragment(cmd.plugin)])

StageLock == staged' = LockFile :> [Lock EXCEPT ![cmd.plugin] = cmd.entry]

(* mergeFragment, after Contract.Remove in an update that replaces additions.  *)
Merge ==
    /\ ~Quiet /\ Head(cmd.todo) = "merge" /\ ~Collides
    /\ original' = Track
    /\ tree' = [tree EXCEPT ![Contract] = ContractWithout(cmd.plugin) \cup {Line(cmd.plugin, cmd.entry.contract)},
                            ![Fragment(cmd.plugin)] = Absent]
    /\ StageLock /\ Advance
    /\ UNCHANGED <<template, before, manual, faults, bounds>>

(* Without a fragment to merge the lock is staged at once.                     *)
SaveLock ==
    /\ ~Quiet /\ Head(cmd.todo) = "save"
    /\ StageLock /\ Advance
    /\ UNCHANGED <<tree, original, template, before, manual, faults, bounds>>

(* Contract.Remove at the end of a removal, whose lock is written by then.     *)
Unmerge ==
    /\ ~Quiet /\ Head(cmd.todo) = "unmerge"
    /\ original' = Remembered(Contract)
    /\ tree' = [tree EXCEPT ![Contract] = ContractWithout(cmd.plugin)]
    /\ Advance
    /\ UNCHANGED <<staged, template, before, manual, faults, bounds>>

(* The tool collides, or fails after any part of its work.                     *)
ToolFails ==
    /\ ~Quiet /\ Head(cmd.todo) \in {"merge", "unmerge"}
    /\ IF Head(cmd.todo) = "merge" /\ Collides
       THEN UNCHANGED faults
       ELSE faults < MaxFaults /\ faults' = faults + 1
    /\ \E left \in {tree[Contract], ContractWithout(cmd.plugin)} :
         tree' = [x \in Path |-> IF x \in DOMAIN Track THEN Track[x]
                                 ELSE IF x = Contract THEN left ELSE tree[x]]
    /\ Over /\ Ends
    /\ UNCHANGED <<template, before, manual, bounds>>

-------------------------------------------------------------------------------
(* Remove.                                                                     *)

FileState(x, sum) == IF tree[x] = Absent THEN "missing" ELSE IF tree[x] # sum THEN "modified" ELSE "unchanged"

Modified(p) == {x \in DOMAIN Lock[p].files : FileState(x, Lock[p].files[x]) = "modified"}
Dependents(p) == {q \in Locked : p \in Lock[q].requires}

RemoveRefused(p, force) ==
    \/ ~Installed(p)
    \/ Dependents(p) # {}
    \/ Modified(p) # {} /\ ~force

(* Files that are there are deleted and recorded lines that are there removed. *)
RemovedLines(p) == Lock[p].wiring \cap tree[Slots]

RemoveChanges(p) ==
    [x \in {y \in DOMAIN Lock[p].files : tree[y] # Absent} |-> Absent]
      @@ (IF RemovedLines(p) = {} THEN <<>> ELSE Slots :> (tree[Slots] \ RemovedLines(p)))
      @@ (LockFile :> [Lock EXCEPT ![p] = NotLocked])

Remove(p, force, tool) ==
    /\ Begin("remove", p, Lock[p], force, RemoveChanges(p),
             IF Lock[p].contract # 0 /\ tool THEN <<"commit", "unmerge">> ELSE <<"commit">>)
    /\ manual' = IF Lock[p].contract # 0 /\ ~tool THEN manual \cup {p} ELSE manual

-------------------------------------------------------------------------------
(* Update.                                                                     *)

(* updateFile: what is staged and what is locked for one file.  sum is Absent  *)
(* for a file new in this version, new for one it no longer ships.             *)
Untouched(local, sum) == local # Absent /\ sum # Absent /\ local = sum

Merge3(local, new) == [release |-> new.release, edited |-> TRUE]

FileClash(x, sum, new) == new # Absent /\ sum = Absent /\ tree[x] \notin {Absent, new}

FileChange(x, sum, new, hasBase) ==
    LET local == tree[x] IN
    CASE new = Absent -> IF Untouched(local, sum) THEN x :> Absent ELSE <<>>
      [] new # Absent /\ sum # Absent /\ local = Absent -> <<>>
      [] new # Absent /\ (local = Absent \/ Untouched(local, sum)) -> x :> new
      [] new # Absent /\ local = new -> <<>>
      [] OTHER -> IF hasBase THEN x :> Merge3(local, new) ELSE Incoming(x) :> new

FileLock(x, sum, new) ==
    IF new = Absent \/ (sum # Absent /\ tree[x] = Absent) THEN <<>> ELSE x :> new

Value(f, x) == IF x \in DOMAIN f THEN f[x] ELSE Absent

(* A merged fragment is not a file of the update; an unmerged one is.          *)
UpdateFiles(p, new) ==
    (DOMAIN Lock[p].files \cup DOMAIN new)
      \ (IF Lock[p].contract # 0 THEN {Fragment(p)} ELSE {})

UpdateRefused(p) ==
    LET new == Contents(p, offered[p]) IN
    \/ ~Installed(p)
    \/ Lock[p].release >= offered[p]
    \/ ~RequirementsMet(p, offered[p], FALSE)
    \/ \E x \in UpdateFiles(p, new) : FileClash(x, Value(Lock[p].files, x), Value(new, x))

Union(S, F(_)) ==
    LET keys == UNION {DOMAIN F(x) : x \in S} IN
    [k \in keys |-> LET x == CHOOSE y \in S : k \in DOMAIN F(y) IN F(x)[k]]

(* updateWiring: dropped lines go if they are there, new ones are claimed if   *)
(* they were not.                                                              *)
UpdateLines(p, v) == (tree[Slots] \ (Lock[p].wiring \ {Line(p, v)})) \cup {Line(p, v)}
UpdateWiring(p, v) == (Lock[p].wiring \cap {Line(p, v)}) \cup (IF Line(p, v) \in Lock[p].wiring THEN {} ELSE Inserted(p, v))

UpdateEntry(p, v) ==
    LET new == Contents(p, v) IN
    [release |-> v, requires |-> Needs[p][v], wiring |-> UpdateWiring(p, v),
     files |-> Union(UpdateFiles(p, new), LAMBDA x : FileLock(x, Value(Lock[p].files, x), Value(new, x))),
     contract |-> IF Lock[p].contract # 0 THEN v ELSE 0]

UpdateChanges(p, v, hasBase) ==
    LET new == Contents(p, v) IN
    Union(UpdateFiles(p, new), LAMBDA x : FileChange(x, Value(Lock[p].files, x), Value(new, x), hasBase))
      @@ (IF UpdateLines(p, v) = tree[Slots] THEN <<>> ELSE Slots :> UpdateLines(p, v))
      @@ (IF Lock[p].contract # 0 THEN Fragment(p) :> new[Fragment(p)] ELSE <<>>)

Update(p, hasBase) ==
    Begin("update", p, UpdateEntry(p, offered[p]), FALSE, UpdateChanges(p, offered[p], hasBase),
          <<"commit", IF Lock[p].contract # 0 THEN "merge" ELSE "save", "lock">>)

-------------------------------------------------------------------------------
(* project:upgrade.                                                            *)

DecideOverwrites(x, base, target, binary) ==          \* mutant of Decide
    IF tree[x] = target THEN <<>> ELSE x :> target

(* Upgrade.decide for one scaffold file.                                       *)
Decide(x, base, target, binary) ==
    LET local == tree[x] IN
    CASE target = Absent -> IF local # Absent /\ local = base THEN x :> Absent ELSE <<>>
      [] target # Absent /\ local = Absent -> IF base # Absent THEN <<>> ELSE x :> target
      [] target # Absent /\ local = target -> <<>>
      [] target # Absent /\ base # Absent /\ local = base -> x :> target
      [] OTHER -> IF base = Absent \/ binary THEN Incoming(x) :> target ELSE x :> Merge3(local, target)

ScaffoldFile(x, v) == IF x[2] \in Ships[v] THEN Clean(v) ELSE Absent

Upgrade(binary) ==
    Begin("upgrade", Absent, NotLocked, FALSE,
          Union(CoreFile, LAMBDA x : Decide(x, ScaffoldFile(x, 1), ScaffoldFile(x, 2), binary)) @@ (Marker :> 2),
          <<"commit">>)

-------------------------------------------------------------------------------
(* The commands.                                                               *)

(* A command that validation refuses, or a dry run, changes nothing; the model *)
(* leaves such steps out.                                                      *)
Command(A) == Idle /\ A /\ before' = tree /\ outcome' = "running"
              /\ UNCHANGED <<tree, faults, bounds>>

PluginAdd(p, tool) ==
    Command(~InstallRefused(p) /\ Install(p, tool) /\ UNCHANGED <<template, manual>>)

PluginRemove(p, force, tool) ==
    Command(~RemoveRefused(p, force) /\ Remove(p, force, tool) /\ UNCHANGED template)

PluginUpdate(p, hasBase) ==
    Command(~UpdateRefused(p) /\ Update(p, hasBase) /\ UNCHANGED <<template, manual>>)

ProjectUpgrade(binary) ==
    Command(tree[Marker] = 1 /\ Upgrade(binary) /\ UNCHANGED <<template, manual>>)

(* addTemplate: the plugins the lock does not have yet, in order.              *)
AddTemplate ==
    Command(/\ template' = [NoTemplate EXCEPT !.left = SelectSeq(Includes, LAMBDA p : ~Installed(p))]
            /\ template'.left # <<>>
            /\ UNCHANGED <<cmd, staged, original, manual>>)

(* InstallTemplate's loop: an install that is refused or failed is undone.     *)
TemplateInstalls(tool) ==
    LET p == Head(template.left) IN
    /\ Quiet /\ template.left # <<>> /\ ~template.undo /\ outcome # "failed"
    /\ ~InstallRefused(p)
    /\ Install(p, tool)
    /\ template' = [left |-> Tail(template.left), done |-> <<p>> \o template.done, undo |-> FALSE]
    /\ UNCHANGED <<tree, before, outcome, manual, faults, bounds>>

(* undoTemplate, over the plugins this call installed.                         *)
TemplateFails ==
    /\ Quiet /\ template # NoTemplate /\ ~template.undo
    /\ \/ outcome = "failed" /\ template' = [left |-> <<>>, done |-> Tail(template.done), undo |-> TRUE]
       \/ /\ outcome # "failed" /\ template.left # <<>> /\ InstallRefused(Head(template.left))
          /\ template' = [left |-> <<>>, done |-> template.done, undo |-> TRUE]
    /\ outcome' = "failed"
    /\ UNCHANGED <<tree, staged, original, cmd, before, manual, faults, bounds>>

TemplateUndoes(tool) ==
    LET p == Head(template.done) IN
    /\ Quiet /\ template.undo /\ template.done # <<>>
    /\ IF RemoveRefused(p, TRUE)
       THEN outcome' = "unfinished" /\ UNCHANGED <<staged, original, cmd, manual>>
       ELSE Remove(p, TRUE, tool) /\ UNCHANGED outcome
    /\ template' = [template EXCEPT !.done = Tail(@)]
    /\ UNCHANGED <<tree, before, faults, bounds>>

TemplateEnds ==
    /\ Quiet /\ template # NoTemplate
    /\ IF template.undo THEN template.done = <<>> ELSE template.left = <<>> /\ outcome = "ok"
    /\ template' = NoTemplate
    /\ UNCHANGED <<tree, staged, original, cmd, before, outcome, manual, faults, bounds>>

-------------------------------------------------------------------------------
(* The builder, and the registry.                                              *)

(* A file of the builder's own, an edit, a copy of the offered file, a         *)
(* deletion, or a line taken out of a slot.                                    *)
BuilderEdits ==
    /\ Idle /\ edits < MaxEdits
    /\ edits' = edits + 1
    /\ \/ \E x \in PluginFile \cup CoreFile :
            \/ tree[x] = Absent /\ tree' = [tree EXCEPT ![x] = Own]
            \/ tree[x] # Absent /\ tree' = [tree EXCEPT ![x] = [@ EXCEPT !.edited = TRUE]]
            \/ tree[x] # Absent /\ tree' = [tree EXCEPT ![x] = Absent]
       \/ \E p \in Plugin, n \in Ships[1] :
            tree[File(p, n)] = Absent /\ tree' = [tree EXCEPT ![File(p, n)] = Clean(1)]
       \/ \E l \in tree[Slots] : tree' = [tree EXCEPT ![Slots] = @ \ {l}]
    /\ before' = tree' /\ outcome' = "ok"
    /\ UNCHANGED <<offered, staged, original, cmd, template, manual, faults>>

Publish(p) ==
    /\ Idle /\ offered[p] = 1
    /\ offered' = [offered EXCEPT ![p] = 2]
    /\ UNCHANGED <<tree, staged, original, cmd, template, before, outcome, manual, edits, faults>>

RegistryNext ==
    \/ Commit \/ WriteFails \/ Merge \/ SaveLock \/ Unmerge \/ ToolFails
    \/ AddTemplate \/ TemplateFails \/ TemplateEnds \/ BuilderEdits
    \/ \E tool \in BOOLEAN : TemplateInstalls(tool) \/ TemplateUndoes(tool)
    \/ \E binary \in BOOLEAN : ProjectUpgrade(binary)
    \/ \E p \in Plugin, tool \in BOOLEAN :
         \/ Publish(p) \/ PluginAdd(p, tool) \/ PluginUpdate(p, tool)
         \/ \E force \in BOOLEAN : PluginRemove(p, force, tool)

RegistrySpec == RegistryInit /\ [][RegistryNext]_registryVars

-------------------------------------------------------------------------------
(* "A failure at any step leaves the project exactly as it was"                *)
(* (projectfiles/changes.go): after a command that failed the checkout is what *)
(* it was before, whatever had been written by then, with two exceptions a     *)
(* template's undo makes: a file that was there already, with the very content *)
(* of a plugin's, is deleted with the plugin; and additions it could not take  *)
(* out of the contract are reported.                                           *)
FailureUndone ==
    Idle /\ outcome = "failed" =>
        \A x \in Path :
            \/ tree[x] = before[x]
            \/ x \in PluginFile /\ before[x] = Clean(1)
            \/ x = Contract /\ \A a \in tree[x] \ before[x] : a[1] \in manual

(* Between commands every plugin in the lock has the plugins it requires in    *)
(* the lock, whatever was added, updated, removed or undone, and there is one  *)
(* theme at most.                                                              *)
RequirementsHold ==
    Idle => /\ \A p \in Locked : Lock[p].requires \subseteq Locked
            /\ Cardinality(Locked \cap Theme) <= 1

(* Between commands the contract holds exactly what the lock says was merged,  *)
(* up to the additions reported as left over.                                  *)
ContractMatchesLock ==
    Idle => \A p \in Plugin :
        /\ Lock[p].contract # 0 => {a \in tree[Contract] : a[1] = p} = {Line(p, Lock[p].contract)}
        /\ Lock[p].contract = 0 /\ p \notin manual => {a \in tree[Contract] : a[1] = p} = {}

RegistrySound == FailureUndone /\ RequirementsHold /\ ContractMatchesLock

(* A command never drops the builder's work from a file, a forced removal      *)
(* excepted: updates and upgrades keep, merge or set aside.                    *)
EditsKept ==
    [][\A x \in PluginFile \cup CoreFile :
          (~Quiet /\ cmd.op # "remove" /\ tree[x] # Absent /\ tree[x].edited)
             => tree'[x] # Absent /\ tree'[x].edited]_registryVars
===============================================================================
