------------------------------- MODULE Starters -------------------------------
(* Starter selection and assembly.  The optional starters a deployment wants   *)
(* are listed in OPTIONAL_STARTERS of its environment file; starter:enable and *)
(* starter:disable rewrite that line, and a starting server validates it,      *)
(* orders the manifests by their dependencies and applies them one by one to   *)
(* the registry that owns modules, migrations and seeders.                     *)
EXTENDS Naturals, Sequences, FiniteSets, SequencesExt

CONSTANTS
    Base,        \* the default starters, always assembled first
    Optional,    \* the optional starters of the catalog
    Stranger,    \* a name the catalog does not know
    Ships,       \* the assets (modules, migrations, seeders) of each starter
    CoreAssets,  \* the migrations the kernel registers itself
    InitialFile, \* the environment files the commands may find
    Shell,       \* the terminals that run starter commands
    MaxEdits     \* bound on the commands that succeed

VARIABLES
    depends,   \* the dependencies the manifests declare
    file,      \* the OPTIONAL_STARTERS assignments of the environment file, in order
    shell,     \* the command each terminal runs: what it read, what it will write
    registry,  \* the registry of the server that boots or serves
    edits

startersVars == <<depends, file, shell, registry, edits>>

StarterNames == Optional \cup {Base}

NoCommand == [run |-> FALSE, enable |-> TRUE, names |-> {}, cascade |-> FALSE,
              read |-> <<>>, next |-> <<>>]

NewRegistry == [phase |-> "off", todo |-> <<>>, starters |-> <<>>, owner |-> {}, chosen |-> {}]

(* --- the catalog --- *)

Dependencies(n) == IF n = Base THEN {} ELSE depends[n]

(* visit of validateDependencies: depth first, 1 while a starter is on the     *)
(* path and 2 once it is finished; 3 marks a starter met again on its path.    *)
RECURSIVE Visit(_, _)
Visit(state, n) ==
    CASE state[n] = 0 ->
            LET after == FoldLeft(Visit, [state EXCEPT ![n] = 1], SetToSeq(Dependencies(n)))
            IN  IF after[n] = 1 THEN [after EXCEPT ![n] = 2] ELSE after
      [] state[n] = 1 -> [state EXCEPT ![n] = 3]
      [] OTHER -> state

Acyclic == 3 \notin Range(FoldLeft(Visit, [n \in StarterNames |-> 0], SetToSeq(StarterNames)))

ValidateDependencies ==
    /\ \A o \in Optional : depends[o] \subseteq StarterNames \ {o}
    /\ Acyclic

(* appendWithDependencies: a starter follows the optional ones it depends on. *)
RECURSIVE AppendWithDependencies(_, _)
AppendWithDependencies(done, n) ==
    IF n \in Range(done) THEN done
    ELSE Append(FoldLeft(AppendWithDependencies, done,
                         SetToSeq(Dependencies(n) \cap Optional)), n)

Assembled(names) == FoldLeft(AppendWithDependencies, <<>>, names)

Canonical(names) == IsInjective(names) /\ Range(names) \subseteq Optional

SelectAccepts(names) ==
    /\ Canonical(names)
    /\ \A n \in Range(names) : Dependencies(n) \cap Optional \subseteq Range(names)

(* --- the environment file --- *)

(* The last assignment of a variable is the one that counts ... *)
ParseOptionalStarterSelection == IF file = <<>> THEN <<>> ELSE Last(file)

(* ... and the first is the one the commands rewrite. *)
ReplaceEnvironmentValue(value) ==
    IF file = <<>> THEN <<value>> ELSE [file EXCEPT ![1] = value]

EnableStarters(current, requested) == current \o SetToSeq(requested \ Range(current))

RECURSIVE RemoveWithDependents(_, _)
RemoveOnce(current, remove) ==
    remove \cup {n \in Range(current) : Dependencies(n) \cap remove # {}}
RemoveWithDependents(current, remove) ==
    LET more == remove \cup {n \in Range(current) : Dependencies(n) \cap remove # {}}
    IN  IF more = remove THEN remove ELSE RemoveWithDependents(current, more)

DisableAccepts(current, c) ==
    /\ c.names \subseteq Optional
    /\ c.cascade \/ RemoveWithDependents(current, c.names) = c.names

DisableStarters(current, c) ==
    LET remove == RemoveWithDependents(current, c.names)
    IN  Assembled(SelectSeq(current, LAMBDA n : n \notin remove))

(* changeStarterSelection up to the write: an unreadable catalog, a selection  *)
(* that does not validate and a refused request end the command here.          *)
ChangeStarterSelection(s, c) ==
    LET read == ParseOptionalStarterSelection
        combined == EnableStarters(Assembled(read), c.names)
        next == IF c.enable THEN Assembled(combined) ELSE DisableStarters(read, c)
    IN  /\ ~shell[s].run /\ ValidateDependencies
        /\ IF c.enable THEN Canonical(read) /\ Canonical(combined)
                       ELSE SelectAccepts(read) /\ DisableAccepts(read, c)
        /\ shell' = [shell EXCEPT ![s] = [c EXCEPT !.run = TRUE, !.read = read, !.next = next]]
        /\ UNCHANGED <<depends, file, registry, edits>>

(* parseStarterCommandOptions: at least one name, --cascade only to disable. *)
Options == {[NoCommand EXCEPT !.enable = e, !.names = names, !.cascade = k] :
              e \in BOOLEAN, k \in BOOLEAN, names \in (SUBSET (Optional \cup {Stranger})) \ {{}}}

(* writeFileAtomic: the rename puts the whole new file in place (the file is   *)
(* left alone when nothing changes, with the same effect).                     *)
WriteFileAtomic(s) ==
    /\ shell[s].run /\ edits < MaxEdits
    /\ file' = ReplaceEnvironmentValue(shell[s].next)
    /\ shell' = [shell EXCEPT ![s] = NoCommand]
    /\ edits' = edits + 1
    /\ UNCHANGED <<depends, registry>>

(* A dry run, or a failure before the rename: the temporary file is removed. *)
WriteFails(s) ==
    /\ shell[s].run
    /\ shell' = [shell EXCEPT ![s] = NoCommand]
    /\ UNCHANGED <<depends, file, registry, edits>>

(* --- assembly --- *)

(* ServeCommand.Run and NewConfiguredRegistry: one snapshot of the selection,  *)
(* validated before anything is built.                                         *)
ConfiguredManifests ==
    LET names == ParseOptionalStarterSelection IN
    /\ registry.phase \in {"off", "failed"}
    /\ registry' = IF ValidateDependencies /\ SelectAccepts(names)
                   THEN [NewRegistry EXCEPT !.phase = "assembling", !.chosen = Range(names),
                                            !.todo = <<Base>> \o Assembled(names)]
                   ELSE [NewRegistry EXCEPT !.phase = "failed"]
    /\ UNCHANGED <<depends, file, shell, edits>>

Owned == {claim[1] : claim \in registry.owner}

(* ApplyManifest: every contribution is checked before the first module is     *)
(* activated, and an activation may fail; the registry takes all of a manifest *)
(* or the boot ends.                                                           *)
ApplyManifest ==
    /\ registry.phase = "assembling" /\ registry.todo # <<>>
    /\ LET n == Head(registry.todo) IN
       \/ /\ Ships[n] \cap Owned = {} /\ n \notin Range(registry.starters)
          /\ registry' = [registry EXCEPT !.todo = Tail(@), !.starters = Append(@, n),
                                          !.owner = @ \cup (Ships[n] \X {n})]
       \/ registry' = [registry EXCEPT !.phase = "failed"]
    /\ UNCHANGED <<depends, file, shell, edits>>

(* registerCoreMigrations, then the migrations of the registry go to the migrator. *)
RegisterCoreMigrations ==
    /\ registry.phase = "assembling" /\ registry.todo = <<>>
    /\ registry' = IF CoreAssets \cap Owned = {}
                   THEN [registry EXCEPT !.phase = "serving",
                                         !.owner = @ \cup (CoreAssets \X {"direct registration"})]
                   ELSE [registry EXCEPT !.phase = "failed"]
    /\ UNCHANGED <<depends, file, shell, edits>>

ServerExits ==
    /\ registry.phase = "serving"
    /\ registry' = NewRegistry
    /\ UNCHANGED <<depends, file, shell, edits>>

StartersInit ==
    /\ depends \in [Optional -> SUBSET Optional]
    /\ file \in InitialFile
    /\ shell = [s \in Shell |-> NoCommand]
    /\ registry = NewRegistry
    /\ edits = 0

StartersNext ==
    \/ \E s \in Shell : \/ \E c \in Options : ChangeStarterSelection(s, c)
                        \/ WriteFileAtomic(s) \/ WriteFails(s)
    \/ ConfiguredManifests \/ ApplyManifest \/ RegisterCoreMigrations \/ ServerExits

StartersSpec == StartersInit /\ [][StartersNext]_startersVars

(* --- properties --- *)

Closed(T) == \A n \in T : depends[n] \cap Optional \subseteq T
Closure(S) == {o \in Optional : \A T \in SUBSET Optional : (S \subseteq T /\ Closed(T)) => o \in T}
Dependents(S, within) == {o \in within : Closure({o}) \cap S # {}}

(* In a registry every starter comes after the ones it depends on, no asset    *)
(* has two owners, and a server serves exactly the starters its selection      *)
(* names; a catalog is accepted only if no starter depends on itself through   *)
(* others (Catalog.Select, Registry.ApplyManifest, validateDependencies).      *)
AssemblyOrdered ==
    /\ ValidateDependencies => \A o \in Optional : \A d \in depends[o] \cap Optional : o \notin Closure({d})
    /\ \A i \in 1..Len(registry.starters) :
          Dependencies(registry.starters[i]) \subseteq Range(SubSeq(registry.starters, 1, i - 1))
    /\ \A c, d \in registry.owner : c[1] = d[1] => c = d
    /\ registry.phase = "serving" => Range(registry.starters) = registry.chosen \cup {Base}

(* A command that reports success on the single OPTIONAL_STARTERS line it read leaves    *)
(* the selection its user asked for: enable adds the requested starters and    *)
(* what they depend on and nothing else, disable removes them with their       *)
(* dependents and nothing else, and the server boots from either.              *)
RewriteIsExact ==
    [][\A s \in Shell :
         (shell[s].run /\ ~shell'[s].run /\ edits' # edits
              /\ Len(file) <= 1 /\ ParseOptionalStarterSelection = shell[s].read) =>
           /\ SelectAccepts(ParseOptionalStarterSelection)'
           /\ LET old == Range(shell[s].read)
                  new == Range(ParseOptionalStarterSelection')
              IN  IF shell[s].enable THEN new = Closure(old \cup shell[s].names)
                  ELSE new = old \ Dependents(shell[s].names, old)]_startersVars
=============================================================================
