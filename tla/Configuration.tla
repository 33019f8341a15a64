--------------------------- MODULE Configuration ---------------------------
(* Runtime configuration: env.Load merges the environment files under the      *)
(* process environment, config.Load reads a typed snapshot from the result,    *)
(* and validate decides whether it becomes the configuration in force.  A      *)
(* behaviour varies the keys of one group of settings (queue, sessions, ...);  *)
(* durations and sizes are small numbers whose defaults keep the order the     *)
(* code's defaults have.                                                       *)
EXTENDS Naturals, FiniteSets, Sequences, TLC

CONSTANTS
    Environment,   \* the environments that have files of their own
    Production,    \* those isProductionEnvironment recognises
    Number,        \* the numbers a file may assign
    Junk,          \* an assignment that does not parse as a number
    NoConfig,      \* no configuration has been loaded
    MaxEdits       \* bound on edits of the files and of the process environment

VARIABLES
    group,       \* the settings this behaviour is about
    files,       \* what each environment file assigns
    malformed,   \* the files that do not parse
    ignore,      \* FASTBUILD_IGNORE_ENV_FILES
    process,     \* the process environment
    applied,     \* loadedFileValues: what the last load wrote into it
    loaded,      \* "no", "ok" or "error" (loaded and loadErr)
    appEnv,      \* the environment selected by the last load, a set of at most one
    config,      \* GlobalConfig
    current,     \* TRUE while nothing changed since the last successful load
    edits

configurationVars ==
    <<group, files, malformed, ignore, process, applied, loaded, appEnv, config, current, edits>>

SelectorKey == {"APP_ENV", "GO_ENV"}

(* The default of every key, by group (config.Load, loadDatabaseConfig). *)
Defaults ==
    [queue     |-> [worker |-> 2, lease |-> 3, beat |-> 1],
     session   |-> [ttl |-> 3, idle |-> 2, touch |-> 1],
     asset     |-> [grant |-> 1, pending |-> 2],
     transport |-> [read |-> 2, header |-> 1, write |-> 3, request |-> 2],
     database  |-> [open |-> 2, idleTime |-> 1, lifetime |-> 2, tls |-> 0]]

Key == SelectorKey \cup DOMAIN Defaults[group]
Value(key) == IF key \in SelectorKey THEN Environment ELSE Number \cup {Junk}

Layer == {<<"base">>, <<"local">>, <<"explicit">>}
             \cup ({"env", "env local"} \X Environment)

(* --- env.Load --- *)

Assigned(l, key) == IF key \in DOMAIN files[l] THEN {files[l][key]} ELSE {}

(* firstNonEmpty: the first of a list of optional values. *)
FirstNonEmpty(list) ==
    LET found == {i \in 1..Len(list) : list[i] # {}}
    IN  IF found = {} THEN {} ELSE list[CHOOSE i \in found : \A j \in found : i <= j]

FromProcess(env, key) == IF key \in DOMAIN env THEN {env[key]} ELSE {}

(* The environment is chosen by the process, the explicit file or .env. *)
SelectedEnv(env) ==
    FirstNonEmpty(<<FromProcess(env, "APP_ENV"), FromProcess(env, "GO_ENV"),
                    Assigned(<<"explicit">>, "APP_ENV"), Assigned(<<"explicit">>, "GO_ENV"),
                    Assigned(<<"base">>, "APP_ENV"), Assigned(<<"base">>, "GO_ENV")>>)

Only(f, S) == [x \in DOMAIN f \cap S |-> f[x]]

(* The files a load reads, from the lowest priority to the highest. *)
FileLayers(sel) ==
    <<<<"base">>>> \o (IF sel = {} THEN <<>> ELSE <<<<"env", CHOOSE e \in sel : TRUE>>>>)
        \o <<<<"local">>>> \o (IF sel = {} THEN <<>> ELSE <<<<"env local", CHOOSE e \in sel : TRUE>>>>)
        \o <<<<"explicit">>>>

(* Keeping the value that is there, as godotenv.Load does, the lowest layer    *)
(* would win.                                                                  *)
MergeKeeping(layers) ==
    LET merged[i \in 0..Len(layers)] ==
          IF i = 0 THEN <<>> ELSE merged[i - 1] @@ files[layers[i]]
    IN  merged[Len(layers)]

MergeEnv(layers) ==
    LET merged[i \in 0..Len(layers)] ==
          IF i = 0 THEN <<>> ELSE files[layers[i]] @@ merged[i - 1]
    IN  merged[Len(layers)]

(* loadEnvFiles: what the files contribute to a process environment.  GO_ENV   *)
(* is an input only and APP_ENV is what was selected.                          *)
Contribution(env) ==
    LET sel == SelectedEnv(env)
        merged == Only(MergeEnv(FileLayers(sel)), Key \ SelectorKey)
        full == IF sel = {} THEN merged ELSE merged @@ ("APP_ENV" :> (CHOOSE e \in sel : TRUE))
    IN  Only(full, Key \ DOMAIN env)

ReadFails(env) == ~ignore /\ \E i \in 1..Len(FileLayers(SelectedEnv(env))) :
                      FileLayers(SelectedEnv(env))[i] \in malformed

(* loadEnvFiles on a process environment without the values of earlier loads. *)
LoadEnvFiles(env) ==
    CASE ignore ->
           /\ process' = env /\ applied' = <<>> /\ loaded' = "ok"
           /\ appEnv' = FirstNonEmpty(<<FromProcess(env, "APP_ENV"), FromProcess(env, "GO_ENV")>>)
      [] ~ignore /\ ReadFails(env) ->
           /\ process' = env /\ applied' = <<>> /\ loaded' = "error"
           /\ appEnv' = FirstNonEmpty(<<FromProcess(env, "APP_ENV"), FromProcess(env, "GO_ENV")>>)
      [] OTHER ->
           /\ process' = Contribution(env) @@ env /\ applied' = Contribution(env) /\ loaded' = "ok"
           /\ appEnv' = SelectedEnv(env)

(* removeLoadedFileValues: a value the process has changed since stays. *)
RemoveLoadedFileValues ==
    Only(process, {k \in DOMAIN process : ~(k \in DOMAIN applied /\ applied[k] = process[k])})

(* --- config.Load --- *)

IsProduction == appEnv' # {} /\ appEnv' \subseteq Production

(* env.GetInt and GetDuration fall back to the default, the database settings  *)
(* refuse what does not parse.                                                 *)
Setting(key) == IF key \in DOMAIN process' /\ process'[key] # Junk
                THEN process'[key] ELSE Defaults[group][key]

StrictDatabase == group = "database" => \A k \in DOMAIN Defaults[group] :
                                           k \in DOMAIN process' => process'[k] # Junk

Snapshot == [k \in DOMAIN Defaults[group] |-> Setting(k)]

ValidateQueueConfig(c) == c.worker > 0 /\ c.lease > c.worker /\ c.beat > 0 /\ c.beat < c.lease

ValidateAuthenticationConfig(c) ==
    c.ttl >= 1 /\ c.idle >= 1 /\ c.idle <= c.ttl /\ c.touch > 0 /\ c.touch <= c.idle

ValidateAssetConfig(c) == c.grant > 0 /\ c.pending >= c.grant

RequestTimeout(c) == IF c.request = 0 THEN Defaults.transport.request ELSE c.request

ValidateServerTransport(c) ==
    /\ c.read > 0 => c.header <= c.read
    /\ c.write > 0 => c.write > RequestTimeout(c)

ValidateDatabase(c) ==
    /\ c.open > 0 /\ c.idleTime > 0 /\ c.lifetime > 0 /\ c.idleTime <= c.lifetime
    /\ IsProduction => c.tls > 0

Validate(c) ==
    CASE group = "queue"     -> ValidateQueueConfig(c)
      [] group = "session"   -> ValidateAuthenticationConfig(c)
      [] group = "asset"     -> ValidateAssetConfig(c)
      [] group = "transport" -> ValidateServerTransport(c)
      [] group = "database"  -> StrictDatabase /\ ValidateDatabase(c)

InForce == config' = IF loaded' = "ok" /\ Validate(Snapshot) THEN Snapshot ELSE config

(* config.Load: the files are read once per process; a failure of that reading *)
(* is remembered.                                                              *)
Load ==
    /\ IF loaded = "no" THEN LoadEnvFiles(process)
                        ELSE UNCHANGED <<process, applied, loaded, appEnv>>
    /\ InForce
    /\ current' = IF loaded = "no" THEN loaded' = "ok" ELSE current
    /\ UNCHANGED <<group, files, malformed, ignore, edits>>

(* config.LoadFresh: the values of the earlier load are taken back first. *)
LoadFresh ==
    /\ LoadEnvFiles(RemoveLoadedFileValues)
    /\ InForce
    /\ current' = (loaded' = "ok")
    /\ UNCHANGED <<group, files, malformed, ignore, edits>>

(* --- the world around it --- *)

EditFile(l, key, v) ==
    /\ edits < MaxEdits
    /\ files' = [files EXCEPT ![l] = (key :> v) @@ @]
    /\ edits' = edits + 1 /\ current' = FALSE
    /\ UNCHANGED <<group, malformed, ignore, process, applied, loaded, appEnv, config>>

BreakFile(l) ==
    /\ edits < MaxEdits /\ malformed = {}
    /\ malformed' = {l}
    /\ edits' = edits + 1 /\ current' = FALSE
    /\ UNCHANGED <<group, files, ignore, process, applied, loaded, appEnv, config>>

(* env.Set, or the shell before the program starts. *)
SetVariable(key, v) ==
    /\ edits < MaxEdits
    /\ process' = (key :> v) @@ process
    /\ edits' = edits + 1 /\ current' = FALSE
    /\ UNCHANGED <<group, files, malformed, ignore, applied, loaded, appEnv, config>>

ConfigurationInit ==
    /\ group \in DOMAIN Defaults
    /\ files = [l \in Layer |-> <<>>]
    /\ malformed = {}
    /\ ignore \in BOOLEAN
    /\ process = <<>> /\ applied = <<>>
    /\ loaded = "no" /\ appEnv = {} /\ config = NoConfig
    /\ current = FALSE /\ edits = 0

ConfigurationNext ==
    \/ Load \/ LoadFresh
    \/ \E l \in Layer : BreakFile(l) \/ \E k \in Key : \E v \in Value(k) : EditFile(l, k, v)
    \/ \E k \in Key : \E v \in Value(k) : SetVariable(k, v)

ConfigurationSpec == ConfigurationInit /\ [][ConfigurationNext]_configurationVars

(* --- properties --- *)

(* The documented order: the process, the explicit file, the local file of the *)
(* environment, .env.local, the file of the environment, .env.                 *)
Documented(key) ==
    LET own == Only(process, {k \in DOMAIN process : ~(k \in DOMAIN applied /\ applied[k] = process[k])})
        ofEnv(kind) == UNION {Assigned(<<kind, e>>, key) : e \in appEnv}
    IN  IF ignore THEN FromProcess(own, key)
        ELSE FirstNonEmpty(<<FromProcess(own, key), Assigned(<<"explicit">>, key),
                             ofEnv("env local"), Assigned(<<"local">>, key),
                             ofEnv("env"), Assigned(<<"base">>, key)>>)

(* Whatever was edited and reloaded before, a getter answers what the highest  *)
(* layer that assigns the key assigns: no value of an earlier load, of another *)
(* environment's file or of a lower layer survives (env.LoadFresh).            *)
LayersInOrder ==
    current => \A k \in Key \ SelectorKey : FromProcess(process, k) = Documented(k)

(* The timers of the configuration in force nest as the workers, sessions,     *)
(* grants and handlers assume, also where a zero stands for a default and also *)
(* after a reload that failed (validate, GlobalConfig).                        *)
TimersNest ==
    config # NoConfig =>
      CASE group = "queue"     -> 0 < config.beat /\ config.beat < config.lease /\ config.worker < config.lease
        [] group = "session"   -> 0 < config.touch /\ config.touch <= config.idle /\ config.idle <= config.ttl
        [] group = "asset"     -> 0 < config.grant /\ config.grant <= config.pending
        [] group = "transport" -> config.write = 0 \/ RequestTimeout(config) < config.write
        [] group = "database"  -> 0 < config.idleTime /\ config.idleTime <= config.lifetime

ConfigurationSound == LayersInOrder /\ TimersNest
=============================================================================
