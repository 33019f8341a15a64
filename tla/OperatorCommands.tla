--------------------------- MODULE OperatorCommands ---------------------------
(* The operator console (internal/bootstrap/operatorcommands): commands that   *)
(* parse their arguments, load the application, change one thing through its   *)
(* service, and then store an audit record of the change on their own, before  *)
(* which the process may be interrupted; and webhook:work, the delivery loop.  *)
(* A thing that commands change is a subject with a value and a version that   *)
(* counts its changes (the stored version of a setting or a quota; elsewhere   *)
(* it is the model's count).                                                   *)
EXTENDS Naturals, FiniteSets, Sequences, SequencesExt

CONSTANTS
    Console,        \* shells that run commands
    Selected,       \* subjects whose starter is selected in OPTIONAL_STARTERS
    Arguments,      \* argument lists: sequences of [flag, value], value 0 is empty
    MaxCommands,    \* bound: commands run
    MaxBatch,       \* the largest --batch
    Polls,          \* --poll values
    MaxDelay,       \* 30 s
    MaxArrivals     \* bound: deliveries that become due

CommandsAssumption == Polls \subseteq Nat /\ MaxDelay \in Nat /\ MaxBatch \in Nat

Subject == {"setting", "quota", "operator", "usage", "test", "delivery", "audit"}

VARIABLES
    subject,        \* [Subject -> [version, value]]
    command,        \* [Console -> what its command is doing]
    trail,          \* audit records of commands, in order
    gone,           \* changes whose record was lost or pruned
    commands,       \* commands run so far
    worker, due     \* webhook:work, and the deliveries it has to send

commandVars == <<subject, command, trail, gone, commands, worker, due>>

NoCommand == [phase |-> "idle", name |-> "none", on |-> "none", expected |-> 0, before |-> 0, after |-> 0,
              audit |-> FALSE]
NoWorker == [phase |-> "stopped", batch |-> 1, poll |-> 1, once |-> FALSE, delay |-> 1, total |-> 0,
             processed |-> 0, failed |-> FALSE]

CommandsInit ==
    /\ subject = [s \in Subject |-> [version |-> 0, value |-> 0]]
    /\ command = [c \in Console |-> NoCommand]
    /\ trail = <<>> /\ gone = {} /\ commands = 0
    /\ worker = NoWorker /\ due = 0

-------------------------------------------------------------------------------
(* Argument lists. parseSettingFlags, parseWebhookOperatorArgs and             *)
(* parseAuditPruneArguments refuse an unknown flag, one given twice, an empty  *)
(* value and a missing flag; with the flag package the last value counts.      *)
Strict(args) ==
    /\ \A i \in DOMAIN args : args[i].flag = "n" /\ args[i].value # 0
    /\ Cardinality({i \in DOMAIN args : args[i].flag = "n"}) = 1
LastWins(args) ==
    /\ \A i \in DOMAIN args : args[i].flag = "n"
    /\ args # <<>> /\ Last(args).value # 0
Parsed(on, args) == IF on \in {"usage", "quota"} THEN LastWins(args) ELSE Strict(args)
Given(args) == Last(args).value - 1

(* What the services do, on a value and a version: the stored versions are     *)
(* compared (SetAppSetting, SetUsageQuota and their resets), a grant, a        *)
(* receipt and a test delivery exist once, a terminal delivery is requeued.    *)
Stored(s, v) == IF subject[s].value = v THEN subject[s]
                ELSE [version |-> subject[s].version + 1, value |-> v]
Versioned(s, expected, v) == {r \in {Stored(s, v)} : subject[s].version = expected}
Recorded(s, vs) == IF subject[s].value # 0 THEN {subject[s]} ELSE {Stored(s, v) : v \in vs}
SettingCommand(name, expected) == Versioned("setting", expected, IF name = "setting:set" THEN 1 ELSE 0)
QuotaCommand(name, expected) == Versioned("quota", expected, IF name = "usage:quota:set" THEN 1 ELSE 0)
OperatorCommand(name) == {Stored("operator", IF name = "operator:grant" THEN 1 ELSE 0)}
UsageRecordCommand == Recorded("usage", {1})
UsageConsumeCommand == Recorded("usage", {1, 2})              \* 2: denied, with a receipt
WebhookPublishTestCommand == Recorded("test", {1})
WebhookReplayCommand == {r \in {Stored("delivery", 0)} : subject["delivery"].value = 1}
AuditPruneCommand == {subject["audit"]}
Outcomes(name, expected) ==
    CASE name \in {"setting:set", "setting:reset"}         -> SettingCommand(name, expected)
      [] name \in {"usage:quota:set", "usage:quota:reset"} -> QuotaCommand(name, expected)
      [] name \in {"operator:grant", "operator:revoke"}    -> OperatorCommand(name)
      [] name = "usage:record"         -> UsageRecordCommand
      [] name = "usage:consume"        -> UsageConsumeCommand
      [] name = "webhook:publish-test" -> WebhookPublishTestCommand
      [] name = "webhook:replay"       -> WebhookReplayCommand
      [] OTHER                         -> AuditPruneCommand
On(name) ==
    CASE name \in {"setting:set", "setting:reset"} -> "setting"
      [] name \in {"usage:quota:set", "usage:quota:reset"} -> "quota"
      [] name \in {"operator:grant", "operator:revoke"} -> "operator"
      [] name \in {"usage:record", "usage:consume"} -> "usage"
      [] name = "webhook:publish-test" -> "test"
      [] name = "webhook:replay" -> "delivery"
      [] OTHER -> "audit"
Manifest == {"setting:set", "setting:reset", "usage:quota:set", "usage:quota:reset", "operator:grant",
             "operator:revoke", "usage:record", "usage:consume", "webhook:publish-test", "webhook:replay",
             "audit:prune"}

(* Whether a success is recorded: a replayed receipt, an unchanged quota and a *)
(* grant that was there (or was not) are answered without a record.            *)
RecordsAlways(s, before, after) == TRUE                       \* mutant of Records
Records(s, before, after) == s \in {"usage", "quota", "operator"} => before # after

-------------------------------------------------------------------------------
(* Run: the arguments are parsed and the runtime loaded, or nothing happens.   *)
Load(c, name, args) ==
    /\ command[c].phase = "idle" /\ commands < MaxCommands
    /\ Parsed(On(name), args) /\ On(name) \in Selected \cup {"audit"}
    /\ commands' = commands + 1
    /\ command' = [command EXCEPT ![c] = [NoCommand EXCEPT !.phase = "loaded", !.name = name,
                                            !.on = On(name), !.expected = Given(args)]]
    /\ UNCHANGED <<subject, trail, gone, worker, due>>

(* The service's transaction; audit:prune removes one batch, the oldest record.*)
Act(c) ==
    LET m == command[c] IN
    /\ m.phase = "loaded"
    /\ \E r \in Outcomes(m.name, m.expected) :
         /\ subject' = [subject EXCEPT ![m.on] = r]
         /\ command' = [command EXCEPT ![c].phase = "acted", ![c].before = subject[m.on].version,
                                       ![c].after = r.version,
                                       ![c].audit = Records(m.on, subject[m.on].version, r.version)]
    /\ IF m.name = "audit:prune" /\ trail # <<>>
       THEN trail' = Tail(trail) /\ gone' = gone \cup {Head(trail)}
       ELSE UNCHANGED <<trail, gone>>
    /\ UNCHANGED <<commands, worker, due>>

(* Another version, nothing to replay, no such account, or an interruption     *)
(* before the transaction committed: the command ends with an error.           *)
Refused(c) ==
    /\ command[c].phase = "loaded"
    /\ command' = [command EXCEPT ![c] = NoCommand]
    /\ UNCHANGED <<subject, trail, gone, commands, worker, due>>

Entry(m) == [on |-> m.on, before |-> m.before, after |-> m.after]
(* recordSettingCommandAudit and its kin: Record stores at once.               *)
RecordAudit(c) ==
    /\ command[c].phase = "acted"
    /\ trail' = IF command[c].audit THEN Append(trail, Entry(command[c])) ELSE trail
    /\ command' = [command EXCEPT ![c] = NoCommand]
    /\ UNCHANGED <<subject, gone, commands, worker, due>>

(* The record fails, or an interruption has canceled its context: a warning.   *)
AuditFails(c) ==
    /\ command[c].phase = "acted" /\ command[c].audit
    /\ gone' = gone \cup {Entry(command[c])}
    /\ command' = [command EXCEPT ![c] = NoCommand]
    /\ UNCHANGED <<subject, trail, commands, worker, due>>

-------------------------------------------------------------------------------
(* webhook:work. A delivery becomes due; the loop checks its context,          *)
(* dispatches a batch, and waits unless the batch was full.                    *)
Arrive ==
    /\ due + worker.total < MaxArrivals /\ due' = due + 1
    /\ UNCHANGED <<subject, command, trail, gone, commands, worker>>

StartWorker(batch, poll, once) ==
    /\ worker = NoWorker /\ batch \in 1..MaxBatch
    /\ worker' = [NoWorker EXCEPT !.phase = "check", !.batch = batch, !.poll = poll, !.once = once, !.delay = poll]
    /\ UNCHANGED <<subject, command, trail, gone, commands, due>>

(* DispatchWebhooks sends up to a batch, or fails after some of it.            *)
DispatchBatch(n, failed) ==
    /\ worker.phase = "check"
    /\ n <= due /\ n <= worker.batch /\ (~failed => n = worker.batch \/ n = due)
    /\ due' = due - n
    /\ subject' = [subject EXCEPT !["delivery"].value = IF n > 0 THEN 1 ELSE @]
    /\ worker' = [worker EXCEPT !.total = @ + n, !.processed = n, !.failed = failed,
                                !.phase = "decide"]
    /\ UNCHANGED <<command, trail, gone, commands>>
Ended == [NoWorker EXCEPT !.phase = "ended", !.total = worker.total]
SmallerOf(a, b) == IF a < b THEN a ELSE b
GoesOn == ~worker.failed /\ worker.processed = worker.batch
runWebhookWorker ==
    /\ worker.phase = "decide"
    /\ worker' = IF worker.once THEN Ended
                 ELSE [worker EXCEPT !.delay = IF worker.failed THEN @ ELSE worker.poll,
                                     !.phase = IF GoesOn THEN "check" ELSE "wait"]
    /\ UNCHANGED <<subject, command, trail, gone, commands, due>>
waitForWebhookWorker ==
    /\ worker.phase = "wait"
    /\ worker' = [worker EXCEPT !.phase = "check",
                                !.delay = IF worker.failed THEN SmallerOf(2 * @, MaxDelay) ELSE @]
    /\ UNCHANGED <<subject, command, trail, gone, commands, due>>
(* SIGINT or SIGTERM ends the check, the dispatch and the wait.                *)
StopWorker ==
    /\ worker.phase \in {"check", "wait"} /\ worker' = Ended
    /\ UNCHANGED <<subject, command, trail, gone, commands, due>>

CommandNext == \E c \in Console :
    \/ \E name \in Manifest, args \in Arguments : Load(c, name, args)
    \/ Act(c) \/ Refused(c) \/ RecordAudit(c) \/ AuditFails(c)
WorkerNext ==
    \/ Arrive
    \/ \E batch \in 1..MaxBatch, poll \in Polls, once \in BOOLEAN : StartWorker(batch, poll, once)
    \/ \E n \in 0..MaxBatch, failed \in BOOLEAN : DispatchBatch(n, failed)
    \/ runWebhookWorker \/ waitForWebhookWorker \/ StopWorker
CommandsNext == CommandNext \/ WorkerNext

CommandsSpec == CommandsInit /\ [][CommandsNext]_commandVars

-------------------------------------------------------------------------------
(* Every change a command made has exactly one audit record, unless its record *)
(* failed or was pruned or is about to be stored; and only setting and webhook *)
(* commands, and audit:prune, record a success that changed nothing.           *)
TrailIsTrue ==
    /\ \A s \in Subject : \A k \in 1..subject[s].version :
         LET change == [on |-> s, before |-> k - 1, after |-> k] IN
         Cardinality({i \in DOMAIN trail : trail[i] = change})
           + Cardinality({c \in Console : command[c].phase = "acted" /\ Entry(command[c]) = change})
           + Cardinality({change} \cap gone) = 1
    /\ \A i \in DOMAIN trail :
         /\ trail[i].after <= subject[trail[i].on].version
         /\ trail[i].before = trail[i].after => trail[i].on \in {"setting", "test", "delivery", "audit"}

(* The worker waits only after a failure or when it had taken everything that  *)
(* was due; its pause never passes the larger of the poll and the cap, and is  *)
(* the poll again after a success.                                             *)
WorkerIsDiligent ==
    /\ worker.phase = "wait" =>
         worker.failed \/ (worker.processed < worker.batch /\ worker.delay = worker.poll)
    /\ worker.delay <= worker.poll \/ worker.delay <= MaxDelay

(* What the console promises: a true trail, and a worker that does not idle.   *)
CommandsSound == TrailIsTrue /\ WorkerIsDiligent
===============================================================================
