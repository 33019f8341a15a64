----------------------------- MODULE MCDeliveries -----------------------------
(* What must not be lost on its way: notifications by e-mail, tasks that       *)
(* clients dispatch under a key, jobs between a queue's drivers and a worker,  *)
(* retried steps, audit records, and requests when the server shuts down. A    *)
(* behaviour plays one of them, the scene it begins with.                      *)
EXTENDS Naturals

CONSTANTS
    Note, Address, Mailer, MailAttempts, MailBatch,
    Client, Key, NoKey, Content, MaxCalls, MaxFaults,
    Job, Retries, OwnQueue, HasDelay, Queue, NoQueue, Caller, Poller, MaxBootstraps,
    Policy, Bare,
    Entry, Mine, Unstorable, AuditQueueSize, AuditBatch, AuditRange, PageLimit, MaxDay, MaxTimeouts,
    Request, Checker, Budget, CanMigrate

VARIABLES
    scene,
    note, mail, preference, address, desk, turn, mailed,
    rows, pc, dispatch, answer, calls, faults, stored,
    drivers, store, chosen, registered, goroutine, workerDriver, sleeping, made, history,
    step,
    filing, auditQueue, auditBatch, writer, trail, nextRow, day, reader, timeouts,
    phase, listening, request, db, queued, lost, left, quit, diagnostics, probe

(* One job is tried three times, the other never again, and names its queue.   *)
(* Policies ask for less than one try up to two, with a limit the second delay *)
(* reaches or the default one.                                                 *)
RetriesOf == [j \in Job |-> IF j \in HasDelay THEN 0 ELSE 3]
QueueOf == [j \in Job |-> IF j \in HasDelay THEN CHOOSE n \in Queue : TRUE ELSE NoQueue]
Policies == [max : 0..2, initial : {0, 10}, limit : {0, 15}]

N == INSTANCE NotificationDelivery
I == INSTANCE TaskIntake WITH request <- dispatch
J == INSTANCE JobDispatch
R == INSTANCE RetriedStep
A == INSTANCE AuditTrail
S == INSTANCE Server

ASSUME DeliveriesAssumption ==
    /\ N!NotificationAssumption /\ I!IntakeAssumption
    /\ J!JobDispatchAssumption /\ R!RetriedStepAssumption
    /\ A!AuditAssumption /\ S!ServerAssumption

mailVars == <<note, mail, preference, address, desk, turn, mailed>>
intakeVars == <<rows, pc, dispatch, answer, calls, faults, stored>>
jobsVars == <<drivers, store, chosen, registered, goroutine, workerDriver, sleeping, made, history>>
stepsVars == <<step>>
auditVars == <<filing, auditQueue, auditBatch, writer, trail, nextRow, day, reader, timeouts>>
serverVars == <<phase, listening, request, db, queued, lost, left, quit, diagnostics, probe>>
vars == <<scene, mailVars, intakeVars, jobsVars, stepsVars, auditVars, serverVars>>

Init ==
    /\ scene \in {"mail", "intake", "jobs", "steps", "audit", "server"}
    /\ N!NotificationInit
    /\ I!Init
    /\ J!JobDispatchInit
    /\ R!RetriedStepInit
    /\ A!AuditInit
    /\ S!ServerInit
    /\ address = CHOOSE a \in Address : TRUE
    /\ scene # "audit" => writer.async
    /\ chosen.queue = CHOOSE n \in Queue : TRUE

MailScene ==
    /\ scene = "mail" /\ N!NotificationNext
    /\ UNCHANGED <<scene, intakeVars, jobsVars, stepsVars, auditVars, serverVars>>
IntakeScene ==
    /\ scene = "intake" /\ I!Next
    /\ UNCHANGED <<scene, mailVars, jobsVars, stepsVars, auditVars, serverVars>>
JobsScene ==
    /\ scene = "jobs" /\ J!JobDispatchNext
    /\ UNCHANGED <<scene, mailVars, intakeVars, stepsVars, auditVars, serverVars>>
StepsScene ==
    /\ scene = "steps" /\ R!RetriedStepNext
    /\ UNCHANGED <<scene, mailVars, intakeVars, jobsVars, auditVars, serverVars>>
AuditScene ==
    /\ scene = "audit" /\ A!AuditNext
    /\ UNCHANGED <<scene, mailVars, intakeVars, jobsVars, stepsVars, serverVars>>
ServerScene ==
    /\ scene = "server" /\ S!ServerNext
    /\ UNCHANGED <<scene, mailVars, intakeVars, jobsVars, stepsVars, auditVars>>

Next ==
    \/ MailScene \/ IntakeScene \/ JobsScene \/ StepsScene \/ AuditScene
    \/ ServerScene

(* The fairness of each component, in its own scene.                           *)
InMail(Step) ==
    scene = "mail" /\ Step
    /\ UNCHANGED <<scene, intakeVars, jobsVars, stepsVars, auditVars, serverVars>>
InAudit(Step) ==
    scene = "audit" /\ Step
    /\ UNCHANGED <<scene, mailVars, intakeVars, jobsVars, stepsVars, serverVars>>
InServer(Step) ==
    scene = "server" /\ Step
    /\ UNCHANGED <<scene, mailVars, intakeVars, jobsVars, stepsVars, auditVars>>
Fairness ==
    /\ \A w \in Mailer : WF_mailVars(InMail(N!DispatchDue(w)))
    /\ \A n \in Note : WF_mailVars(InMail(N!MailFallsDue(n))) /\ WF_mailVars(InMail(N!MailLeaseEnds(n)))
    /\ WF_auditVars(InAudit(A!AuditRun))
    /\ WF_serverVars(InServer(S!GracefulShutdown))
    /\ \A r \in Request : WF_serverVars(InServer(S!EndQuery(r)))

Spec == Init /\ [][Next]_vars /\ Fairness

(* All mails of a notification go to the one address its delivery is bound to, *)
(* it counts as delivered only if a mail was handed over, and it is tried no   *)
(* more often than allowed (BindEmailDestination, DispatchDue, CompleteEmail). *)
MailSound == N!OneDestination /\ N!MailAccounted

(* What insert answers a client is true of the ledger, and clients that were   *)
(* answered for one key were told of one task (PostgresDriver.insert).         *)
IntakeSound == I!AnswersAreTrue /\ I!OneTaskPerKey

(* A job under way is in one place, and however callers and worker hand it to  *)
(* each other it is handled at most once more than its retries say             *)
(* (SyncDriver.Push, processJob); a retried step is not called again after its *)
(* context or its tries ended (runWithRetry).                                  *)
WorkflowSound == (scene = "jobs" => J!JobsSound) /\ (scene = "steps" => R!RetriedStepSound)

(* No audit record that was accepted is left behind when the writer has ended, *)
(* and paging returns every row once (asyncWriter, FindSlice).                 *)
AuditSound == scene = "audit" => A!AuditKept /\ A!PagesComplete

(* The database closes with no request on its way unless time ran out, a       *)
(* request has one body, a probe answers the worst status (gracefulShutdown,   *)
(* TimeoutWithConfig, GetHealth).                                              *)
ServerSound == scene = "server" => S!ServerSound

(* Every e-mail delivery ends, delivered or failed; a shutdown of the audit    *)
(* writer drains its queue; and a server asked to stop exits, also when a      *)
(* handler never returns (DispatchDue, asyncWriter.run, gracefulShutdown).     *)
DeliveriesEnd == N!MailSettles /\ A!ShutdownDrains /\ S!ShutdownEnds
===============================================================================
