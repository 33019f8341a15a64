-------------------------------- MODULE Server --------------------------------
(* The HTTP server process: ServeCommand.Run assembles the application,        *)
(* HttpKernel.Handle listens, the global middleware (recovery, body limit,     *)
(* cooperative timeout) runs every request, the health routes ask the          *)
(* registered checkers, and gracefulShutdown stops everything in order under   *)
(* one deadline: the server, the diagnostics server, the starters (which store *)
(* the queued audit records), the tracer and the database.                     *)
EXTENDS Naturals

CONSTANTS
    Request,      \* the requests clients send
    Checker,      \* the registered health checkers, "database" among them
    Budget,       \* the 10 seconds of the shutdown context, in ticks
    CanMigrate    \* serve --migrate outside production

ServerAssumption == Budget \in Nat /\ CanMigrate \in BOOLEAN

VARIABLES
    phase,      \* where ServeCommand.Run and gracefulShutdown are
    listening,  \* the listener accepts connections
    request,    \* every request on its way through the middleware
    db,         \* "none", "open", "closing" or "closed"
    queued,     \* audit records the starters have not stored yet
    lost,       \* audit records a shutdown gave up
    left,       \* ticks left of the shutdown context
    quit,       \* a signal or a listener error asked for the shutdown
    diagnostics,\* the diagnostics server runs
    probe       \* one health probe: the results, those visited, the answer

serverVars == <<phase, listening, request, db, queued, lost, left, quit, diagnostics, probe>>

NewRequest == [at |-> "new", late |-> FALSE, code |-> 0, written |-> FALSE, bodies |-> 0, query |-> FALSE]
NoProbe == [at |-> "idle", results |-> <<>>, seen |-> {}, answer |-> "none"]
Status == {"up", "down", "degraded"}

(* --- boot --- *)

Go(from, to) == phase = from /\ phase' = to

(* Options, configuration, starter selection, logger. *)
LoadConfiguration ==
    /\ Go("off", "configured") \/ Go("off", "exited")
    /\ UNCHANGED <<listening, request, db, queued, lost, left, quit, diagnostics, probe>>

(* InitApplicationWithConfig: an unreachable database ends the boot. *)
InitApplication ==
    /\ \/ Go("configured", "connected") /\ db' = "open"
       \/ Go("configured", "exited") /\ UNCHANGED db
    /\ UNCHANGED <<listening, request, queued, lost, left, quit, diagnostics, probe>>

StartupMigrations ==
    /\ \/ Go("connected", "migrated")
       \/ CanMigrate /\ Go("connected", "exited")
    /\ UNCHANGED <<listening, request, db, queued, lost, left, quit, diagnostics, probe>>

BootstrapQueue ==
    /\ Go("migrated", "assembled") \/ Go("migrated", "exited")
    /\ UNCHANGED <<listening, request, db, queued, lost, left, quit, diagnostics, probe>>

(* Handle: the listener runs in its own goroutine; its error takes the same    *)
(* way out as a signal.                                                        *)
Handle ==
    /\ Go("assembled", "serving")
    /\ \/ listening' = TRUE /\ UNCHANGED quit
       \/ quit' = TRUE /\ UNCHANGED listening
    /\ diagnostics' \in BOOLEAN
    /\ UNCHANGED <<request, db, queued, lost, left, probe>>

(* --- a request through the middleware --- *)

Change(r, fields) == request' = [request EXCEPT ![r] = fields]
OnlyRequest == UNCHANGED <<phase, listening, db, queued, lost, left, quit, diagnostics, probe>>

Accept(r) ==
    /\ listening /\ request[r].at = "new"
    /\ Change(r, [request[r] EXCEPT !.at = "body limit"])
    /\ OnlyRequest

(* BodyLimit: a declared length above the limit is answered at once. *)
BodyLimit(r) ==
    /\ request[r].at = "body limit"
    /\ \/ Change(r, [request[r] EXCEPT !.at = "handler"])
       \/ Change(r, [request[r] EXCEPT !.at = "answered", !.code = 413, !.written = TRUE, !.bodies = 1])
    /\ OnlyRequest

(* The handler's statements: a closed pool refuses a new one. *)
BeginQuery(r) ==
    /\ request[r].at = "handler" /\ ~request[r].query /\ ~request[r].written /\ request[r].code = 0
    /\ Change(r, IF db = "open" THEN [request[r] EXCEPT !.query = TRUE]
                 ELSE [request[r] EXCEPT !.code = 500, !.written = TRUE, !.bodies = 1])
    /\ OnlyRequest

(* The statement ends, and with it the audited change is recorded. *)
EndQuery(r) ==
    /\ request[r].at = "handler" /\ request[r].query
    /\ \/ /\ Change(r, [request[r] EXCEPT !.query = FALSE, !.code = 200, !.written = TRUE, !.bodies = 1])
          /\ queued' = queued + 1
       \/ /\ Change(r, [request[r] EXCEPT !.query = FALSE, !.code = 204])
          /\ queued' = queued + 1
       \/ /\ Change(r, [request[r] EXCEPT !.query = FALSE])
          /\ UNCHANGED queued
    /\ UNCHANGED <<phase, listening, db, lost, left, quit, diagnostics, probe>>

DeadlinePasses(r) ==
    /\ request[r].at = "handler" /\ ~request[r].late
    /\ Change(r, [request[r] EXCEPT !.late = TRUE])
    /\ OnlyRequest

(* TimeoutWithConfig after c.Next(): a chain that returned late without        *)
(* writing is answered 503; a status without a body is not written yet.        *)
TimeoutAnswers(f) == f.late /\ ~f.written

HandlerReturns(r) ==
    /\ request[r].at = "handler" /\ ~request[r].query
    /\ request[r].code # 0 \/ request[r].late
    /\ Change(r, IF TimeoutAnswers(request[r])
                 THEN [request[r] EXCEPT !.at = "answered", !.code = 503, !.written = TRUE,
                                         !.bodies = @ + 1]
                 ELSE [request[r] EXCEPT !.at = "answered"])
    /\ OnlyRequest

(* Recovery: a panic unwinds past the timeout and is answered 500. *)
Recovery(r) ==
    /\ request[r].at = "handler" /\ ~request[r].query /\ ~request[r].written
    /\ Change(r, [request[r] EXCEPT !.at = "answered", !.code = 500, !.written = TRUE, !.bodies = @ + 1])
    /\ OnlyRequest

InFlight == {r \in Request : request[r].at \in {"body limit", "handler"}}

(* --- health --- *)

OnlyProbe == UNCHANGED <<phase, listening, request, db, queued, lost, left, quit, diagnostics>>

ReadinessHandler ==
    /\ listening /\ probe.at = "idle"
    /\ probe' = [probe EXCEPT !.at = "checking"]
    /\ OnlyProbe

(* DatabaseChecker pings the pool; the others may answer anything. *)
CheckerStatus(c) == IF c # "database" THEN Status
                    ELSE IF db = "open" THEN {"up", "down"} ELSE {"down"}

CheckReturns(c) ==
    /\ probe.at = "checking" /\ c \notin DOMAIN probe.results
    /\ \E s \in CheckerStatus(c) :
         probe' = [probe EXCEPT !.results = [d \in DOMAIN probe.results \cup {c} |->
                                               IF d = c THEN s ELSE probe.results[d]]]
    /\ OnlyProbe

(* GetHealth visits the results in the order of a map, so in any, and stops at *)
(* the first that is down.                                                     *)
GetHealth ==
    /\ probe.at = "checking" /\ DOMAIN probe.results = Checker
    /\ probe' = [probe EXCEPT !.at = "summing", !.answer = "up"]
    /\ OnlyProbe

Worse(status, s) == IF s = "up" THEN status ELSE s

VisitResult(c) ==
    /\ probe.at = "summing" /\ probe.answer # "down" /\ c \notin probe.seen
    /\ probe' = [probe EXCEPT !.seen = @ \cup {c}, !.answer = Worse(@, probe.results[c])]
    /\ OnlyProbe

Answer ==
    /\ probe.at = "summing" /\ (probe.seen = Checker \/ probe.answer = "down")
    /\ probe' = [probe EXCEPT !.at = "answered"]
    /\ OnlyProbe

(* --- shutdown --- *)

(* The audit writer of AuditTrail, while the process runs. *)
StoreAudit ==
    /\ queued > 0 /\ db = "open"
    /\ queued' = queued - 1
    /\ UNCHANGED <<phase, listening, request, db, lost, left, quit, diagnostics, probe>>

Signal ==
    /\ phase = "serving" /\ ~quit
    /\ quit' = TRUE
    /\ UNCHANGED <<phase, listening, request, db, queued, lost, left, diagnostics, probe>>

ShutdownBegins ==
    /\ quit /\ Go("serving", "shutdown server")
    /\ left' = Budget /\ listening' = FALSE
    /\ UNCHANGED <<request, db, queued, lost, quit, diagnostics, probe>>

Tick ==
    /\ phase \in {"shutdown server", "shutdown starters"} /\ left > 0
    /\ left' = left - 1
    /\ UNCHANGED <<phase, listening, request, db, queued, lost, quit, diagnostics, probe>>

(* Mutant of ServerIdle: nobody waits. *)
ServerNotAwaited == TRUE

(* srv.Shutdown waits for the requests or for its context. *)
ServerIdle == InFlight = {} /\ probe.at \notin {"checking", "summing"}

ShutdownServer ==
    /\ ServerIdle \/ left = 0
    /\ Go("shutdown server", "shutdown starters")
    /\ diagnostics' = FALSE
    /\ UNCHANGED <<listening, request, db, queued, lost, left, quit, probe>>

(* Registry.Shutdown under the same context: what is not stored when it ends   *)
(* is given up.                                                                *)
ShutdownStarters ==
    /\ queued = 0 \/ left = 0
    /\ Go("shutdown starters", "shutdown tracer")
    /\ lost' = lost + queued /\ queued' = 0
    /\ UNCHANGED <<listening, request, db, left, quit, diagnostics, probe>>

ShutdownTracer ==
    /\ Go("shutdown tracer", "close database")
    /\ db' = "closing"
    /\ UNCHANGED <<listening, request, queued, lost, left, quit, diagnostics, probe>>

(* sql.DB.Close refuses new statements and waits for those that have started. *)
CloseDatabase ==
    /\ db = "closing" /\ \A r \in Request : ~request[r].query
    /\ Go("close database", "exited")
    /\ db' = "closed"
    /\ UNCHANGED <<listening, request, queued, lost, left, quit, diagnostics, probe>>

ServerInit ==
    /\ phase = "off" /\ listening = FALSE
    /\ request = [r \in Request |-> NewRequest]
    /\ db = "none" /\ queued = 0 /\ lost = 0 /\ left = 0
    /\ quit = FALSE /\ diagnostics = FALSE /\ probe = NoProbe

Boot == LoadConfiguration \/ InitApplication \/ StartupMigrations \/ BootstrapQueue \/ Handle

GracefulShutdown ==
    ShutdownBegins \/ Tick \/ ShutdownServer \/ ShutdownStarters \/ ShutdownTracer \/ CloseDatabase

ServeRequest(r) ==
    \/ Accept(r) \/ BodyLimit(r) \/ BeginQuery(r) \/ EndQuery(r)
    \/ DeadlinePasses(r) \/ HandlerReturns(r) \/ Recovery(r)

ServerNext ==
    \/ Boot
    \/ phase # "exited" /\ \/ \E r \in Request : ServeRequest(r)
                           \/ ReadinessHandler \/ GetHealth \/ Answer
                           \/ \E c \in Checker : CheckReturns(c) \/ VisitResult(c)
                           \/ StoreAudit \/ Signal \/ GracefulShutdown

(* The main goroutine runs on, time passes, and a statement ends because its   *)
(* request's context does; nothing makes a handler return.                     *)
ServerFairness == /\ WF_serverVars(GracefulShutdown)
                  /\ \A r \in Request : WF_serverVars(EndQuery(r))

ServerSpec == ServerInit /\ [][ServerNext]_serverVars /\ ServerFairness

(* --- properties --- *)

(* Unless the ten seconds ran out, the database closes with no request on its  *)
(* way and every audit record stored; a request that finished has one body,    *)
(* whatever deadline, panic or limit met it; and a probe's answer is the worst *)
(* status in whatever order the results are visited (gracefulShutdown,         *)
(* TimeoutWithConfig, Recovery, GetHealth).                                    *)
ServerSound ==
    /\ db = "closed" /\ left > 0 => InFlight = {} /\ lost = 0 /\ queued = 0
    /\ \A r \in Request : request[r].at = "answered" =>
          request[r].bodies = (IF request[r].code = 204 THEN 0 ELSE 1)
    /\ probe.at = "answered" =>
          probe.answer = (IF \E c \in Checker : probe.results[c] = "down" THEN "down"
                          ELSE IF \E c \in Checker : probe.results[c] = "degraded" THEN "degraded" ELSE "up")

(* Once asked, the process exits, also when a handler never returns            *)
(* (gracefulShutdown).                                                         *)
ShutdownEnds == quit ~> phase = "exited"
=============================================================================
