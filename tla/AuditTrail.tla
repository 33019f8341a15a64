------------------------------ MODULE AuditTrail ------------------------------
(* The audit log (api/internal/modules/audit): records of finished requests *)
(* pass through a bounded queue to a writer that inserts them in batches;  *)
(* readers page backwards through the table while it grows and is pruned.  *)
EXTENDS Naturals, Sequences, SequencesExt

CONSTANTS
  Entry,          \* requests to be audited
  Mine,           \* those of the user who reads its own history
  Unstorable,     \* records the database refuses
  AuditQueueSize, AuditBatch, \* writerQueueSize, writerBatchSize
  AuditRange,     \* default range of the platform-wide history
  PageLimit,      \* rows of a page
  MaxDay,         \* bound: the clock stops here
  MaxTimeouts     \* bound: flushes whose time runs out

AuditAssumption ==
  /\ Mine \subseteq Entry /\ Unstorable \subseteq Entry
  /\ AuditBatch \in Nat \ {0} /\ PageLimit \in Nat \ {0} /\ AuditRange \in Nat

VARIABLES
  filing,    \* where the record of a request is
  auditQueue, auditBatch,  \* asyncWriter.queue, the batch of run
  writer,    \* asyncWriter: mode, stopped, where run is
  trail,     \* rows of audit_logs
  nextRow,   \* the sequence of its ids
  day,       \* the time
  reader,    \* a client that pages through the history
  timeouts   \* flushes that ran out of time

auditVars == <<filing, auditQueue, auditBatch, writer, trail, nextRow, day, reader, timeouts>>

NoReader == [kind |-> "none"]

AuditInit ==
  /\ filing = [e \in Entry |-> [at |-> "none", made |-> 0]]
  /\ auditQueue = <<>> /\ auditBatch = <<>>
  /\ \E async \in BOOLEAN :
       writer = [async |-> async, stopped |-> FALSE, draining |-> FALSE, expired |-> FALSE,
                 at |-> IF async THEN "loop" ELSE "done"]
  /\ trail = {} /\ nextRow = 1 /\ day = 1
  /\ reader = NoReader /\ timeouts = 0

-----------------------------------------------------------------------------
(* A request has run; its record is complete and carries the time now.    *)
(* Without a writer it is stored at once. Write takes the read lock and   *)
(* looks whether the writer has stopped.                                  *)
RecordRequest(e) ==
  /\ filing[e].at = "none"
  /\ filing' = [filing EXCEPT ![e] =
       [at |-> IF writer.async /\ ~writer.stopped THEN "locked" ELSE "direct", made |-> day]]
  /\ UNCHANGED <<auditQueue, auditBatch, writer, trail, nextRow, day, reader, timeouts>>

(* The queue takes it or, when it is full, the caller stores it. *)
Write(e) ==
  /\ filing[e].at = "locked"
  /\ IF Len(auditQueue) < AuditQueueSize
     THEN /\ auditQueue' = Append(auditQueue, e)
          /\ filing' = [filing EXCEPT ![e].at = "queued"]
     ELSE /\ filing' = [filing EXCEPT ![e].at = "direct"]
          /\ UNCHANGED auditQueue
  /\ UNCHANGED <<auditBatch, writer, trail, nextRow, day, reader, timeouts>>

(* Rows of a batch, in its order; ids come from the sequence. *)
AuditLogRows(batch) ==
  {[id |-> nextRow + i - 1, made |-> filing[batch[i]].made, entry |-> batch[i]] : i \in 1 .. Len(batch)}

Store(batch, kept) ==
  /\ trail' = IF kept THEN trail \cup AuditLogRows(batch) ELSE trail
  /\ nextRow' = nextRow + Len(batch)
  /\ filing' = [e \in Entry |-> IF e \in ToSet(batch)
       THEN [filing[e] EXCEPT !.at = IF kept THEN "stored" ELSE "lost"] ELSE filing[e]]

CreateDirect(e) ==
  /\ filing[e].at = "direct"
  /\ Store(<<e>>, e \notin Unstorable)
  /\ UNCHANGED <<auditQueue, auditBatch, writer, day, reader, timeouts>>

-----------------------------------------------------------------------------
(* run: entries, the ticker and the stop signal are selected among.       *)
TakeEntry ==
  /\ writer.at = "loop" /\ auditQueue # <<>>
  /\ auditBatch' = Append(auditBatch, Head(auditQueue))
  /\ auditQueue' = Tail(auditQueue)
  /\ writer' = [writer EXCEPT !.at = IF Len(auditBatch) + 1 = AuditBatch THEN "flush" ELSE "loop"]
  /\ UNCHANGED <<filing, trail, nextRow, day, reader, timeouts>>

FlushTick ==
  /\ writer.at = "loop" /\ ~writer.draining /\ auditBatch # <<>>
  /\ writer' = [writer EXCEPT !.at = "flush"]
  /\ UNCHANGED <<filing, auditQueue, auditBatch, trail, nextRow, day, reader, timeouts>>

SeeStop ==
  /\ writer.at = "loop" /\ writer.stopped /\ ~writer.draining
  /\ writer' = [writer EXCEPT !.draining = TRUE]
  /\ UNCHANGED <<filing, auditQueue, auditBatch, trail, nextRow, day, reader, timeouts>>

Drained ==
  /\ writer.at = "loop" /\ writer.draining /\ auditQueue = <<>>
  /\ writer' = [writer EXCEPT !.at = IF auditBatch = <<>> THEN "done" ELSE "flush"]
  /\ UNCHANGED <<filing, auditQueue, auditBatch, trail, nextRow, day, reader, timeouts>>

(* flush: one statement for all; when it fails, row by row, in what is    *)
(* left of the time for both.                                             *)
FlushBatch ==
  /\ writer.at = "flush"
  /\ \/ /\ ToSet(auditBatch) \cap Unstorable = {}
        /\ Store(auditBatch, TRUE)
        /\ auditBatch' = <<>> /\ writer' = [writer EXCEPT !.at = "loop"]
        /\ UNCHANGED timeouts
     \/ /\ ToSet(auditBatch) \cap Unstorable # {}
        /\ writer' = [writer EXCEPT !.at = "rows"]
        /\ UNCHANGED <<filing, auditBatch, trail, nextRow, timeouts>>
     \/ /\ timeouts < MaxTimeouts /\ timeouts' = timeouts + 1
        /\ writer' = [writer EXCEPT !.at = "rows", !.expired = TRUE]
        /\ UNCHANGED <<filing, auditBatch, trail, nextRow>>
  /\ UNCHANGED <<auditQueue, day, reader>>

FlushRow ==
  /\ writer.at = "rows"
  /\ IF auditBatch = <<>>
     THEN /\ writer' = [writer EXCEPT !.at = "loop", !.expired = FALSE]
          /\ UNCHANGED <<filing, auditBatch, trail, nextRow>>
     ELSE /\ Store(<<Head(auditBatch)>>, ~writer.expired /\ Head(auditBatch) \notin Unstorable)
          /\ auditBatch' = Tail(auditBatch) /\ UNCHANGED writer
  /\ UNCHANGED <<auditQueue, day, reader, timeouts>>

(* Mutant of Shutdown: it does not wait for the lock. *)
ShutdownUnlocked ==
  /\ writer.async /\ ~writer.stopped
  /\ writer' = [writer EXCEPT !.stopped = TRUE]
  /\ UNCHANGED <<filing, auditQueue, auditBatch, trail, nextRow, day, reader, timeouts>>

(* Shutdown waits for the write lock. *)
Shutdown ==
  /\ writer.async /\ ~writer.stopped
  /\ \A e \in Entry : filing[e].at # "locked"
  /\ writer' = [writer EXCEPT !.stopped = TRUE]
  /\ UNCHANGED <<filing, auditQueue, auditBatch, trail, nextRow, day, reader, timeouts>>

-----------------------------------------------------------------------------
(* History, newest first.                                                 *)

(* The filter, and the position: ids of a user's rows, (created_at, id)   *)
(* of everybody's.                                                        *)
InHistory(kind, row) ==
  IF kind = "own" THEN row.entry \in Mine
  ELSE row.made + AuditRange >= day /\ row.made < day
Newer(kind, a, b) ==
  IF kind = "own" THEN a.id > b.id
  ELSE a.made > b.made \/ (a.made = b.made /\ a.id > b.id)

ListAfter(kind) ==
  /\ reader = NoReader /\ trail # {}
  /\ reader' = [kind |-> kind, after |-> {}, got |-> <<>>, more |-> TRUE,
                due |-> {row \in trail : InHistory(kind, row)}]
  /\ UNCHANGED <<filing, auditQueue, auditBatch, writer, trail, nextRow, day, timeouts>>

(* The query: what is in the history, behind the position.                *)
Matching ==
  {row \in trail : /\ InHistory(reader.kind, row)
                   /\ \A c \in reader.after : Newer(reader.kind, c, row)}

(* findAuditSlice: the first rows in the order, up to the limit; one row  *)
(* more is read to learn whether a page follows.                          *)
IsSlice(page) ==
  /\ \A i, j \in DOMAIN page : i < j => Newer(reader.kind, page[i], page[j])
  /\ \A row \in Matching \ ToSet(page), i \in DOMAIN page : Newer(reader.kind, page[i], row)
  /\ Len(page) < PageLimit => Matching = ToSet(page)
FollowsOn(page) == IF Matching = ToSet(page) THEN {} ELSE {page[Len(page)]}

NextPage ==
  /\ reader # NoReader /\ reader.more
  /\ \E n \in 0 .. PageLimit : \E page \in [1 .. n -> Matching] :
       /\ IsSlice(page)
       /\ reader' = [reader EXCEPT !.got = @ \o page, !.after = FollowsOn(page),
                                   !.more = FollowsOn(page) # {}]
  /\ UNCHANGED <<filing, auditQueue, auditBatch, writer, trail, nextRow, day, timeouts>>

LeaveHistory ==
  /\ reader # NoReader /\ ~reader.more /\ reader' = NoReader
  /\ UNCHANGED <<filing, auditQueue, auditBatch, writer, trail, nextRow, day, timeouts>>

(* PruneBefore: the oldest row before the cutoff (a batch of one). *)
PruneBefore(before) ==
  /\ before < day
  /\ \E row \in trail :
       /\ row.made < before
       /\ \A other \in trail \ {row} : Newer("all", other, row)
       /\ trail' = trail \ {row}
  /\ UNCHANGED <<filing, auditQueue, auditBatch, writer, nextRow, day, reader, timeouts>>

DayPasses ==
  /\ day < MaxDay /\ day' = day + 1
  /\ UNCHANGED <<filing, auditQueue, auditBatch, writer, trail, nextRow, reader, timeouts>>

-----------------------------------------------------------------------------
AuditMiddleware == \E e \in Entry : RecordRequest(e) \/ Write(e) \/ CreateDirect(e)
AuditRun == TakeEntry \/ FlushTick \/ SeeStop \/ Drained \/ FlushBatch \/ FlushRow
History == (\E kind \in {"own", "all"} : ListAfter(kind)) \/ NextPage \/ LeaveHistory
AuditMaintenance == \E before \in 1 .. MaxDay : PruneBefore(before)

AuditNext ==
  AuditMiddleware \/ AuditRun \/ Shutdown \/ History \/ AuditMaintenance \/ DayPasses

(* The goroutine of the writer keeps running. *)
AuditFairness == WF_auditVars(AuditRun)
AuditSpec == AuditInit /\ [][AuditNext]_auditVars /\ AuditFairness

-----------------------------------------------------------------------------
(* When run has ended, no record it accepted is left behind; what was not *)
(* stored was refused itself, or its flush ran out of time.               *)
AuditKept ==
  /\ \A e \in Entry : filing[e].at = "lost" => e \in Unstorable \/ timeouts > 0
  /\ writer.at = "done" => \A e \in Entry : filing[e].at # "queued"

(* Paging returns, newest first and each once, every row that was there   *)
(* when it began and still is; rows may come and go meanwhile.            *)
PagesComplete ==
  reader # NoReader =>
    /\ \A i, j \in DOMAIN reader.got : i < j => Newer(reader.kind, reader.got[i], reader.got[j])
    /\ ~reader.more => \A row \in reader.due \cap trail :
         InHistory(reader.kind, row) => row \in ToSet(reader.got)

(* A shutdown ends: the writer drains its queue and stops. *)
ShutdownDrains == writer.stopped ~> writer.at = "done"
=============================================================================
