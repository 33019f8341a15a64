----------------------------- MODULE Migrations -----------------------------
(***************************************************************************)
(* internal/infra/migration: the Migrator behind db:migrate, db:rollback,  *)
(* db:reset and db:fresh.  A migration's Up or Down commits on its own and *)
(* its record is written or deleted by a second statement, so that a crash *)
(* or a failing statement between the two tears them apart.  Deployments   *)
(* run one migrator at a time (docs/DEPLOYMENT.md).                        *)
(*                                                                         *)
(* A migration's number is its place in the order of the names.  What the  *)
(* schema holds, in the order it was applied, is the sequence "schema";    *)
(* Up of what is there, and Down of what is not, fails.                    *)
(***************************************************************************)
EXTENDS Integers, Sequences, SequencesExt, FiniteSets, FiniteSetsExt

CONSTANTS Migration, MaxOperations, Production

VARIABLES
  tableExists,  \* whether the migrations table exists
  records,      \* its rows: migration and batch
  schema,       \* what is applied, in the order it was
  migrator,     \* the operation under way
  torn,         \* migrations whose record a crash or an error kept from following
  operations    \* operations begun so far

migrationVars == <<tableExists, records, schema, migrator, torn, operations>>

NoOperation == [op |-> "none", todo |-> <<>>, batch |-> 0, step |-> FALSE, pretend |-> FALSE,
                between |-> FALSE]

Applied == ToSet(schema)
Recorded == {r.migration : r \in records}
LastBatchNumber == Max({r.batch : r \in records} \cup {0})
-----------------------------------------------------------------------------
(* The repository's queries. *)

InOrder(r, s) == r.batch < s.batch \/ (r.batch = s.batch /\ r.migration < s.migration)
Names(rs) == [i \in DOMAIN rs |-> rs[i].migration]

\* batch ASC, migration ASC.
GetRan == Names(SetToSortSeq(records, InOrder))

\* batch DESC, migration DESC.
Latest(rs) == Reverse(Names(SetToSortSeq(rs, InOrder)))
GetMigrations(steps) ==
  LET all == Latest(records) IN SubSeq(all, 1, Min({steps, Len(all)}))
GetMigrationsByBatch(batch) == Latest({r \in records : r.batch = batch})
GetLast == GetMigrationsByBatch(LastBatchNumber)

GetNextBatchNumber == LastBatchNumber + 1

GetPendingMigrations == SetToSortSeq(Migration \ Recorded, <)
-----------------------------------------------------------------------------
(* The commands: requireProductionForce and the confirmations come before anything is done. *)

Allowed(force) == ~Production \/ force
Confirmed(force, confirmed) == Allowed(force) /\ (force \/ confirmed)

Begin(o) ==
  /\ migrator.op = "none" /\ operations < MaxOperations
  /\ migrator' = [o EXCEPT !.op = IF o.todo = <<>> THEN "none" ELSE @]
  /\ operations' = operations + 1

\* Run: the table is created when it is missing, also by a pretended run.
MigrateRun(step, pretend, force) ==
  /\ Allowed(force)
  /\ Begin([NoOperation EXCEPT !.op = "up", !.todo = GetPendingMigrations,
                               !.batch = GetNextBatchNumber, !.step = step, !.pretend = pretend])
  /\ tableExists' = TRUE
  /\ UNCHANGED <<records, schema, torn>>

Undo(todo, pretend) ==
  /\ tableExists
  /\ Begin([NoOperation EXCEPT !.op = "down", !.todo = todo, !.pretend = pretend])
  /\ UNCHANGED <<tableExists, records, schema, torn>>

\* Rollback: so many steps, one batch, or the last batch.
Rollback(steps, batch, pretend, force) ==
  /\ Allowed(force)
  /\ Undo(IF steps > 0 THEN GetMigrations(steps)
          ELSE IF batch > 0 THEN GetMigrationsByBatch(batch) ELSE GetLast, pretend)

ResetAll(pretend, force, confirmed) ==
  /\ Confirmed(force, confirmed)
  /\ Undo(Reverse(GetRan), pretend)

\* Fresh: every table is dropped, the migrations table among them, and all run anew.
Fresh(force, confirmed) ==
  /\ Confirmed(force, confirmed)
  /\ Begin([NoOperation EXCEPT !.op = "up", !.todo = SetToSortSeq(Migration, <), !.batch = 1])
  /\ tableExists' = TRUE /\ records' = {} /\ schema' = <<>> /\ torn' = {}

\* One table cannot be dropped: some are gone, their records are not.
FreshFails(force, confirmed, dropped) ==
  /\ Confirmed(force, confirmed)
  /\ migrator.op = "none" /\ operations < MaxOperations
  /\ operations' = operations + 1
  /\ schema' = SelectSeq(schema, LAMBDA m : m \notin dropped)
  /\ torn' = torn \cup dropped
  /\ UNCHANGED <<tableExists, records, migrator>>
-----------------------------------------------------------------------------
(* One migration of the operation under way. *)

Current == Head(migrator.todo)
Advanced ==
  LET rest == Tail(migrator.todo)
  IN IF rest = <<>> THEN NoOperation
     ELSE [migrator EXCEPT !.todo = rest, !.between = FALSE,
                           !.batch = IF migrator.step THEN @ + 1 ELSE @]

\* pretendToRun: the statements are shown, nothing is done.
PretendToRun ==
  /\ migrator.op # "none" /\ migrator.pretend
  /\ migrator' = Advanced
  /\ UNCHANGED <<tableExists, records, schema, torn, operations>>

\* A mutant: the record goes before the schema does.
RunDownRecordFirst ==
  /\ migrator.op = "down" /\ ~migrator.pretend /\ ~migrator.between
  /\ records' = {r \in records : r.migration # Current}
  /\ migrator' = [migrator EXCEPT !.between = TRUE]
  /\ UNCHANGED <<tableExists, schema, torn, operations>>

\* runMigration commits.
RunUp ==
  /\ migrator.op = "up" /\ ~migrator.pretend /\ ~migrator.between
  /\ Current \notin Applied
  /\ schema' = Append(schema, Current)
  /\ migrator' = [migrator EXCEPT !.between = TRUE]
  /\ UNCHANGED <<tableExists, records, torn, operations>>

RunDown ==
  /\ migrator.op = "down" /\ ~migrator.pretend /\ ~migrator.between
  /\ Current \in Applied
  /\ schema' = Remove(schema, Current)
  /\ migrator' = [migrator EXCEPT !.between = TRUE]
  /\ UNCHANGED <<tableExists, records, torn, operations>>

\* runMigration fails and is rolled back; the operation ends.
RunFails ==
  /\ migrator.op # "none" /\ ~migrator.pretend /\ ~migrator.between
  /\ migrator' = NoOperation
  /\ UNCHANGED <<tableExists, records, schema, torn, operations>>

\* repository.Log and repository.Delete.
Log ==
  /\ migrator.op = "up" /\ migrator.between
  /\ records' = records \cup {[migration |-> Current, batch |-> migrator.batch]}
  /\ migrator' = Advanced /\ torn' = torn \ {Current}
  /\ UNCHANGED <<tableExists, schema, operations>>

DeleteRecord ==
  /\ migrator.op = "down" /\ migrator.between
  /\ records' = {r \in records : r.migration # Current}
  /\ migrator' = Advanced /\ torn' = torn \ {Current}
  /\ UNCHANGED <<tableExists, schema, operations>>

\* The second statement fails, or the process dies.
Interrupted ==
  /\ migrator.op # "none"
  /\ migrator' = NoOperation
  /\ torn' = IF migrator.between THEN torn \cup {Current} ELSE torn
  /\ UNCHANGED <<tableExists, records, schema, operations>>
-----------------------------------------------------------------------------
MigrationInit ==
  /\ tableExists = FALSE /\ records = {} /\ schema = <<>>
  /\ migrator = NoOperation /\ torn = {} /\ operations = 0

MigrationNext ==
  \/ \E force, confirmed, pretend \in BOOLEAN :
       \/ \E step \in BOOLEAN : MigrateRun(step, pretend, force)
       \/ \E steps, batch \in 0 .. Cardinality(Migration) : Rollback(steps, batch, pretend, force)
       \/ ResetAll(pretend, force, confirmed)
       \/ Fresh(force, confirmed)
       \/ \E dropped \in SUBSET Applied : FreshFails(force, confirmed, dropped)
  \/ PretendToRun \/ RunUp \/ RunDown \/ RunFails \/ Log \/ DeleteRecord \/ Interrupted

MigrationSpec == MigrationInit /\ [][MigrationNext]_migrationVars
-----------------------------------------------------------------------------
(* The table and the schema agree about every migration, except for one whose second statement is *)
(* still to come and for those a crash, a failing statement or a half-done db:fresh tore apart;   *)
(* and no migration has two records (runUp, runDown).                                             *)
RecordsMatchSchema ==
  /\ \A m \in Migration \ torn :
       (m \in Applied) # (m \in Recorded) => migrator.between /\ m = Current
  /\ \A r, s \in records : r.migration = s.migration => r = s

(* The records sorted by batch and name are in the order in which the migrations were applied, so *)
(* that db:rollback and db:reset undo the latest first, also after single batches were rolled     *)
(* back and run again (GetNextBatchNumber, GetRan, GetMigrations, GetLast).                       *)
RecordsInOrder ==
  LET both == Applied \cap Recorded
  IN SelectSeq(GetRan, LAMBDA m : m \in both) = SelectSeq(schema, LAMBDA m : m \in both)
=============================================================================
