----------------------------- MODULE AgentStore -----------------------------
(***************************************************************************)
(* The agent's SQLite store: the connection of SQLiteBackend, opened in    *)
(* autocommit mode (isolation_level=None), the MigrationManager that       *)
(* brings the schema up to date at every start, and the repositories'      *)
(* INSERT OR REPLACE.  SQLite itself is external: a statement takes effect *)
(* or raises, an open transaction is lost when the process dies, and what  *)
(* is committed stays.  One connection serves every coroutine.             *)
(***************************************************************************)
EXTENDS Naturals, Sequences, SequencesExt, FiniteSets

CONSTANTS Migrations,    \* the migrations in the order run() visits them, "_initial_schema"
                         \* first: sequences of statements, a statement "again" or "once"
          StoreKeys,     \* primary keys the repositories store rows under
          MaxStatements, \* bound on the statements that write rows
          MaxCrashes,    \* bound on the deaths of the process
          MaxMisreads    \* bound on the reads of migration_history that fail

ASSUME StoreAssumption ==
    Migrations \in Seq(Seq({"again", "once"})) /\ {MaxStatements, MaxCrashes, MaxMisreads} \subseteq Nat

VARIABLES schema,    \* on disk: migration -> how many of its statements have taken effect
          history,   \* on disk: migration_history, the names in insertion order
          rows,      \* on disk: key -> the ordinal of the statement that wrote its row, or 0
          pending,   \* the same of the open transaction, 0 where it wrote nothing
          open,      \* a transaction is open on the connection
          migrating, \* MigrationManager.run(): [phase, at, applied, done]
          holder,    \* the _lock of transaction(): "free", or held by a "body"
          acked,     \* key -> the last statement whose execute() returned
          statements,\* the statements run so far
          crashes,
          misreads   \* how many reads of migration_history have failed

storeVars == <<schema, history, rows, pending, open, migrating, holder, acked, statements, crashes,
               misreads>>

NoRows == [k \in StoreKeys |-> 0]
Visits == 1 .. Len(Migrations)
Idle == [phase |-> "idle", at |-> 1, applied |-> {}, done |-> 0]

AgentStoreInit ==
    /\ schema = [m \in Visits |-> 0]
    /\ history = <<>>
    /\ rows = NoRows /\ acked = NoRows
    /\ pending = NoRows /\ open = FALSE
    /\ migrating = Idle
    /\ holder = "free"
    /\ statements = 0 /\ crashes = 0 /\ misreads = 0

-----------------------------------------------------------------------------
(* MigrationManager.run(), one statement a step: execute() commits each.   *)
(* _get_applied_versions() takes a read that fails for an empty history:   *)
(* every migration runs again then.                                        *)
BeginMigrations(fails) ==
    /\ migrating.phase = "idle"
    /\ fails => misreads < MaxMisreads
    /\ misreads' = IF fails THEN misreads + 1 ELSE misreads
    /\ migrating' = [phase |-> "running", at |-> 1, done |-> 0,
                     applied |-> IF fails THEN {} ELSE ToSet(history)]
    /\ UNCHANGED <<schema, history, rows, pending, open, holder, acked, statements, crashes>>

Running == migrating.phase = "running" /\ migrating.at \in Visits
Script == Migrations[migrating.at]

SkipApplied ==
    /\ Running /\ migrating.at \in migrating.applied
    /\ migrating' = [migrating EXCEPT !.at = @ + 1, !.done = 0]
    /\ UNCHANGED <<schema, history, rows, pending, open, holder, acked, statements, crashes, misreads>>

(* IF NOT EXISTS makes a statement harmless when it runs again; any other, *)
(* ALTER TABLE ADD COLUMN say, fails once it has taken effect.             *)
Executes == Script[migrating.done + 1] = "again" \/ schema[migrating.at] <= migrating.done

ExecuteStatement ==
    /\ Running /\ migrating.at \notin migrating.applied /\ migrating.done < Len(Script)
    /\ Executes
    /\ schema' = [schema EXCEPT ![migrating.at] = IF @ > migrating.done THEN @ ELSE migrating.done + 1]
    /\ migrating' = [migrating EXCEPT !.done = @ + 1]
    /\ UNCHANGED <<history, rows, pending, open, holder, acked, statements, crashes, misreads>>

(* A statement that has taken effect and may not again, or any, or the     *)
(* INSERT of the record, that SQLite refuses: MigrationError ends run(),   *)
(* and with it the start of the agent.                                     *)
StatementFails ==
    /\ Running /\ migrating.at \notin migrating.applied
    /\ migrating' = [migrating EXCEPT !.phase = "failed"]
    /\ UNCHANGED <<schema, history, rows, pending, open, holder, acked, statements, crashes, misreads>>

(* Recorded before its statements: a change of Complete. *)
FirstStatementEnough(done) == done > 0

(* The INSERT into migration_history comes after the last statement. *)
Complete(done) == done = Len(Script)

RecordMigration ==
    /\ Running /\ migrating.at \notin migrating.applied
    /\ Complete(migrating.done)
    /\ history' = Append(history, migrating.at)
    /\ migrating' = [migrating EXCEPT !.at = @ + 1, !.done = 0]
    /\ UNCHANGED <<schema, rows, pending, open, holder, acked, statements, crashes, misreads>>

MigrationsEnd ==
    /\ migrating.phase = "running" /\ migrating.at \notin Visits
    /\ migrating' = [migrating EXCEPT !.phase = "migrated"]
    /\ UNCHANGED <<schema, history, rows, pending, open, holder, acked, statements, crashes, misreads>>

-----------------------------------------------------------------------------
(* The connection: execute() is the statement and a commit(), with no      *)
(* await between; it does not take the lock.                               *)
Migrated == migrating.phase = "migrated"
LargerOf(a, b) == IF a > b THEN a ELSE b
Committed(changed) == [k \in StoreKeys |-> LargerOf(changed[k], rows[k])]

(* What a statement on key k and its commit leave. *)
AfterExecute(k) ==
    [rows |-> Committed([pending EXCEPT ![k] = statements + 1]), pending |-> NoRows, open |-> FALSE]

(* A repository's store(): INSERT OR REPLACE, through execute(). *)
Store(k) ==
    /\ Migrated /\ statements < MaxStatements
    /\ LET after == AfterExecute(k)
       IN  rows' = after.rows /\ pending' = after.pending /\ open' = after.open
    /\ statements' = statements + 1
    /\ acked' = [acked EXCEPT ![k] = statements + 1]
    /\ UNCHANGED <<schema, history, migrating, holder, crashes, misreads>>

(* execute_many() that raises after its first row: outside a transaction   *)
(* the row is committed, inside one it waits there for anyone's commit.    *)
BatchFails(k) ==
    /\ Migrated /\ statements < MaxStatements
    /\ statements' = statements + 1
    /\ IF open THEN pending' = [pending EXCEPT ![k] = statements + 1] /\ UNCHANGED rows
               ELSE rows' = [rows EXCEPT ![k] = statements + 1] /\ UNCHANGED pending
    /\ UNCHANGED <<schema, history, open, migrating, holder, acked, crashes, misreads>>

(* transaction(): the lock, BEGIN, the body, commit().  BEGIN fails inside *)
(* an open transaction: the backend rolls back and raises.                 *)
BeginTransaction ==
    /\ Migrated /\ holder = "free"
    /\ IF open THEN pending' = NoRows /\ open' = FALSE /\ holder' = "free"
               ELSE open' = TRUE /\ holder' = "body" /\ UNCHANGED pending
    /\ UNCHANGED <<schema, history, rows, migrating, acked, statements, crashes, misreads>>

CommitTransaction ==
    /\ holder = "body"
    /\ rows' = Committed(pending) /\ pending' = NoRows /\ open' = FALSE
    /\ holder' = "free"
    /\ UNCHANGED <<schema, history, migrating, acked, statements, crashes, misreads>>

(* Only a sqlite3.Error of the body is rolled back.  execute() raises      *)
(* QueryError instead: the lock is freed and the transaction stays open.   *)
BodyRaises(sqliteError) ==
    /\ holder = "body" /\ holder' = "free"
    /\ IF sqliteError THEN pending' = NoRows /\ open' = FALSE
                      ELSE UNCHANGED <<pending, open>>
    /\ UNCHANGED <<schema, history, rows, migrating, acked, statements, crashes, misreads>>

(* shutdown() and a death of the process: the transaction is rolled back,  *)
(* and the next start runs the migrations again.                           *)
Restart(dies) ==
    /\ IF dies THEN crashes < MaxCrashes ELSE migrating.phase \in {"migrated", "failed"}
    /\ crashes' = IF dies THEN crashes + 1 ELSE crashes
    /\ migrating' = Idle /\ pending' = NoRows /\ open' = FALSE /\ holder' = "free"
    /\ UNCHANGED <<schema, history, rows, acked, statements, misreads>>

AgentStoreNext ==
    \/ \E fails \in BOOLEAN : BeginMigrations(fails)
    \/ SkipApplied \/ ExecuteStatement \/ StatementFails
    \/ RecordMigration \/ MigrationsEnd
    \/ \E k \in StoreKeys : Store(k) \/ BatchFails(k)
    \/ BeginTransaction \/ CommitTransaction
    \/ \E sqliteError \in BOOLEAN : BodyRaises(sqliteError)
    \/ \E dies \in BOOLEAN : Restart(dies)

AgentStoreSpec == AgentStoreInit /\ [][AgentStoreNext]_storeVars

-----------------------------------------------------------------------------
(* Types of the state; only an open transaction has uncommitted rows. *)
AgentStoreTypeOK ==
    /\ schema \in [Visits -> Nat] /\ \A m \in Visits : schema[m] <= Len(Migrations[m])
    /\ history \in Seq(Visits)
    /\ {rows, pending, acked} \subseteq [StoreKeys -> 0 .. MaxStatements]
    /\ open \in BOOLEAN /\ (pending # NoRows => open)
    /\ migrating \in [phase : {"idle", "running", "migrated", "failed"},
                      at : 1 .. Len(Migrations) + 1, applied : SUBSET Visits, done : Nat]
    /\ holder \in {"free", "body"}
    /\ statements \in 0 .. MaxStatements /\ crashes \in 0 .. MaxCrashes
    /\ misreads \in 0 .. MaxMisreads

\* How many times the name of m is on record.
Recorded(m) == Cardinality({i \in DOMAIN history : history[i] = m})
RunsOnce(m) == "once" \in ToSet(Migrations[m])

(* A migration in migration_history has taken effect to its last           *)
(* statement, and no later one has taken effect before it is recorded,     *)
(* whatever deaths, failed starts and failed reads of the history lie      *)
(* between.  A name is recorded again only after a failed read, and never  *)
(* that of a migration with a statement that cannot be repeated: that      *)
(* start fails instead (migrations.py, run and _apply_checksummed).        *)
MigrationsAreWhole ==
    /\ \A m \in ToSet(history) : schema[m] = Len(Migrations[m])
    /\ \A m, n \in Visits : m < n /\ schema[n] > 0 => m \in ToSet(history)
    /\ \A m \in Visits : Recorded(m) <= IF RunsOnce(m) THEN 1 ELSE 1 + misreads

(* A row whose execute() returned is on disk, or a later statement has     *)
(* replaced it: no rollback, crash or transaction left open by another     *)
(* coroutine takes it back (sqlite.py, execute and transaction).           *)
AcknowledgedIsDurable == \A k \in StoreKeys : rows[k] >= acked[k]

\* Together: what the database is said to have is on disk, through any deaths.
StoreIsSound == MigrationsAreWhole /\ AcknowledgedIsDurable
=============================================================================
