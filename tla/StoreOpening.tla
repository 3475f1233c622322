---------------------------- MODULE StoreOpening ----------------------------
(***************************************************************************)
(* internal/store/sqlite: how a process takes over a database file. Open    *)
(* looks for the file, takes the writer lock, inspects the schema, makes a  *)
(* verified backup of a database that no complete Go ledger describes,      *)
(* switches the journal and runs the missing migrations in one transaction; *)
(* Close gives the database and the lock back. Processes of different       *)
(* builds start, fail, close and crash at any time.                         *)
(***************************************************************************)
EXTENDS Naturals

CONSTANTS
    Processes,   \* cooperating jproxy-go processes
    Build,       \* [Processes -> Nat]: how many migrations the build of each knows
    Nobody,      \* the lock is free
    Initial,     \* files that may be there at first
    MaxRows      \* bound: rows written by open stores

Versions == 1..3
Checksums == {"known", "drifted"}
Entries == [version : Versions, checksum : Checksums]

\* A database file. tables: "none" for an empty file, "java" for the schema that Java
\* and Go share, "base" for what the first migration makes of an empty file (the second
\* adds the examples), "foreign" for any other; applied: history, how often the
\* statements of a migration have been carried out.
Files ==
    [exists : BOOLEAN, tables : {"none", "base", "java", "foreign"}, ledger : SUBSET Entries,
     applied : [Versions -> Nat], rows : Nat, wal : BOOLEAN]

NoFile ==
    [exists |-> FALSE, tables |-> "none", ledger |-> {},
     applied |-> [v \in Versions |-> 0], rows |-> 0, wal |-> FALSE]

\* embeddedMigrations as the ledger has them when all are applied.
Known(p) == {[version |-> v, checksum |-> "known"] : v \in 1..Build[p]}

\* The migrations that the ledger records have been carried out once, the others never.
Recorded(file) ==
    \A v \in Versions : file.applied[v] = IF \E e \in file.ledger : e.version = v THEN 1 ELSE 0

ASSUME ProcessesAssumption == Nobody \notin Processes
ASSUME BuildAssumption == Build \in [Processes -> Versions]
ASSUME RowsAssumption == MaxRows \in Nat
ASSUME InitialAssumption ==
    \A file \in Initial :
        /\ file \in Files /\ Recorded(file)
        /\ file.ledger # {} => file.tables # "none"
        /\ file.tables # "none" => file.exists

VARIABLES
    file,      \* the database file
    backups,   \* contents of the verified backups next to it
    lock,      \* who holds <db>.jproxy-writer.lock
    pc,        \* [Processes -> where Open or Close stands]
    local,     \* [Processes -> the locals of open, and the migration transaction]
    changed    \* history: the databases that a takeover was about to write to

vars == <<file, backups, lock, pc, local, changed>>

Kinds == {"empty", "javaUnmanaged", "goManaged"}

NoLocal == [exists |-> FALSE, kind |-> "empty", invalid |-> FALSE,
            copy |-> NoFile, found |-> NoFile, tx |-> NoFile, next |-> 1]

Init ==
    /\ file \in Initial
    /\ backups = {}
    /\ lock = Nobody
    /\ pc = [p \in Processes |-> "off"]
    /\ local = [p \in Processes |-> NoLocal]
    /\ changed = {}

\* From the opening of the file to its close.
HasHandle(p) ==
    pc[p] \in {"inspect", "vacuum", "verify", "journal", "begin",
               "migrate", "record", "ready", "closeDB"}

Goto(p, place) == pc' = [pc EXCEPT ![p] = place]

-----------------------------------------------------------------------------
(* open.                                                                    *)

\* The file is looked for before the lock is taken.
Stat(p) ==
    /\ pc[p] = "off"
    /\ Goto(p, "lock")
    /\ local' = [local EXCEPT ![p] = [NoLocal EXCEPT !.exists = file.exists]]
    /\ UNCHANGED <<file, backups, lock, changed>>

\* acquireWriterLock does not wait: ErrWriterOwned ends Open.
AcquireWriterLock(p) ==
    /\ pc[p] = "lock"
    /\ IF lock = Nobody
       THEN lock' = p /\ Goto(p, "open") /\ UNCHANGED local
       ELSE Goto(p, "off") /\ local' = [local EXCEPT ![p] = NoLocal] /\ UNCHANGED lock
    /\ UNCHANGED <<file, backups, changed>>

\* openWritable: the ping makes an empty file where there is none.
OpenWritable(p) ==
    /\ pc[p] = "open"
    /\ file' = [file EXCEPT !.exists = TRUE]
    /\ local' = [local EXCEPT ![p].found = file]
    /\ Goto(p, "inspect")
    /\ UNCHANGED <<backups, lock, changed>>

\* validateJavaSchema: the tables that the migrations of a build make have to be there.
ValidSchema(p, f) == f.tables = "java" \/ (f.tables = "base" /\ Build[p] = 1)

Compatible(p, f) ==
    /\ f.tables = "none" \/ ValidSchema(p, f)
    /\ f.ledger \subseteq Known(p)

Complete(p, f) == ValidSchema(p, f) /\ f.ledger = Known(p)

\* Mutant: a database with a ledger is taken to be managed by Go.
KindByLedgerTable(p, f) ==
    IF ~ValidSchema(p, f) THEN "empty"
    ELSE IF f.ledger # {} THEN "goManaged" ELSE "javaUnmanaged"

\* inspectSchema. A wrong schema is taken for an empty database, a wrong ledger for an
\* unmanaged one; both come with an error.
KindOf(p, f) ==
    IF ~ValidSchema(p, f) THEN "empty"
    ELSE IF Complete(p, f) THEN "goManaged" ELSE "javaUnmanaged"

NeedsBackup(p) == local'[p].exists /\ local'[p].kind = "javaUnmanaged"

Inspect(p) ==
    /\ pc[p] = "inspect"
    /\ local' = [local EXCEPT ![p].kind = KindOf(p, file), ![p].invalid = ~Compatible(p, file)]
    /\ Goto(p, IF NeedsBackup(p) THEN "vacuum"
               ELSE IF local'[p].invalid THEN "closeDB" ELSE "journal")
    /\ UNCHANGED <<file, backups, lock, changed>>

\* createVerifiedBackup: VACUUM INTO a name that is new, then the checks of the copy. A
\* copy that was not checked is no backup, though it stays on the disk.
VacuumInto(p) ==
    /\ pc[p] = "vacuum"
    /\ local' = [local EXCEPT ![p].copy = file]
    /\ Goto(p, "verify")
    /\ UNCHANGED <<file, backups, lock, changed>>

\* Mutant: an incompatible ledger is left to the check inside the transaction.
AfterBackupRegardless(p) == "journal"

\* The error of the inspection counts only after the backup.
AfterBackup(p) == IF local[p].invalid THEN "closeDB" ELSE "journal"

Verify(p) ==
    /\ pc[p] = "verify"
    /\ backups' = backups \cup {local[p].copy}
    /\ Goto(p, AfterBackup(p))
    /\ UNCHANGED <<file, lock, local, changed>>

\* configureJournal: the first write to a database that is taken over.
ConfigureJournal(p) ==
    /\ pc[p] = "journal"
    /\ file' = [file EXCEPT !.wal = TRUE]
    /\ changed' = IF local[p].exists /\ local[p].found.tables # "none"
                       /\ ~Complete(p, local[p].found)
                  THEN changed \cup {local[p].found} ELSE changed
    /\ Goto(p, "begin")
    /\ UNCHANGED <<backups, lock, local>>

\* The transaction begins, creates the ledger if it is missing and checks its entries.
BeginMigrations(p) ==
    /\ pc[p] = "begin"
    /\ local' = [local EXCEPT ![p].tx = file, ![p].next = 1]
    /\ Goto(p, IF file.ledger \subseteq Known(p) THEN "migrate" ELSE "closeDB")
    /\ UNCHANGED <<file, backups, lock, changed>>

Entry(p) == [version |-> local[p].next, checksum |-> "known"]

\* CREATE TABLE IF NOT EXISTS, in both migrations of today.
TablesAfter(tables, v) ==
    IF v = 1 /\ tables = "none" THEN "base"
    ELSE IF v = 2 /\ tables = "base" THEN "java" ELSE tables

Carried(f, v) == [f EXCEPT !.tables = TablesAfter(@, v), !.applied[v] = @ + 1]

\* Mutant: the statements are carried out outside the transaction.
ApplyDirectly(p) ==
    /\ local' = [local EXCEPT ![p].tx = Carried(@, local[p].next)]
    /\ file' = Carried(file, local[p].next)

\* The statements of a migration: seen by nobody before the commit.
Apply(p) ==
    /\ local' = [local EXCEPT ![p].tx = Carried(@, local[p].next)]
    /\ UNCHANGED file

\* One migration is looked up in the ledger; a missing one is carried out.
Migrate(p) ==
    /\ pc[p] = "migrate" /\ local[p].next <= Build[p]
    /\ IF Entry(p) \in local[p].tx.ledger
       THEN local' = [local EXCEPT ![p].next = @ + 1] /\ UNCHANGED <<file, pc>>
       ELSE Apply(p) /\ Goto(p, "record")
    /\ UNCHANGED <<backups, lock, changed>>

Record(p) ==
    /\ pc[p] = "record"
    /\ local' = [local EXCEPT ![p].tx.ledger = @ \cup {Entry(p)}, ![p].next = @ + 1]
    /\ Goto(p, "migrate")
    /\ UNCHANGED <<file, backups, lock, changed>>

Commit(p) ==
    /\ pc[p] = "migrate" /\ local[p].next > Build[p]
    /\ file' = local[p].tx
    /\ Goto(p, "ready")
    /\ UNCHANGED <<backups, lock, local, changed>>

\* An error, or the end of the context: the transaction is rolled back, and what was
\* acquired is given back.
OpenFails(p) ==
    /\ \/ pc[p] \in {"inspect", "vacuum", "verify", "journal", "begin", "migrate", "record"}
          /\ Goto(p, "closeDB")
       \/ pc[p] = "open" /\ Goto(p, "closeLock")
    /\ UNCHANGED <<file, backups, lock, local, changed>>

-----------------------------------------------------------------------------
(* A store that is open, and its end.                                       *)

Write(p) ==
    /\ pc[p] = "ready" /\ file.rows < MaxRows
    /\ file' = [file EXCEPT !.rows = @ + 1]
    /\ UNCHANGED <<backups, lock, pc, local, changed>>

Close(p) ==
    /\ pc[p] = "ready"
    /\ Goto(p, "closeDB")
    /\ UNCHANGED <<file, backups, lock, local, changed>>

\* Mutant: the lock is given back first.
CloseLockFirst(p) ==
    /\ pc[p] = "closeDB"
    /\ \/ lock = p /\ lock' = Nobody /\ UNCHANGED <<pc, local>>
       \/ lock # p /\ Goto(p, "off") /\ local' = [local EXCEPT ![p] = NoLocal] /\ UNCHANGED lock
    /\ UNCHANGED <<file, backups, changed>>

\* Store.Close and the deferred closes of open: the database first.
CloseDB(p) ==
    /\ pc[p] = "closeDB"
    /\ Goto(p, "closeLock")
    /\ UNCHANGED <<file, backups, lock, local, changed>>

Release(p) == lock' = IF lock = p THEN Nobody ELSE lock

CloseLock(p) ==
    /\ pc[p] = "closeLock"
    /\ Release(p)
    /\ Goto(p, "off")
    /\ local' = [local EXCEPT ![p] = NoLocal]
    /\ UNCHANGED <<file, backups, changed>>

\* The process dies: the system closes its files and drops its lock, and SQLite rolls
\* its transaction back.
Crash(p) ==
    /\ pc[p] # "off"
    /\ Release(p)
    /\ Goto(p, "off")
    /\ local' = [local EXCEPT ![p] = NoLocal]
    /\ UNCHANGED <<file, backups, changed>>

Step(p) ==
    \/ Stat(p) \/ AcquireWriterLock(p) \/ OpenWritable(p) \/ Inspect(p)
    \/ VacuumInto(p) \/ Verify(p) \/ ConfigureJournal(p)
    \/ BeginMigrations(p) \/ Migrate(p) \/ Record(p) \/ Commit(p) \/ OpenFails(p)
    \/ Write(p) \/ Close(p) \/ CloseDB(p) \/ CloseLock(p) \/ Crash(p)

Next == \E p \in Processes : Step(p)

Spec == Init /\ [][Next]_vars

-----------------------------------------------------------------------------
(* Properties.                                                              *)

Places == {"off", "lock", "open", "inspect", "vacuum", "verify", "journal", "begin",
           "migrate", "record", "ready", "closeDB", "closeLock"}

Locals == [exists : BOOLEAN, kind : Kinds, invalid : BOOLEAN,
           copy : Files, found : Files, tx : Files, next : Nat]

\* Every variable of a takeover keeps its type.
TypeOK ==
    /\ file \in Files
    /\ backups \subseteq Files
    /\ lock \in Processes \cup {Nobody}
    /\ pc \in [Processes -> Places]
    /\ local \in [Processes -> Locals]
    /\ changed \subseteq Files

\* Two cooperating processes never have the database open for writing at the same time:
\* not while one of them fails, closes or dies either (lifecycle.go, writer_lock.go).
OneWriter == \A p, q \in Processes : HasHandle(p) /\ HasHandle(q) => p = q

\* Whatever was there when Open looked and is not a complete database of this build can
\* be had back: a verified backup of exactly that content exists before the first write
\* to it, also after crashes between the two, and when an older build left a part of
\* the ledger (lifecycle.go, backup.go).
BackupBeforeTakeover == changed \subseteq backups

\* The statements of a migration have taken effect once if the ledger records it and
\* never if it does not, wherever a process failed or died (migrations.go).
MigratedOnce == Recorded(file)

\* Nobody changes a database whose schema or ledger its build does not know: not its
\* rows, and not its journal mode (inspectSchema, validateLedger).
FailsClosed ==
    [][file' # file => \A p \in Processes : HasHandle(p) => Compatible(p, file)]_vars
=============================================================================
