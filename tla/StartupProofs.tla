---------------------------- MODULE StartupProofs ----------------------------
(***************************************************************************)
(* Proofs about the start of the process: about the opening of the store,   *)
(* for any processes, any builds and any files that may be there at first,  *)
(* and about the life of one process, for any set of modes.                 *)
(***************************************************************************)
EXTENDS StoreOpening, AppState, TLAPS

-----------------------------------------------------------------------------
(* The store: the inductive invariant.                                      *)

\* The ledger is never ahead of the tables, nor behind the statements.
Sound(f) == Recorded(f) /\ (f.ledger # {} => f.tables # "none")

\* A file that has tables exists.
Real(f) == f.tables # "none" => f.exists

Opened(f) == [f EXCEPT !.exists = TRUE]

\* From the lock to its release.
Owns(p) == pc[p] \notin {"off", "lock"} => lock = p

\* What was found is still what is in the file.
Seen(p) ==
    pc[p] \in {"inspect", "vacuum", "verify", "journal"} =>
        Real(local[p].found) /\ file = Opened(local[p].found)

\* The verdict of the inspection, and the copy, are of the file as it is.
Judged(p) ==
    /\ pc[p] \in {"vacuum", "verify"} => (local[p].invalid <=> ~Compatible(p, file))
    /\ pc[p] = "verify" => local[p].copy = file

\* A takeover that goes on has its backup.
TakesOver(p) ==
    local[p].exists /\ local[p].found.tables # "none" /\ ~Complete(p, local[p].found)

Saved(p) == pc[p] = "journal" /\ TakesOver(p) => local[p].found \in backups

\* Who writes knows the schema and the ledger of a file that is there.
Knows(p) ==
    pc[p] \in {"journal", "begin", "migrate", "record", "ready"} =>
        Compatible(p, file) /\ file.exists

\* The tables of a transaction, when n migrations have been looked at.
Reached(p, f, n) ==
    \/ f.tables = "java"
    \/ f.tables = "base" /\ Build[p] = 1
    \/ f.tables = "base" /\ n = 1 /\ f.ledger \subseteq {[version |-> 1, checksum |-> "known"]}
    \/ f.tables = "none" /\ n = 0

\* The transaction as its commit, or the record of the migration at hand, will leave it.
Prepared(p) ==
    /\ pc[p] = "migrate" =>
          /\ local[p].tx.ledger \subseteq Known(p)
          /\ Sound(local[p].tx) /\ local[p].tx.exists
          /\ local[p].next \in 1..(Build[p] + 1)
          /\ Reached(p, local[p].tx, local[p].next - 1)
    /\ pc[p] = "record" =>
          LET recorded == [local[p].tx EXCEPT !.ledger = @ \cup {Entry(p)}]
          IN  /\ recorded.ledger \subseteq Known(p)
              /\ Sound(recorded) /\ recorded.exists
              /\ local[p].next \in 1..Build[p]
              /\ Reached(p, recorded, local[p].next)

ProcessInv(p) ==
    Owns(p) /\ Seen(p) /\ Judged(p) /\ Saved(p) /\ Knows(p) /\ Prepared(p)

FileInv ==
    /\ Sound(file) /\ Real(file)
    /\ changed \subseteq backups

IInv == FileInv /\ \A p \in Processes : ProcessInv(p)

-----------------------------------------------------------------------------
(* Type correctness.                                                        *)

\* The constants of the model are typed.
LEMMA ConstantTypes ==
    /\ NoFile \in Files
    /\ NoLocal \in Locals
    /\ Initial \subseteq Files
<1>1. NoFile \in Files
  BY DEF NoFile, Files, Versions, Entries
<1>2. NoLocal \in Locals
  BY <1>1 DEF NoLocal, Locals, Kinds
<1>3. Initial \subseteq Files
  BY InitialAssumption
<1> QED BY <1>1, <1>2, <1>3

\* A file that has been opened exists.
LEMMA OpenedExists ==
    ASSUME TypeOK, NEW p \in Processes, Seen(p),
           pc[p] \in {"inspect", "vacuum", "verify", "journal"}
    PROVE  file.exists
  BY DEF Seen, Opened, TypeOK, Locals, Files

\* A file stays a file when one of its fields changes.
LEMMA FileUpdates ==
    ASSUME NEW f \in Files
    PROVE  /\ Opened(f) \in Files
           /\ [f EXCEPT !.wal = TRUE] \in Files
           /\ [f EXCEPT !.rows = @ + 1] \in Files
           /\ \A v \in Versions : Carried(f, v) \in Files
           /\ \A e \in Entries : [f EXCEPT !.ledger = @ \cup {e}] \in Files
           /\ f.exists => Opened(f) = f
<1>1. Opened(f) \in Files /\ (f.exists => Opened(f) = f)
  BY DEF Opened, Files
<1>2. [f EXCEPT !.wal = TRUE] \in Files /\ [f EXCEPT !.rows = @ + 1] \in Files
  <2>1. f.rows + 1 \in Nat
    BY DEF Files
  <2>2. \A n \in Nat : [f EXCEPT !.rows = n] \in Files
    BY DEF Files
  <2> QED BY <2>1, <2>2 DEF Files
<1>3. ASSUME NEW v \in Versions PROVE Carried(f, v) \in Files
  <2>1. TablesAfter(f.tables, v) \in {"none", "base", "java", "foreign"}
    BY DEF TablesAfter, Files
  <2>2. [f.applied EXCEPT ![v] = @ + 1] \in [Versions -> Nat]
    BY DEF Files
  <2> QED BY <2>1, <2>2 DEF Carried, Files
<1>4. \A e \in Entries : [f EXCEPT !.ledger = @ \cup {e}] \in Files
  BY DEF Files
<1> QED BY <1>1, <1>2, <1>3, <1>4

\* The entry of the migration at hand.
LEMMA EntryType ==
    ASSUME TypeOK, NEW p \in Processes, local[p].next \in 1..Build[p]
    PROVE  local[p].next \in Versions /\ Entry(p) \in Entries
  BY BuildAssumption DEF Entry, Entries, Versions, Checksums, TypeOK

\* One process goes somewhere, with other locals: both stay typed, and nothing of the
\* others changes.
LEMMA Moves ==
    ASSUME TypeOK, NEW p \in Processes, NEW place \in Places, Goto(p, place),
           NEW locals \in Locals, local' = [local EXCEPT ![p] = locals]
    PROVE  /\ pc' \in [Processes -> Places] /\ local' \in [Processes -> Locals]
           /\ pc'[p] = place /\ local'[p] = locals
           /\ \A q \in Processes \ {p} : pc'[q] = pc[q] /\ local'[q] = local[q]
  BY DEF Goto, TypeOK

-----------------------------------------------------------------------------
(* What a process does not do to the others.                                *)

\* A step of p that changes the file only with the lock, and the lock only from or to
\* itself, keeps what is known of the others.
LEMMA OthersKeep ==
    ASSUME TypeOK, IInv, NEW p \in Processes, Owns(p)',
           pc[p] \notin {"off", "lock"} \/ file' = file,
           lock' \in {lock, p} \/ (lock = p /\ lock' = Nobody),
           lock' # lock => lock \in {Nobody, p},
           backups \subseteq backups',
           \A q \in Processes \ {p} : pc'[q] = pc[q] /\ local'[q] = local[q]
    PROVE  \A q \in Processes \ {p} : ProcessInv(q)'
<1> SUFFICES ASSUME NEW q \in Processes \ {p} PROVE ProcessInv(q)'
  OBVIOUS
<1>1. ProcessInv(q) /\ ProcessInv(p) /\ pc'[q] = pc[q] /\ local'[q] = local[q]
  BY DEF IInv
<1>2. CASE pc[q] \in {"off", "lock"}
  BY <1>1, <1>2 DEF ProcessInv, Owns, Seen, Judged, Saved, Knows, Prepared
<1>3. CASE pc[q] \notin {"off", "lock"}
  <2>1. lock = q /\ q # Nobody /\ q # p
    BY <1>1, <1>3, ProcessesAssumption DEF ProcessInv, Owns
  <2>2. file' = file /\ lock' = lock
    BY <1>1, <2>1 DEF ProcessInv, Owns
  <2>3. Owns(q)' /\ Seen(q)' /\ Judged(q)'
    BY <1>1, <2>1, <2>2 DEF ProcessInv, Owns, Seen, Judged, Opened, Real, Compatible, ValidSchema, Known
  <2>4. Saved(q)'
    BY <1>1, <2>2 DEF ProcessInv, Saved, TakesOver, Complete, ValidSchema, Known
  <2>5. Knows(q)'
    BY <1>1, <2>2 DEF ProcessInv, Knows, Compatible, ValidSchema, Known
  <2>6. Prepared(q)'
    BY <1>1 DEF ProcessInv, Prepared, Sound, Real, Recorded, Reached, Known, Entry
  <2> QED BY <2>3, <2>4, <2>5, <2>6 DEF ProcessInv
<1> QED BY <1>2, <1>3

\* The invariant after a step, from what the step leaves of its own process.
LEMMA StepKeeps ==
    ASSUME TypeOK, IInv, NEW p \in Processes, ProcessInv(p)', FileInv',
           pc[p] \notin {"off", "lock"} \/ file' = file,
           lock' \in {lock, p} \/ (lock = p /\ lock' = Nobody),
           lock' # lock => lock \in {Nobody, p},
           backups \subseteq backups',
           \A q \in Processes \ {p} : pc'[q] = pc[q] /\ local'[q] = local[q]
    PROVE  IInv'
<1>1. \A q \in Processes \ {p} : ProcessInv(q)'
  BY OthersKeep DEF ProcessInv
<1> QED BY <1>1 DEF IInv

-----------------------------------------------------------------------------
(* The start.                                                               *)

\* At first nothing is open and nothing has been changed.
LEMMA Start == Init => TypeOK /\ IInv
<1> SUFFICES ASSUME Init PROVE TypeOK /\ IInv
  OBVIOUS
<1>1. TypeOK
  BY ConstantTypes DEF Init, TypeOK, Places
<1>2. FileInv
  BY InitialAssumption DEF Init, FileInv, Sound, Real
<1>3. \A p \in Processes : ProcessInv(p)
  BY DEF Init, ProcessInv, Owns, Seen, Judged, Saved, Knows, Prepared
<1> QED BY <1>1, <1>2, <1>3 DEF IInv

-----------------------------------------------------------------------------
(* open, up to the inspection.                                              *)

\* Nothing is open yet.
LEMMA StatKeeps ==
    ASSUME TypeOK, IInv, NEW p \in Processes, Stat(p)
    PROVE  TypeOK' /\ IInv'
<1> DEFINE L == [NoLocal EXCEPT !.exists = file.exists]
<1>1. L \in Locals
  BY ConstantTypes DEF Locals, TypeOK, Files
<1> HIDE DEF L
<1>2. local' = [local EXCEPT ![p] = L] /\ Goto(p, "lock") /\ "lock" \in Places
  BY DEF Stat, L, Places
<1>3. TypeOK'
  BY <1>1, <1>2, Moves DEF Stat, TypeOK
<1>4. ProcessInv(p)'
  BY <1>1, <1>2, Moves, ZenonT(40) DEF ProcessInv, Owns, Seen, Judged, Saved, Knows, Prepared
<1>5. FileInv'
  BY DEF Stat, IInv, FileInv, Sound, Real, Recorded
<1> QED BY <1>1, <1>2, <1>3, <1>4, <1>5, Moves, StepKeeps DEF Stat

\* The lock is taken when it is free.
LEMMA AcquireWriterLockKeeps ==
    ASSUME TypeOK, IInv, NEW p \in Processes, AcquireWriterLock(p)
    PROVE  TypeOK' /\ IInv'
<1>0. FileInv'
  BY DEF AcquireWriterLock, IInv, FileInv, Sound, Real, Recorded
<1>1. CASE lock = Nobody
  <2>1. /\ local' = [local EXCEPT ![p] = local[p]] /\ local[p] \in Locals
        /\ Goto(p, "open") /\ "open" \in Places /\ lock' = p
    BY <1>1 DEF AcquireWriterLock, Places, TypeOK
  <2>2. TypeOK'
    BY <2>1, Moves DEF AcquireWriterLock, TypeOK
  <2>3. ProcessInv(p)'
    BY <2>1, Moves, ZenonT(40) DEF ProcessInv, Owns, Seen, Judged, Saved, Knows, Prepared
  <2> QED BY <1>0, <1>1, <2>1, <2>2, <2>3, Moves, StepKeeps DEF AcquireWriterLock
<1>2. CASE lock # Nobody
  <2>1. /\ local' = [local EXCEPT ![p] = NoLocal] /\ NoLocal \in Locals
        /\ Goto(p, "off") /\ "off" \in Places /\ lock' = lock
    BY <1>2, ConstantTypes DEF AcquireWriterLock, Places
  <2>2. TypeOK'
    BY <2>1, Moves DEF AcquireWriterLock, TypeOK
  <2>3. ProcessInv(p)'
    BY <2>1, Moves, ZenonT(40) DEF ProcessInv, Owns, Seen, Judged, Saved, Knows, Prepared
  <2> QED BY <1>0, <2>1, <2>2, <2>3, Moves, StepKeeps DEF AcquireWriterLock
<1> QED BY <1>1, <1>2

\* What is in the file is what was found.
LEMMA OpenWritableKeeps ==
    ASSUME TypeOK, IInv, NEW p \in Processes, OpenWritable(p)
    PROVE  TypeOK' /\ IInv'
<1> DEFINE L == [local[p] EXCEPT !.found = file]
<1>1. L \in Locals /\ L.found = file
  BY DEF Locals, TypeOK
<1> HIDE DEF L
<1>2. /\ local' = [local EXCEPT ![p] = L] /\ Goto(p, "inspect") /\ "inspect" \in Places
      /\ file' = Opened(file)
  BY DEF OpenWritable, L, Places, Opened
<1>3. TypeOK'
  BY <1>1, <1>2, Moves, FileUpdates, ZenonT(40) DEF OpenWritable, TypeOK
<1>4. FileInv'
  BY <1>2 DEF OpenWritable, IInv, FileInv, Sound, Real, Recorded, Opened, TypeOK, Files
<1>5. ProcessInv(p)'
  <2>1. Owns(p)'
    BY DEF OpenWritable, IInv, ProcessInv, Owns
  <2>2. Seen(p)'
    BY <1>1, <1>2, Moves DEF IInv, FileInv, Seen
  <2> QED BY <1>1, <1>2, <2>1, <2>2, Moves, ZenonT(40) DEF ProcessInv, Judged, Saved, Knows, Prepared
<1> QED BY <1>1, <1>2, <1>3, <1>4, <1>5, Moves, StepKeeps DEF OpenWritable

\* What is known when the inspection leads straight to the first write: nothing was
\* there before, or it is complete.
LEMMA InspectKeeps ==
    ASSUME TypeOK, IInv, NEW p \in Processes, Inspect(p)
    PROVE  TypeOK' /\ IInv'
<1> DEFINE L == [local[p] EXCEPT !.kind = KindOf(p, file), !.invalid = ~Compatible(p, file)]
           there == IF L.exists /\ L.kind = "javaUnmanaged" THEN "vacuum"
                    ELSE IF L.invalid THEN "closeDB" ELSE "journal"
<1>1. /\ L \in Locals /\ L.found = local[p].found /\ L.exists = local[p].exists
      /\ L.kind = KindOf(p, file) /\ (L.invalid <=> ~Compatible(p, file))
  <2>1. KindOf(p, file) \in Kinds /\ (~Compatible(p, file)) \in BOOLEAN
    BY DEF KindOf, Kinds
  <2> QED BY <2>1 DEF Locals, TypeOK
<1> HIDE DEF L
<1>2. /\ local' = [local EXCEPT ![p] = L] /\ local'[p] = L
      /\ Goto(p, there) /\ there \in Places
  <2>1. local' = [local EXCEPT ![p] = L] /\ local'[p] = L
    BY DEF Inspect, L, TypeOK
  <2> QED BY <2>1 DEF Inspect, NeedsBackup, Places
<1>3. TypeOK'
  BY <1>1, <1>2, Moves, ZenonT(40) DEF Inspect, TypeOK
<1>4. FileInv'
  BY DEF Inspect, IInv, FileInv, Sound, Real, Recorded
<1>5. ProcessInv(p)'
  <2>0. pc'[p] = there
    <3> HIDE DEF there
    <3> QED BY <1>1, <1>2, Moves
  <2>1. pc'[p] = there /\ pc[p] = "inspect" /\ ProcessInv(p)
    BY <2>0 DEF Inspect, IInv
  <2>2. Owns(p)' /\ Seen(p)'
    BY <1>1, <1>2, <2>1 DEF Inspect, ProcessInv, Owns, Seen
  <2>3. Judged(p)' /\ Knows(p)'
    BY <1>1, <1>2, <2>1, OpenedExists
    DEF Inspect, ProcessInv, Judged, Knows, Compatible, ValidSchema, Known
  <2>4. ASSUME there = "journal", TakesOver(p)' PROVE FALSE
    <3>1. /\ local[p].exists /\ local[p].found.tables # "none"
          /\ ~Complete(p, local[p].found)
      BY <1>1, <1>2, <2>4 DEF TakesOver, Complete, ValidSchema, Known
    <3>2. file = local[p].found
      <4>1. local[p].found \in Files /\ local[p].found.exists
        BY <2>1, <3>1 DEF ProcessInv, Seen, Real, TypeOK, Locals
      <4> QED BY <2>1, <4>1, FileUpdates DEF ProcessInv, Seen
    <3>3. Compatible(p, file) /\ KindOf(p, file) # "javaUnmanaged"
      BY <1>1, <2>4, <3>1
    <3> QED BY <3>1, <3>2, <3>3 DEF KindOf, Compatible
  <2>5. Saved(p)' /\ Prepared(p)'
    BY <2>1, <2>4 DEF Saved, Prepared
  <2> QED BY <2>2, <2>3, <2>5 DEF ProcessInv
<1> QED BY <1>1, <1>2, <1>3, <1>4, <1>5, Moves, StepKeeps, ZenonT(40) DEF Inspect

-----------------------------------------------------------------------------
(* The backup and the journal.                                              *)

\* The copy is of the file as it is.
LEMMA VacuumIntoKeeps ==
    ASSUME TypeOK, IInv, NEW p \in Processes, VacuumInto(p)
    PROVE  TypeOK' /\ IInv'
<1> DEFINE L == [local[p] EXCEPT !.copy = file]
<1>1. /\ L \in Locals /\ L.copy = file /\ L.found = local[p].found
      /\ L.invalid = local[p].invalid
  BY DEF Locals, TypeOK
<1> HIDE DEF L
<1>2. local' = [local EXCEPT ![p] = L] /\ Goto(p, "verify") /\ "verify" \in Places
  BY DEF VacuumInto, L, Places
<1>3. TypeOK'
  BY <1>1, <1>2, Moves DEF VacuumInto, TypeOK
<1>4. FileInv'
  BY DEF VacuumInto, IInv, FileInv, Sound, Real, Recorded
<1>5. ProcessInv(p)'
  <2>0. pc'[p] = "verify" /\ local'[p] = L
    BY <1>1, <1>2, Moves
  <2>1. pc[p] = "vacuum" /\ ProcessInv(p) /\ file' = file
    BY DEF VacuumInto, IInv
  <2>2. Owns(p)' /\ Seen(p)'
    BY <1>1, <2>0, <2>1 DEF VacuumInto, ProcessInv, Owns, Seen
  <2>3. Judged(p)'
    BY <1>1, <2>0, <2>1 DEF ProcessInv, Judged, Compatible, ValidSchema, Known
  <2> QED BY <2>0, <2>2, <2>3 DEF ProcessInv, Saved, Knows, Prepared
<1> QED BY <1>1, <1>2, <1>3, <1>4, <1>5, Moves, StepKeeps DEF VacuumInto

\* What was found is in the backup.
LEMMA VerifyKeeps ==
    ASSUME TypeOK, IInv, NEW p \in Processes, Verify(p)
    PROVE  TypeOK' /\ IInv'
<1>1. /\ local' = [local EXCEPT ![p] = local[p]] /\ local[p] \in Locals
      /\ Goto(p, AfterBackup(p)) /\ AfterBackup(p) \in Places
  BY DEF Verify, AfterBackup, Places, TypeOK
<1>2. TypeOK'
  BY <1>1, Moves DEF Verify, TypeOK, Locals
<1>3. FileInv'
  BY DEF Verify, IInv, FileInv, Sound, Real, Recorded
<1>4. ProcessInv(p)'
  <2>1. /\ pc'[p] = AfterBackup(p) /\ local'[p] = local[p] /\ pc[p] = "verify"
        /\ ProcessInv(p) /\ file' = file
    BY <1>1, Moves, ZenonT(40) DEF Verify, IInv
  <2>2. Owns(p)' /\ Seen(p)' /\ Judged(p)' /\ Prepared(p)'
    BY <2>1 DEF Verify, AfterBackup, ProcessInv, Owns, Seen, Judged, Prepared
  <2>3. Knows(p)'
    BY <2>1, OpenedExists
    DEF AfterBackup, ProcessInv, Judged, Knows, Compatible, ValidSchema, Known
  <2>4. Saved(p)'
    <3> SUFFICES ASSUME TakesOver(p) PROVE local[p].found \in backups'
      BY <2>1 DEF Saved, TakesOver, Complete, ValidSchema, Known
    <3>1. local[p].found \in Files /\ local[p].found.exists
      BY <2>1 DEF ProcessInv, Seen, Real, TakesOver, TypeOK, Locals
    <3>2. local[p].copy = local[p].found
      BY <2>1, <3>1, FileUpdates DEF ProcessInv, Seen, Judged
    <3> QED BY <3>2 DEF Verify
  <2> QED BY <2>2, <2>3, <2>4 DEF ProcessInv
<1> QED BY <1>1, <1>2, <1>3, <1>4, Moves, StepKeeps DEF Verify

\* The first write comes after the backup.
LEMMA ConfigureJournalKeeps ==
    ASSUME TypeOK, IInv, NEW p \in Processes, ConfigureJournal(p)
    PROVE  TypeOK' /\ IInv'
<1>1. /\ local' = [local EXCEPT ![p] = local[p]] /\ local[p] \in Locals
      /\ Goto(p, "begin") /\ "begin" \in Places
  BY DEF ConfigureJournal, Places, TypeOK
<1>2. TypeOK'
  <2>1. file' \in Files
    BY FileUpdates DEF ConfigureJournal, TypeOK
  <2>2. changed' \subseteq Files
    BY <1>1 DEF ConfigureJournal, TypeOK, Locals
  <2> QED BY <1>1, <2>1, <2>2, Moves DEF ConfigureJournal, TypeOK
<1>3. /\ pc'[p] = "begin" /\ local'[p] = local[p] /\ pc[p] = "journal" /\ ProcessInv(p)
  <2>1. pc'[p] = "begin" /\ local'[p] = local[p]
    BY <1>1, Moves
  <2> QED BY <2>1 DEF ConfigureJournal, IInv
<1>4. /\ file'.tables = file.tables /\ file'.ledger = file.ledger
      /\ file'.applied = file.applied /\ file'.exists = file.exists
  BY DEF ConfigureJournal, TypeOK, Files
<1>5. FileInv'
  <2>1. changed' \subseteq changed \cup (IF TakesOver(p) THEN {local[p].found} ELSE {})
    BY DEF ConfigureJournal, TakesOver
  <2>2. changed' \subseteq backups'
    BY <1>3, <2>1 DEF ConfigureJournal, IInv, FileInv, ProcessInv, Saved
  <2> QED BY <1>4, <2>2 DEF IInv, FileInv, Sound, Real, Recorded
<1>6. ProcessInv(p)'
  <2>1. Owns(p)' /\ Seen(p)' /\ Judged(p)' /\ Prepared(p)' /\ Saved(p)'
    BY <1>3 DEF ConfigureJournal, ProcessInv, Owns, Seen, Judged, Prepared, Saved
  <2>2. Knows(p)'
    BY <1>3, <1>4 DEF ProcessInv, Knows, Compatible, ValidSchema, Known
  <2> QED BY <2>1, <2>2 DEF ProcessInv
<1> QED BY <1>1, <1>2, <1>3, <1>5, <1>6, Moves, StepKeeps DEF ConfigureJournal

-----------------------------------------------------------------------------
(* The transaction.                                                         *)

\* The transaction starts from the file.
LEMMA BeginMigrationsKeeps ==
    ASSUME TypeOK, IInv, NEW p \in Processes, BeginMigrations(p)
    PROVE  TypeOK' /\ IInv'
<1> DEFINE L == [local[p] EXCEPT !.tx = file, !.next = 1]
           there == IF file.ledger \subseteq Known(p) THEN "migrate" ELSE "closeDB"
<1>1. L \in Locals /\ L.tx = file /\ L.next = 1
  BY DEF Locals, TypeOK
<1> HIDE DEF L
<1>2. local' = [local EXCEPT ![p] = L] /\ Goto(p, there) /\ there \in Places
  BY DEF BeginMigrations, L, Places
<1>3. TypeOK'
  BY <1>1, <1>2, Moves DEF BeginMigrations, TypeOK
<1>4. FileInv'
  BY DEF BeginMigrations, IInv, FileInv, Sound, Real, Recorded
<1>5. ProcessInv(p)'
  <2>1. pc'[p] = there /\ local'[p] = L
    <3> HIDE DEF there
    <3> QED BY <1>1, <1>2, Moves
  <2>2. pc[p] = "begin" /\ ProcessInv(p) /\ file' = file /\ FileInv
    BY DEF BeginMigrations, IInv
  <2>3. Owns(p)' /\ Seen(p)' /\ Judged(p)' /\ Saved(p)'
    BY <2>1, <2>2 DEF BeginMigrations, ProcessInv, Owns, Seen, Judged, Saved
  <2>4. Knows(p)'
    BY <2>1, <2>2 DEF ProcessInv, Knows, Compatible, ValidSchema, Known
  <2>5. Prepared(p)'
    <3> SUFFICES ASSUME there = "migrate" PROVE Prepared(p)'
      BY <2>1 DEF Prepared
    <3>1. /\ L.tx.ledger \subseteq Known(p) /\ Sound(L.tx) /\ L.tx.exists
      BY <1>1, <2>2 DEF FileInv, ProcessInv, Knows
    <3>2. L.next \in 1..(Build[p] + 1) /\ L.next - 1 = 0
      BY <1>1, BuildAssumption DEF Versions
    <3>3. Reached(p, L.tx, 0)
      BY <1>1, <2>2 DEF ProcessInv, Knows, Compatible, ValidSchema, Reached
    <3> QED BY <2>1, <3>1, <3>2, <3>3 DEF Prepared, Known, Sound, Recorded, Real, Reached
  <2> QED BY <2>3, <2>4, <2>5 DEF ProcessInv
<1> QED BY <1>1, <1>2, <1>3, <1>4, <1>5, Moves, StepKeeps DEF BeginMigrations

\* A migration that the ledger has is passed over.
LEMMA PassKeepsReached ==
    ASSUME NEW p \in Processes, NEW f \in Files, NEW n \in 1..Build[p],
           f.ledger \subseteq Known(p), Sound(f), Reached(p, f, n - 1),
           [version |-> n, checksum |-> "known"] \in f.ledger
    PROVE  Reached(p, f, n)
<1>1. Build[p] \in 1..3
  BY BuildAssumption DEF Versions
<1>2. CASE f.tables = "java" \/ (f.tables = "base" /\ Build[p] = 1)
  BY <1>2 DEF Reached
<1>3. CASE f.tables = "none"
  BY <1>3 DEF Sound
<1>4. CASE /\ f.tables = "base" /\ n - 1 = 1
           /\ f.ledger \subseteq {[version |-> 1, checksum |-> "known"]}
  BY <1>1, <1>4
<1> QED BY <1>2, <1>3, <1>4 DEF Reached

\* A migration that the ledger misses, carried out and recorded.
LEMMA CarriedIsSound ==
    ASSUME NEW p \in Processes, NEW f \in Files, NEW n \in 1..Build[p],
           f.ledger \subseteq Known(p), Sound(f), Reached(p, f, n - 1),
           [version |-> n, checksum |-> "known"] \notin f.ledger, f.exists
    PROVE  LET e == [version |-> n, checksum |-> "known"]
               g == [Carried(f, n) EXCEPT !.ledger = @ \cup {e}]
           IN  /\ g.ledger \subseteq Known(p)
               /\ Sound(g) /\ g.exists /\ Reached(p, g, n)
<1> DEFINE e == [version |-> n, checksum |-> "known"]
           g == [Carried(f, n) EXCEPT !.ledger = @ \cup {e}]
<1>1. Build[p] \in 1..3 /\ n \in Versions
  BY BuildAssumption DEF Versions
<1>2. /\ g.tables = TablesAfter(f.tables, n) /\ g.ledger = f.ledger \cup {e}
      /\ g.applied = [f.applied EXCEPT ![n] = @ + 1] /\ g.exists
  BY <1>1 DEF Carried, Files
<1> HIDE DEF g
<1>3. g.ledger \subseteq Known(p)
  BY <1>2 DEF Known
<1>4. g.tables # "none"
  BY <1>1, <1>2 DEF Reached, TablesAfter
<1>5. Recorded(g)
  <2> SUFFICES ASSUME NEW v \in Versions
               PROVE g.applied[v] = IF \E i \in g.ledger : i.version = v THEN 1 ELSE 0
    BY DEF Recorded
  <2>1. f.applied[v] = IF \E i \in f.ledger : i.version = v THEN 1 ELSE 0
    BY DEF Sound, Recorded
  <2>2. CASE v = n
    <3>1. ~\E i \in f.ledger : i.version = n
      BY DEF Known
    <3>2. f.applied[v] = 0 /\ g.applied[v] = f.applied[v] + 1
      BY <1>2, <2>1, <2>2, <3>1 DEF Files
    <3>3. e \in g.ledger /\ e.version = v
      BY <1>2, <2>2
    <3> QED BY <3>2, <3>3
  <2>3. CASE v # n
    <3>1. (\E i \in g.ledger : i.version = v) <=> (\E i \in f.ledger : i.version = v)
      BY <1>2, <2>3
    <3>2. g.applied[v] = f.applied[v]
      BY <1>2, <2>3 DEF Files
    <3> QED BY <2>1, <3>1, <3>2
  <2> QED BY <2>2, <2>3
<1>6. Reached(p, g, n)
  <2>1. CASE f.tables = "java"
    BY <1>2, <2>1 DEF Reached, TablesAfter
  <2>2. CASE f.tables = "base" /\ Build[p] = 1
    BY <1>1, <1>2, <2>2 DEF Reached, TablesAfter
  <2>3. CASE f.tables = "base" /\ n - 1 = 1
    BY <1>1, <1>2, <2>3 DEF Reached, TablesAfter
  <2>4. CASE f.tables = "none" /\ n - 1 = 0
    <3>1. n = 1 /\ f.ledger = {} /\ g.tables = "base"
      BY <1>1, <1>2, <2>4 DEF Sound, TablesAfter
    <3> QED BY <1>2, <3>1 DEF Reached
  <2> QED BY <2>1, <2>2, <2>3, <2>4 DEF Reached
<1> QED BY <1>2, <1>3, <1>4, <1>5, <1>6 DEF Sound, g

\* One migration is passed over or carried out.
LEMMA MigrateKeeps ==
    ASSUME TypeOK, IInv, NEW p \in Processes, Migrate(p)
    PROVE  TypeOK' /\ IInv'
<1> DEFINE f == local[p].tx
           n == local[p].next
<1>1. /\ pc[p] = "migrate" /\ n \in 1..Build[p] /\ ProcessInv(p) /\ f \in Files
  <2>1. pc[p] = "migrate" /\ n <= Build[p] /\ ProcessInv(p)
    BY DEF Migrate, IInv
  <2>2. n \in 1..(Build[p] + 1) /\ Build[p] \in 1..3
    BY <2>1, BuildAssumption DEF ProcessInv, Prepared, Versions
  <2>3. f \in Files
    BY DEF TypeOK, Locals
  <2> QED BY <2>1, <2>2, <2>3
<1>2. /\ f.ledger \subseteq Known(p) /\ Sound(f) /\ f.exists /\ Reached(p, f, n - 1)
  BY <1>1 DEF ProcessInv, Prepared
<1>3. n \in Versions /\ Build[p] \in 1..3 /\ n \in Nat /\ n + 1 - 1 = n
      /\ n + 1 \in 1..(Build[p] + 1)
  BY <1>1, EntryType, BuildAssumption DEF Versions
<1>4. FileInv'
  BY DEF Migrate, Apply, IInv, FileInv, Sound, Real, Recorded
<1>5. CASE Entry(p) \in f.ledger
  <2> DEFINE L == [local[p] EXCEPT !.next = n + 1]
  <2>1. L \in Locals /\ L.tx = f /\ L.next = n + 1
    BY <1>3 DEF Locals, TypeOK
  <2> HIDE DEF L
  <2>2. /\ local' = [local EXCEPT ![p] = L] /\ Goto(p, "migrate") /\ "migrate" \in Places
        /\ file' = file
    BY <1>1, <1>5 DEF Migrate, Apply, L, Places, Goto, TypeOK
  <2>3. TypeOK'
    BY <2>1, <2>2, Moves DEF Migrate, TypeOK
  <2>4. Reached(p, f, n)
    BY <1>1, <1>2, <1>5, PassKeepsReached DEF Entry
  <2>5. pc'[p] = "migrate" /\ local'[p] = L
    BY <2>1, <2>2, Moves
  <2>6. Prepared(p)'
    BY <1>2, <1>3, <2>1, <2>4, <2>5 DEF Prepared, Known, Sound, Recorded, Reached
  <2>7. Owns(p)' /\ Seen(p)' /\ Judged(p)' /\ Saved(p)'
    BY <1>1, <2>5 DEF Migrate, ProcessInv, Owns, Seen, Judged, Saved
  <2>8. Knows(p)'
    BY <1>1, <2>2, <2>5 DEF ProcessInv, Knows, Compatible, ValidSchema, Known
  <2>9. ProcessInv(p)'
    BY <2>6, <2>7, <2>8 DEF ProcessInv
  <2> QED BY <1>1, <1>4, <2>1, <2>2, <2>3, <2>9, Moves, StepKeeps DEF Migrate
<1>6. CASE Entry(p) \notin f.ledger
  <2> DEFINE L == [local[p] EXCEPT !.tx = Carried(f, n)]
             recorded == [Carried(f, n) EXCEPT !.ledger = @ \cup {Entry(p)}]
  <2>1. L \in Locals /\ L.tx = Carried(f, n) /\ L.next = n
    BY <1>1, <1>3, FileUpdates DEF Locals, TypeOK
  <2> HIDE DEF L
  <2>2. /\ local' = [local EXCEPT ![p] = L] /\ Goto(p, "record") /\ "record" \in Places
        /\ file' = file
    BY <1>6 DEF Migrate, Apply, L, Places
  <2>3. TypeOK'
    BY <2>1, <2>2, Moves DEF Migrate, TypeOK
  <2>4. /\ recorded.ledger \subseteq Known(p)
        /\ Sound(recorded) /\ recorded.exists /\ Reached(p, recorded, n)
    BY <1>1, <1>2, <1>6, CarriedIsSound DEF Entry
  <2>5. pc'[p] = "record" /\ local'[p] = L
    BY <2>1, <2>2, Moves
  <2>6. Prepared(p)'
    <3>1. Entry(p)' = Entry(p) /\ local'[p].tx = Carried(f, n) /\ local'[p].next = n
      BY <2>1, <2>5 DEF Entry
    <3>2. [local'[p].tx EXCEPT !.ledger = @ \cup {Entry(p)'}] = recorded
      BY <3>1
    <3> HIDE DEF recorded
    <3> QED BY <1>1, <2>4, <2>5, <3>1, <3>2 DEF Prepared, Known, Sound, Recorded, Reached
  <2>7. Owns(p)' /\ Seen(p)' /\ Judged(p)' /\ Saved(p)'
    BY <1>1, <2>5 DEF Migrate, ProcessInv, Owns, Seen, Judged, Saved
  <2>8. Knows(p)'
    BY <1>1, <2>2, <2>5 DEF ProcessInv, Knows, Compatible, ValidSchema, Known
  <2>9. ProcessInv(p)'
    BY <2>6, <2>7, <2>8 DEF ProcessInv
  <2> QED BY <1>1, <1>4, <2>1, <2>2, <2>3, <2>9, Moves, StepKeeps DEF Migrate
<1> QED BY <1>5, <1>6

\* What was prepared is what is recorded.
LEMMA RecordKeeps ==
    ASSUME TypeOK, IInv, NEW p \in Processes, Record(p)
    PROVE  TypeOK' /\ IInv'
<1> DEFINE n == local[p].next
           recorded == [local[p].tx EXCEPT !.ledger = @ \cup {Entry(p)}]
           L == [local[p] EXCEPT !.tx.ledger = @ \cup {Entry(p)}, !.next = @ + 1]
<1>1. pc[p] = "record" /\ ProcessInv(p)
  BY DEF Record, IInv
<1>2. /\ recorded.ledger \subseteq Known(p) /\ Sound(recorded) /\ recorded.exists
      /\ n \in 1..Build[p] /\ Reached(p, recorded, n)
  BY <1>1 DEF ProcessInv, Prepared
<1>3. /\ n \in Nat /\ n + 1 - 1 = n /\ n + 1 \in 1..(Build[p] + 1) /\ Entry(p) \in Entries
  BY <1>2, EntryType, BuildAssumption DEF Versions
<1>4. L \in Locals /\ L.tx = recorded /\ L.next = n + 1
  <2>1. local[p] \in Locals /\ local[p].tx \in Files
    BY DEF TypeOK, Locals
  <2>2. recorded \in Files
    BY <1>3, <2>1, FileUpdates
  <2>3. L.tx = recorded /\ L.next = n + 1 /\ n + 1 \in Nat
    BY <1>3, <2>1 DEF Locals
  <2>4. L = [local[p] EXCEPT !.tx = recorded, !.next = n + 1]
    BY DEF Locals
  <2> HIDE DEF L, recorded, n
  <2> QED BY <2>1, <2>2, <2>3, <2>4 DEF Locals
<1>5. local' = [local EXCEPT ![p] = L] /\ Goto(p, "migrate") /\ "migrate" \in Places
  BY DEF Record, Places
<1> HIDE DEF L, recorded
<1>6. TypeOK'
  BY <1>4, <1>5, Moves DEF Record, TypeOK
<1>7. FileInv'
  BY DEF Record, IInv, FileInv, Sound, Real, Recorded
<1>8. ProcessInv(p)'
  <2>1. pc'[p] = "migrate" /\ local'[p] = L
    BY <1>4, <1>5, Moves
  <2>2. Owns(p)' /\ Seen(p)' /\ Judged(p)' /\ Saved(p)'
    BY <1>1, <2>1 DEF Record, ProcessInv, Owns, Seen, Judged, Saved
  <2>3. Knows(p)'
    BY <1>1, <2>1 DEF Record, ProcessInv, Knows, Compatible, ValidSchema, Known
  <2>4. Prepared(p)'
    BY <1>2, <1>3, <1>4, <2>1 DEF Prepared, Known, Sound, Recorded, Reached
  <2> QED BY <2>2, <2>3, <2>4 DEF ProcessInv
<1> QED BY <1>1, <1>4, <1>5, <1>6, <1>7, <1>8, Moves, StepKeeps DEF Record

\* After all migrations the tables are what the build expects.
LEMMA CommitKeeps ==
    ASSUME TypeOK, IInv, NEW p \in Processes, Commit(p)
    PROVE  TypeOK' /\ IInv'
<1>1. /\ local' = [local EXCEPT ![p] = local[p]] /\ local[p] \in Locals
      /\ Goto(p, "ready") /\ "ready" \in Places
  BY DEF Commit, Places, TypeOK
<1>2. pc[p] = "migrate" /\ ProcessInv(p) /\ file' = local[p].tx /\ local[p].next > Build[p]
  BY DEF Commit, IInv
<1>3. TypeOK'
  BY <1>1, <1>2, Moves DEF Commit, TypeOK, Locals
<1>4. pc'[p] = "ready" /\ local'[p] = local[p]
  BY <1>1, Moves
<1>5. /\ file'.ledger \subseteq Known(p) /\ Sound(file') /\ file'.exists
      /\ Reached(p, file', Build[p]) /\ Build[p] \in 1..3
  <2>1. local[p].next \in 1..(Build[p] + 1) /\ Build[p] \in 1..3
    BY <1>2, BuildAssumption DEF ProcessInv, Prepared, Versions
  <2>2. local[p].next - 1 = Build[p]
    BY <1>2, <2>1
  <2> QED BY <1>2, <2>1, <2>2 DEF ProcessInv, Prepared
<1>6. FileInv'
  BY <1>5 DEF Commit, IInv, FileInv, Sound, Real, Recorded
<1>7. ProcessInv(p)'
  <2>1. Knows(p)'
    BY <1>5 DEF Knows, Compatible, ValidSchema, Known, Reached
  <2>2. Owns(p)' /\ Seen(p)' /\ Judged(p)' /\ Saved(p)' /\ Prepared(p)'
    BY <1>2, <1>4 DEF Commit, ProcessInv, Owns, Seen, Judged, Saved, Prepared
  <2> QED BY <2>1, <2>2 DEF ProcessInv
<1> QED BY <1>1, <1>2, <1>3, <1>6, <1>7, Moves, StepKeeps DEF Commit

-----------------------------------------------------------------------------
(* The open store, errors and the end.                                      *)

\* A step after which a process is about to close, or has closed.
LEMMA LeavingKeeps ==
    ASSUME TypeOK, IInv, NEW p \in Processes,
           NEW place \in {"closeDB", "closeLock", "off"}, Goto(p, place),
           NEW locals \in Locals, local' = [local EXCEPT ![p] = locals],
           pc[p] \notin {"off", "lock"},
           lock' = lock \/ (place = "off" /\ lock = p /\ lock' = Nobody),
           UNCHANGED <<file, backups, changed>>
    PROVE  TypeOK' /\ IInv'
<1>1. place \in Places
  BY DEF Places
<1>2. TypeOK'
  BY <1>1, Moves DEF TypeOK
<1>3. pc'[p] = place /\ local'[p] = locals
  BY <1>1, Moves
<1>4. ProcessInv(p)'
  <2>1. Owns(p)'
    BY <1>3 DEF IInv, ProcessInv, Owns
  <2> QED BY <1>3, <2>1 DEF ProcessInv, Seen, Judged, Saved, Knows, Prepared
<1>5. FileInv'
  BY DEF IInv, FileInv, Sound, Real, Recorded
<1> QED BY <1>1, <1>2, <1>4, <1>5, Moves, StepKeeps

\* Errors, closing and crashes change neither the file nor the backups.
LEMMA EndKeeps ==
    ASSUME TypeOK, IInv, NEW p \in Processes,
           OpenFails(p) \/ Close(p) \/ CloseDB(p) \/ CloseLock(p) \/ Crash(p)
    PROVE  TypeOK' /\ IInv'
<1>1. ProcessInv(p) /\ local[p] \in Locals
  BY DEF IInv, TypeOK
<1>2. local = [local EXCEPT ![p] = local[p]]
  BY DEF TypeOK
<1>3. CASE OpenFails(p) /\ Goto(p, "closeDB")
  BY <1>1, <1>2, <1>3, LeavingKeeps DEF OpenFails
<1>4. CASE OpenFails(p) /\ Goto(p, "closeLock")
  BY <1>1, <1>2, <1>4, LeavingKeeps DEF OpenFails
<1>5. CASE Close(p)
  BY <1>1, <1>2, <1>5, LeavingKeeps DEF Close
<1>6. CASE CloseDB(p)
  BY <1>1, <1>2, <1>6, LeavingKeeps DEF CloseDB
<1>7. CASE CloseLock(p)
  BY <1>1, <1>7, ConstantTypes, LeavingKeeps DEF CloseLock, Release
<1>8. CASE Crash(p)
  <2>1. CASE pc[p] \notin {"off", "lock"}
    BY <1>1, <1>8, <2>1, ConstantTypes, LeavingKeeps DEF Crash, Release
  <2>2. CASE pc[p] = "lock"
    <3>1. /\ local' = [local EXCEPT ![p] = NoLocal] /\ NoLocal \in Locals
          /\ Goto(p, "off") /\ "off" \in Places
          /\ lock' = lock \/ (lock = p /\ lock' = Nobody)
      BY <1>8, ConstantTypes DEF Crash, Release, Places
    <3>2. TypeOK'
      BY <1>8, <3>1, Moves DEF Crash, TypeOK
    <3>3. ProcessInv(p)'
      BY <3>1, Moves, ZenonT(40) DEF ProcessInv, Owns, Seen, Judged, Saved, Knows, Prepared
    <3>4. FileInv'
      BY <1>8 DEF Crash, IInv, FileInv, Sound, Real, Recorded
    <3> QED BY <1>8, <3>1, <3>2, <3>3, <3>4, Moves, StepKeeps DEF Crash
  <2> QED BY <1>8, <2>1, <2>2 DEF Crash
<1> QED BY <1>3, <1>4, <1>5, <1>6, <1>7, <1>8 DEF OpenFails

\* The rows that an open store writes are neither schema nor ledger.
LEMMA WriteKeeps ==
    ASSUME TypeOK, IInv, NEW p \in Processes, Write(p)
    PROVE  TypeOK' /\ IInv'
<1>1. pc[p] = "ready" /\ pc' = pc /\ local' = local /\ ProcessInv(p)
  BY DEF Write, IInv
<1>2. TypeOK'
  BY FileUpdates DEF Write, TypeOK
<1>3. /\ file'.tables = file.tables /\ file'.ledger = file.ledger
      /\ file'.applied = file.applied /\ file'.exists = file.exists
  BY DEF Write, TypeOK, Files
<1>4. FileInv'
  BY <1>3 DEF Write, IInv, FileInv, Sound, Real, Recorded
<1>5. Knows(p)'
  BY <1>1, <1>3 DEF ProcessInv, Knows, Compatible, ValidSchema, Known
<1>6. Owns(p)' /\ Seen(p)' /\ Judged(p)' /\ Saved(p)' /\ Prepared(p)'
  BY <1>1 DEF Write, ProcessInv, Owns, Seen, Judged, Saved, Prepared
<1> QED BY <1>1, <1>2, <1>4, <1>5, <1>6, StepKeeps DEF Write, ProcessInv

-----------------------------------------------------------------------------
(* Theorems.                                                                *)

\* Every step keeps the types and the invariant.
LEMMA NextKeeps == TypeOK /\ IInv /\ [Next]_vars => TypeOK' /\ IInv'
<1> SUFFICES ASSUME TypeOK, IInv, [Next]_vars PROVE TypeOK' /\ IInv'
  OBVIOUS
<1>1. ASSUME NEW p \in Processes, Step(p) PROVE TypeOK' /\ IInv'
  BY <1>1, StatKeeps, AcquireWriterLockKeeps, OpenWritableKeeps, InspectKeeps,
     VacuumIntoKeeps, VerifyKeeps, ConfigureJournalKeeps, BeginMigrationsKeeps,
     MigrateKeeps, RecordKeeps, CommitKeeps, EndKeeps, WriteKeeps
  DEF Step
<1>2. CASE UNCHANGED vars
  <2>1. TypeOK'
    BY <1>2 DEF vars, TypeOK
  <2>2. FileInv'
    BY <1>2 DEF vars, IInv, FileInv, Sound, Real, Recorded
  <2>3. ASSUME NEW p \in Processes PROVE ProcessInv(p)'
    <3>1. ProcessInv(p) /\ pc' = pc /\ local' = local /\ file' = file
          /\ lock' = lock /\ backups' = backups
      BY <1>2 DEF vars, IInv
    <3>2. Owns(p)' /\ Seen(p)' /\ Judged(p)' /\ Saved(p)'
      BY <3>1 DEF ProcessInv, Owns, Seen, Judged, Saved, TakesOver, Complete,
                  Compatible, ValidSchema, Known
    <3>3. Knows(p)' /\ Prepared(p)'
      BY <3>1 DEF ProcessInv, Knows, Compatible, ValidSchema, Known, Prepared,
                  Sound, Recorded, Reached, Entry
    <3> QED BY <3>2, <3>3 DEF ProcessInv
  <2> QED BY <2>1, <2>2, <2>3 DEF IInv
<1> QED BY <1>1, <1>2 DEF Next

\* The types and the invariant hold throughout.
LEMMA Invariants == Spec => [](TypeOK /\ IInv)
  BY Start, NextKeeps, PTL DEF Spec

\* Every variable of a takeover keeps its type (lifecycle.go).
THEOREM TakeoversAreTyped == Spec => []TypeOK
  BY Invariants, PTL

\* For any number of processes, one at a time has the database open for writing
\* (lifecycle.go open and Close, writer_lock.go).
THEOREM OnlyOneWriter == Spec => []OneWriter
<1>1. IInv => OneWriter
  BY DEF IInv, ProcessInv, Owns, OneWriter, HasHandle
<1> QED BY <1>1, Invariants, PTL

\* For any file and any builds, the verified backup is there before the first write to
\* what was found (lifecycle.go open, backup.go).
THEOREM BackupComesFirst == Spec => []BackupBeforeTakeover
<1>1. IInv => BackupBeforeTakeover
  BY DEF IInv, FileInv, BackupBeforeTakeover
<1> QED BY <1>1, Invariants, PTL

\* The ledger tells exactly which migrations have taken effect, whichever processes fail
\* and die, and wherever (migrations.go applyMigrationsAfterHook).
THEOREM MigrationsRunOnce == Spec => []MigratedOnce
<1>1. IInv => MigratedOnce
  BY DEF IInv, FileInv, Sound, MigratedOnce
<1> QED BY <1>1, Invariants, PTL

\* A database that a build does not know is not written to while a process of that build
\* has it open (database.go inspectSchema, migrations.go validateLedger).
THEOREM UnknownIsLeftAlone == Spec => FailsClosed
<1> DEFINE Safely == file' # file => \A p \in Processes : HasHandle(p) => Compatible(p, file)
<1>1. TypeOK /\ IInv /\ [Next]_vars => [Safely]_vars
  <2> SUFFICES ASSUME TypeOK, IInv, [Next]_vars, file' # file,
                      NEW q \in Processes, HasHandle(q)
               PROVE  Compatible(q, file)
    OBVIOUS
  <2>1. PICK p \in Processes : Step(p)
    BY DEF Next, vars
  <2>2. OpenWritable(p) \/ ConfigureJournal(p) \/ Commit(p) \/ Write(p)
    BY <2>1 DEF Step, Stat, AcquireWriterLock, Inspect, VacuumInto, Verify,
                BeginMigrations, Migrate, Apply, Record, OpenFails, Close, CloseDB,
                CloseLock, Crash
  <2>3. ProcessInv(p) /\ ProcessInv(q)
    BY DEF IInv
  <2>4. p = q /\ pc[p] \in {"journal", "migrate", "ready"}
    BY <2>2, <2>3 DEF OpenWritable, ConfigureJournal, Commit, Write, ProcessInv, Owns, HasHandle
  <2> QED BY <2>3, <2>4 DEF ProcessInv, Knows
<1> QED BY <1>1, Invariants, PTL DEF Spec, FailsClosed

-----------------------------------------------------------------------------
(* One process. run, which opens the store, is modelled on its own: what it *)
(* has opened, and what it has told the gate of its listener.               *)

CONSTANT Modes

P == INSTANCE AppLifecycle

Undecided == {"deciding", "ready", "checked", "starting"}
Over == {"cleanup", "tasks", "shutdown", "draining", "joining", "listener", "closing",
         "exited"}
AfterWait == {"shutdown", "draining", "joining", "listener", "closing", "exited"}
AfterServe == {"draining", "joining", "closing", "exited"}

\* Before Serve is started there is nothing it could have left behind.
QuietInv ==
    /\ main \in {"opening", "opened", "composed"} => serve = "none"
    /\ main = "opening" => store = "none"
    /\ main \in Undecided \cup {"decided", "awaiting", "shutdown", "draining", "joining"} =>
          serve # "none"
    /\ serve = "none" =>
          /\ socket = "none" /\ served = "empty" /\ tasks = "none"
          /\ ~committed /\ ~aborted /\ ~stopping /\ ~handed /\ ~active /\ ~serveDone

\* The gate is released exactly by a commit, and not aborted before a decision.
GateInv ==
    /\ released = committed
    /\ main \in Undecided => ~aborted /\ ~committed /\ ~serveDone
    /\ tasks # "none" => ~aborted /\ (committed \/ main = "starting")
    /\ main \in Undecided \ {"starting"} => tasks = "none"
    /\ database /\ (committed \/ main = "starting") => tasks # "none"
    /\ serve = "serving" \/ handed \/ active => released

\* What Serve has answered, and why it returned.
ServeInv ==
    /\ served # "empty" \/ serveDone => serve = "ended"
    /\ served = "closed" => stopping
    /\ stopping => main \in AfterServe
    /\ serve \notin {"none", "ended"} /\ socket = "closed" => stopping
    /\ serveDone => failures # {}
    /\ main \in Undecided /\ serve = "ended" => broken

\* What cleanup has done by the time it gets where it is.
CleanupInv ==
    /\ main \in AfterWait => tasks # "running" /\ cancelled
    /\ main = "tasks" => cancelled
    /\ main = "listener" => serve = "none" \/ serveDone
    /\ main = "shutdown" => ~serveDone
    /\ main \in {"draining", "joining"} => stopping
    /\ main \in AfterServe => socket # "open"
    /\ main \in {"closing", "exited"} => serve \in {"none", "ended"}
    /\ main \in {"closing", "exited"} => stopping \/ failures # {} \/ serve = "none"
    /\ main \in {"joining", "closing", "exited"} /\ active => failures # {}
    /\ store = "closed" => main = "exited"
    /\ main = "exited" => store # "open"

\* A committed process is only taken down for a reason.
ReasonInv ==
    /\ committed /\ main \in Over => signalled \/ serveDone
    /\ serveDone => ~stopping
    /\ P!DatabaseStaysUp

LifeInv ==
    /\ QuietInv
    /\ GateInv
    /\ ServeInv
    /\ CleanupInv
    /\ ReasonInv

-----------------------------------------------------------------------------
\* What goes on beside run.
OtherStep ==
    \/ P!Signal \/ P!Accept \/ P!ServeStep \/ P!AcceptFails \/ P!RequestBegins \/ P!RequestEnds
    \/ P!ProbeStep \/ P!TasksEnd

\* Opening the store, composing and listening keep the types.
LEMMA StartupTypes ==
    ASSUME P!TypeOK, P!StartupStep
    PROVE  P!TypeOK'
<1> USE DEF P!TypeOK, P!mainVars, P!gateVars, P!serverVars, P!probeVars
<1>1. CASE P!OpenStore
  BY <1>1 DEF P!OpenStore, P!MainStates, P!FailureKinds
<1>2. CASE P!OpenFails
  BY <1>2 DEF P!OpenFails, P!MainStates, P!FailureKinds
<1>3. CASE P!Compose
  BY <1>3 DEF P!Compose, P!MainStates, P!FailureKinds
<1>4. CASE P!StartupFails
  BY <1>4 DEF P!StartupFails, P!GiveUp, P!MainStates, P!FailureKinds
<1>5. CASE P!Listen
  BY <1>5 DEF P!Listen, P!MainStates, P!FailureKinds
<1> QED BY <1>1, <1>2, <1>3, <1>4, <1>5 DEF P!StartupStep

\* The decision to commit or to abort keeps the types.
LEMMA DecisionTypes ==
    ASSUME P!TypeOK, P!DecisionStep
    PROVE  P!TypeOK'
<1> USE DEF P!TypeOK, P!mainVars, P!gateVars, P!serverVars, P!probeVars
<1>1. CASE P!TakeServed
  <2>1. UNCHANGED <<signalled, database, store, committed, cancelled, tasks, ready,
                    released, socket, serve, stopping, handed, active, broken, probe,
                    probeFailed>>
    BY <1>1 DEF P!TakeServed, P!ReceiveServed, P!Abort
  <2>2. /\ main' \in P!MainStates /\ failures' \subseteq P!FailureKinds
        /\ served' = "empty" /\ serveDone' \in BOOLEAN /\ aborted' \in BOOLEAN
    BY <1>1 DEF P!TakeServed, P!ReceiveServed, P!Abort, P!MainStates, P!FailureKinds
  <2> QED BY <2>1, <2>2
<1>2. CASE P!TakeProbeFailure
  <2>1. UNCHANGED <<signalled, database, store, committed, serveDone, cancelled,
                    tasks, ready, released, socket, serve, served, stopping, handed, active,
                    broken, probe>>
    BY <1>2 DEF P!TakeProbeFailure, P!Abort
  <2>2. /\ main' \in P!MainStates /\ failures' \subseteq P!FailureKinds
        /\ probeFailed' \in BOOLEAN /\ aborted' \in BOOLEAN
    BY <1>2 DEF P!TakeProbeFailure, P!Abort, P!MainStates, P!FailureKinds
  <2> QED BY <2>1, <2>2
<1>3. CASE P!TakeReady
  <2>1. UNCHANGED <<signalled, database, store, committed, serveDone, failures,
                    cancelled, tasks, released, aborted, socket, serve, served,
                    stopping, handed, active, broken, probe, probeFailed>>
    BY <1>3 DEF P!TakeReady
  <2>2. main' \in P!MainStates /\ ready' \in BOOLEAN
    BY <1>3 DEF P!TakeReady, P!MainStates, P!FailureKinds
  <2> QED BY <2>1, <2>2
<1>4. CASE P!TakeReadyLate
  <2>1. UNCHANGED <<signalled, database, store, committed, serveDone, failures,
                    cancelled, tasks, released, socket, serve, served, stopping,
                    handed, active, broken, probe, probeFailed>>
    BY <1>4 DEF P!TakeReadyLate
  <2>2. main' \in P!MainStates /\ ready' \in BOOLEAN /\ aborted' \in BOOLEAN
    BY <1>4 DEF P!TakeReadyLate, P!MainStates, P!FailureKinds
  <2> QED BY <2>1, <2>2
<1>5. CASE P!TakeSignal
  BY <1>5 DEF P!TakeSignal, P!Abort, P!MainStates, P!FailureKinds
<1>6. CASE P!NothingAgainst
  BY <1>6 DEF P!NothingAgainst, P!MainStates, P!FailureKinds
<1>7. CASE P!StartTasks
  BY <1>7 DEF P!StartTasks, P!MainStates, P!FailureKinds
<1>8. CASE P!Commit
  BY <1>8 DEF P!Commit, P!MainStates, P!FailureKinds
<1>9. CASE P!LeaveDecision
  <2>1. UNCHANGED <<signalled, database, store, committed, serveDone, failures,
                    cancelled, tasks, ready, released, socket, serve, served,
                    stopping, handed, active, broken, probe, probeFailed>>
    BY <1>9 DEF P!LeaveDecision, P!Abort
  <2>2. main' \in P!MainStates /\ aborted' \in BOOLEAN
    BY <1>9 DEF P!LeaveDecision, P!Abort, P!MainStates, P!FailureKinds
  <2> QED BY <2>1, <2>2
<1>10. CASE P!AwaitServed
  BY <1>10 DEF P!AwaitServed, P!ReceiveServed, P!MainStates, P!FailureKinds
<1>11. CASE P!AwaitSignal
  BY <1>11 DEF P!AwaitSignal, P!MainStates, P!FailureKinds
<1> QED BY <1>1, <1>2, <1>3, <1>4, <1>5, <1>6, <1>7, <1>8, <1>9, <1>10, <1>11 DEF
       P!DecisionStep

\* The cleanup, one resource after the other, keeps the types.
LEMMA CleanupTypes ==
    ASSUME P!TypeOK, P!CleanupStep
    PROVE  P!TypeOK'
<1> USE DEF P!TypeOK, P!mainVars, P!gateVars, P!serverVars, P!probeVars
<1>1. CASE P!CancelContext
  BY <1>1 DEF P!CancelContext, P!MainStates, P!FailureKinds
<1>2. CASE P!WaitForTasks
  BY <1>2 DEF P!WaitForTasks, P!AfterTasks, P!MainStates, P!FailureKinds
<1>3. CASE P!Shutdown
  BY <1>3 DEF P!Shutdown, P!MainStates, P!FailureKinds
<1>4. CASE P!ShutdownReturns
  BY <1>4 DEF P!ShutdownReturns, P!MainStates, P!FailureKinds
<1>5. CASE P!ShutdownTimesOut
  BY <1>5 DEF P!ShutdownTimesOut, P!MainStates, P!FailureKinds
<1>6. CASE P!JoinServe
  BY <1>6 DEF P!JoinServe, P!ReceiveServed, P!MainStates, P!FailureKinds
<1>7. CASE P!CloseListener
  BY <1>7 DEF P!CloseListener, P!MainStates, P!FailureKinds
<1>8. CASE P!CloseStore
  BY <1>8 DEF P!CloseStore, P!MainStates, P!FailureKinds
<1> QED BY <1>1, <1>2, <1>3, <1>4, <1>5, <1>6, <1>7, <1>8 DEF P!CleanupStep

\* The goroutines beside run keep the types.
LEMMA OthersTypes ==
    ASSUME P!TypeOK, OtherStep
    PROVE  P!TypeOK'
<1> USE DEF P!TypeOK, P!mainVars, P!gateVars, P!serverVars, P!probeVars
<1>1. CASE P!Signal
  BY <1>1 DEF P!Signal, P!MainStates, P!FailureKinds
<1>2. CASE P!Accept
  BY <1>2 DEF P!Accept, P!MainStates, P!FailureKinds
<1>3. CASE P!PassGate
  BY <1>3 DEF P!PassGate, P!MainStates, P!FailureKinds
<1>4. CASE P!DropAtGate
  BY <1>4 DEF P!DropAtGate, P!ServeReturns, P!MainStates, P!FailureKinds
<1>5. CASE P!AcceptClosed
  BY <1>5 DEF P!AcceptClosed, P!ServeReturns, P!MainStates, P!FailureKinds
<1>6. CASE P!AcceptFails
  BY <1>6 DEF P!AcceptFails, P!ServeReturns, P!MainStates, P!FailureKinds
<1>7. CASE P!RequestBegins
  BY <1>7 DEF P!RequestBegins, P!MainStates, P!FailureKinds
<1>8. CASE P!RequestEnds
  <2>1. UNCHANGED <<signalled, database, main, store, committed, serveDone,
                    failures, cancelled, tasks, ready, released, aborted, socket,
                    serve, served, stopping, handed, broken, probe, probeFailed>>
    BY <1>8 DEF P!RequestEnds
  <2>2. active' \in BOOLEAN
    BY <1>8 DEF P!RequestEnds, P!MainStates, P!FailureKinds
  <2> QED BY <2>1, <2>2
<1>9. CASE P!ProbeConnects
  BY <1>9 DEF P!ProbeConnects, P!MainStates, P!FailureKinds
<1>10. CASE P!ProbeFails
  BY <1>10 DEF P!ProbeFails, P!MainStates, P!FailureKinds
<1>11. CASE P!ProbeEnds
  BY <1>11 DEF P!ProbeEnds, P!MainStates, P!FailureKinds
<1>12. CASE P!TasksEnd
  BY <1>12 DEF P!TasksEnd, P!MainStates, P!FailureKinds
<1> QED BY <1>1, <1>2, <1>3, <1>4, <1>5, <1>6, <1>7, <1>8, <1>9, <1>10, <1>11, <1>12
       DEF OtherStep, P!ServeStep, P!ProbeStep

\* Opening the store, composing and listening keep the invariant.
LEMMA StartupInv ==
    ASSUME P!TypeOK, LifeInv, P!StartupStep
    PROVE  LifeInv'
<1> USE DEF P!TypeOK, LifeInv, QuietInv, GateInv, ServeInv, CleanupInv, ReasonInv,
       P!DatabaseStaysUp, Undecided, Over, AfterWait, AfterServe, P!mainVars, P!gateVars,
       P!serverVars, P!probeVars
<1>1. CASE P!OpenStore
  BY <1>1 DEF P!OpenStore
<1>2. CASE P!OpenFails
  BY <1>2 DEF P!OpenFails
<1>3. CASE P!Compose
  BY <1>3 DEF P!Compose
<1>4. CASE P!StartupFails
  BY <1>4 DEF P!StartupFails, P!GiveUp
<1>5. CASE P!Listen
  <2>1. QuietInv'
    BY <1>5 DEF P!Listen
  <2>2. GateInv'
    BY <1>5 DEF P!Listen
  <2>3. ServeInv'
    BY <1>5 DEF P!Listen
  <2>4. CleanupInv'
    BY <1>5 DEF P!Listen
  <2>5. ReasonInv'
    BY <1>5 DEF P!Listen
  <2> HIDE DEF QuietInv, GateInv, ServeInv, CleanupInv, ReasonInv
  <2> QED BY <2>1, <2>2, <2>3, <2>4, <2>5
<1> QED BY <1>1, <1>2, <1>3, <1>4, <1>5 DEF P!StartupStep

\* The decision to commit or to abort keeps the invariant.
LEMMA DecisionInv ==
    ASSUME P!TypeOK, LifeInv, P!DecisionStep
    PROVE  LifeInv'
<1> USE DEF P!TypeOK, LifeInv, QuietInv, GateInv, ServeInv, CleanupInv, ReasonInv,
       P!DatabaseStaysUp, Undecided, Over, AfterWait, AfterServe, P!mainVars, P!gateVars,
       P!serverVars, P!probeVars
<1>1. CASE P!TakeServed
  BY <1>1 DEF P!TakeServed, P!ReceiveServed, P!Abort
<1>2. CASE P!TakeProbeFailure
  BY <1>2 DEF P!TakeProbeFailure, P!Abort
<1>3. CASE P!TakeReady
  BY <1>3 DEF P!TakeReady
<1>4. CASE P!TakeReadyLate
  BY <1>4 DEF P!TakeReadyLate
<1>5. CASE P!TakeSignal
  BY <1>5 DEF P!TakeSignal, P!Abort
<1>6. CASE P!NothingAgainst
  BY <1>6 DEF P!NothingAgainst
<1>7. CASE P!StartTasks
  BY <1>7 DEF P!StartTasks
<1>8. CASE P!Commit
  BY <1>8 DEF P!Commit
<1>9. CASE P!LeaveDecision
  BY <1>9 DEF P!LeaveDecision, P!MustAbort, P!Abort
<1>10. CASE P!AwaitServed
  BY <1>10 DEF P!AwaitServed, P!ReceiveServed
<1>11. CASE P!AwaitSignal
  BY <1>11 DEF P!AwaitSignal
<1> QED BY <1>1, <1>2, <1>3, <1>4, <1>5, <1>6, <1>7, <1>8, <1>9, <1>10, <1>11 DEF
       P!DecisionStep

\* The cleanup, one resource after the other, keeps the invariant.
LEMMA CleanupInvKept ==
    ASSUME P!TypeOK, LifeInv, P!CleanupStep
    PROVE  LifeInv'
<1> USE DEF P!TypeOK, LifeInv, QuietInv, GateInv, ServeInv, CleanupInv, ReasonInv,
       P!DatabaseStaysUp, Undecided, Over, AfterWait, AfterServe, P!mainVars, P!gateVars,
       P!serverVars, P!probeVars
<1>1. CASE P!CancelContext
  BY <1>1 DEF P!CancelContext
<1>2. CASE P!WaitForTasks
  BY <1>2 DEF P!WaitForTasks, P!AfterTasks
<1>3. CASE P!Shutdown
  <2>1. QuietInv'
    BY <1>3 DEF P!Shutdown
  <2>2. GateInv'
    BY <1>3 DEF P!Shutdown
  <2>3. ServeInv'
    BY <1>3 DEF P!Shutdown
  <2>4. CleanupInv'
    BY <1>3 DEF P!Shutdown
  <2>5. ReasonInv'
    BY <1>3 DEF P!Shutdown
  <2> HIDE DEF QuietInv, GateInv, ServeInv, CleanupInv, ReasonInv
  <2> QED BY <2>1, <2>2, <2>3, <2>4, <2>5
<1>4. CASE P!ShutdownReturns
  BY <1>4 DEF P!ShutdownReturns
<1>5. CASE P!ShutdownTimesOut
  BY <1>5 DEF P!ShutdownTimesOut
<1>6. CASE P!JoinServe
  BY <1>6 DEF P!JoinServe, P!ReceiveServed
<1>7. CASE P!CloseListener
  BY <1>7 DEF P!CloseListener
<1>8. CASE P!CloseStore
  BY <1>8 DEF P!CloseStore
<1> QED BY <1>1, <1>2, <1>3, <1>4, <1>5, <1>6, <1>7, <1>8 DEF P!CleanupStep

\* The goroutines beside run keep the invariant.
LEMMA OthersInv ==
    ASSUME P!TypeOK, LifeInv, OtherStep
    PROVE  LifeInv'
<1> USE DEF P!TypeOK, LifeInv, QuietInv, GateInv, ServeInv, CleanupInv, ReasonInv,
       P!DatabaseStaysUp, Undecided, Over, AfterWait, AfterServe, P!mainVars, P!gateVars,
       P!serverVars, P!probeVars
<1>1. CASE P!Signal
  BY <1>1 DEF P!Signal
<1>2. CASE P!Accept
  BY <1>2 DEF P!Accept
<1>3. CASE P!PassGate
  BY <1>3 DEF P!PassGate
<1>4. CASE P!DropAtGate
  BY <1>4 DEF P!DropAtGate, P!ServeReturns
<1>5. CASE P!AcceptClosed
  BY <1>5 DEF P!AcceptClosed, P!ServeReturns
<1>6. CASE P!AcceptFails
  BY <1>6 DEF P!AcceptFails, P!ServeReturns
<1>7. CASE P!RequestBegins
  BY <1>7 DEF P!RequestBegins
<1>8. CASE P!RequestEnds
  BY <1>8 DEF P!RequestEnds
<1>9. CASE P!ProbeConnects
  BY <1>9 DEF P!ProbeConnects
<1>10. CASE P!ProbeFails
  BY <1>10 DEF P!ProbeFails
<1>11. CASE P!ProbeEnds
  BY <1>11 DEF P!ProbeEnds
<1>12. CASE P!TasksEnd
  BY <1>12 DEF P!TasksEnd
<1> QED BY <1>1, <1>2, <1>3, <1>4, <1>5, <1>6, <1>7, <1>8, <1>9, <1>10, <1>11, <1>12
       DEF OtherStep, P!ServeStep, P!ProbeStep

\* The inductive invariant holds in every behaviour.
LEMMA LifeInvariant ==
    ASSUME Modes \subseteq BOOLEAN PROVE P!Spec => [](P!TypeOK /\ LifeInv)
<1>1. P!Init => P!TypeOK /\ LifeInv
  BY DEF P!Init, P!TypeOK, P!MainStates, P!FailureKinds, LifeInv, QuietInv, GateInv, ServeInv,
         CleanupInv, ReasonInv, P!DatabaseStaysUp, Undecided, Over, AfterWait, AfterServe
<1>2. P!TypeOK /\ LifeInv /\ [P!Next]_P!vars => (P!TypeOK /\ LifeInv)'
  <2>1. P!TypeOK /\ LifeInv /\ UNCHANGED P!vars => (P!TypeOK /\ LifeInv)'
    BY DEF P!vars, P!mainVars, P!gateVars, P!serverVars, P!probeVars, P!TypeOK, LifeInv, QuietInv,
           GateInv, ServeInv, CleanupInv, ReasonInv, P!DatabaseStaysUp
  <2>2. P!Next => P!StartupStep \/ P!DecisionStep \/ P!CleanupStep \/ OtherStep
    BY DEF P!Next, P!MainStep, OtherStep
  <2> QED BY <2>1, <2>2, StartupTypes, DecisionTypes, CleanupTypes, OthersTypes,
             StartupInv, DecisionInv, CleanupInvKept, OthersInv
<1> QED BY <1>1, <1>2, PTL DEF P!Spec

-----------------------------------------------------------------------------
(* The theorems.                                                            *)

\* Every variable keeps its type.
THEOREM TypesHold ==
    ASSUME Modes \subseteq BOOLEAN PROVE P!Spec => []P!TypeOK
<1>1. P!TypeOK /\ LifeInv => P!TypeOK
  OBVIOUS
<1> QED BY <1>1, LifeInvariant, PTL

\* Nothing is served before the start is committed.
THEOREM FirstConnectionIsHeld ==
    ASSUME Modes \subseteq BOOLEAN PROVE P!Spec => []HeldUntilCommitted
<1>1. P!TypeOK /\ LifeInv => HeldUntilCommitted
  BY DEF LifeInv, GateInv, HeldUntilCommitted
<1> QED BY <1>1, LifeInvariant, PTL

\* Tasks and an aborted start exclude each other.
THEOREM TasksOnlyIfCommitted ==
    ASSUME Modes \subseteq BOOLEAN PROVE P!Spec => []TasksMeanCommitted
<1>1. P!TypeOK /\ LifeInv => TasksMeanCommitted
  BY DEF LifeInv, GateInv, TasksMeanCommitted
<1> QED BY <1>1, LifeInvariant, PTL

\* The store is closed last, and a request it is closed under is reported.
THEOREM StoreIsClosedLast ==
    ASSUME Modes \subseteq BOOLEAN PROVE P!Spec => []StoreOutlivesUsers
<1>1. P!TypeOK /\ LifeInv => StoreOutlivesUsers
  BY DEF LifeInv, CleanupInv, AfterWait, StoreOutlivesUsers
<1> QED BY <1>1, LifeInvariant, PTL

\* No path of run leaves a resource behind.
THEOREM RunLeavesNothing ==
    ASSUME Modes \subseteq BOOLEAN PROVE P!Spec => []NothingLeaks
<1>1. P!TypeOK /\ LifeInv => NothingLeaks
  BY DEF LifeInv, CleanupInv, AfterWait, AfterServe, NothingLeaks
<1> QED BY <1>1, LifeInvariant, PTL

\* With a database, the abort after the decision never reaches the gate.
THEOREM DatabaseServesOn ==
    ASSUME Modes \subseteq BOOLEAN PROVE P!Spec => []P!DatabaseStaysUp
<1>1. P!TypeOK /\ LifeInv => P!DatabaseStaysUp
  BY DEF LifeInv, ReasonInv
<1> QED BY <1>1, LifeInvariant, PTL
=============================================================================
