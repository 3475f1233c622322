--------------------------- MODULE MCStoreOpening ---------------------------
(* Instances of StoreOpening for TLC. *)
EXTENDS StoreOpening, TLC

CONSTANTS Old, New, Newer

\* An older build that knows one migration, the build of today, and one to come.
MCBuild == (Old :> 1) @@ (New :> 2) @@ (Newer :> 3)

Database(tables, ledger) ==
    [exists |-> TRUE, tables |-> tables, ledger |-> ledger,
     applied |-> [v \in Versions |-> IF \E e \in ledger : e.version = v THEN 1 ELSE 0],
     rows |-> 0, wal |-> FALSE]

Applied(n) == {[version |-> v, checksum |-> "known"] : v \in 1..n}

\* No file, an empty one, a Java database, and with ledgers: a part, complete, of a newer
\* build, with a drifted checksum; a database of something else. What the older build
\* makes of an empty file comes up in the runs.
MCInitial ==
    {NoFile, Database("none", {}), Database("foreign", {})}
      \cup {Database("java", Applied(n)) : n \in 0..3}
      \cup {Database("java", {[version |-> 1, checksum |-> "drifted"]})}
=============================================================================
