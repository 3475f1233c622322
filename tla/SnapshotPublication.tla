------------------------- MODULE SnapshotPublication -------------------------
(***************************************************************************)
(* What internal/runtime promises to the code that reads snapshots: one     *)
(* atomic view of the database that only moves forward, with a revision     *)
(* per consumer that moves exactly when the consumer's data is republished. *)
(***************************************************************************)
EXTENDS Naturals

CONSTANTS
    Parts,       \* the parts of the view
    Revisions,   \* the consumers of the view
    Covers       \* the parts each consumer depends on

VARIABLES
    rows,        \* committed version of each part
    view,        \* published version of each part
    revision     \* published revision of each consumer

vars == <<rows, view, revision>>

Init ==
    /\ rows \in [Parts -> Nat]
    /\ view = rows
    /\ revision \in [Revisions -> Nat]

\* Some transaction commits one part.
Commit ==
    /\ \E p \in Parts : rows' = [rows EXCEPT ![p] = @ + 1]
    /\ UNCHANGED <<view, revision>>

\* The parts in S are republished at once, each from a committed version that is
\* not older than the published one; every consumer of one of them is told.
Publish(S) ==
    /\ view' \in [Parts -> Nat]
    /\ \A p \in S : view[p] <= view'[p] /\ view'[p] <= rows[p]
    /\ \A p \in Parts \ S : view'[p] = view[p]
    /\ revision' \in [Revisions -> Nat]
    /\ \A r \in Revisions :
          IF Covers[r] \cap S = {}
          THEN revision'[r] = revision[r]
          ELSE revision'[r] > revision[r]
    /\ UNCHANGED rows

Next == Commit \/ \E S \in SUBSET Parts : Publish(S)

Spec == Init /\ [][Next]_vars
=============================================================================
