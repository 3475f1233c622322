-------------------------- MODULE MCRuntimeProvider --------------------------
(* Instances of RuntimeProvider for TLC. *)
EXTENDS RuntimeProvider

\* Every scope a named clear can ask for, the clear of all caches, and names that load
\* nothing.
MCClearScopes == {{p} : p \in Parts} \cup {Parts, {}}
=============================================================================
