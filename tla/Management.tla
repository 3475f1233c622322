----------------------------- MODULE Management -----------------------------
(***************************************************************************)
(* The management API: sessions of operators and the rules they look after. *)
(* The two share no state but the database, in which they have tables of    *)
(* their own, so they are looked at one at a time.                          *)
(***************************************************************************)
EXTENDS Naturals, Sequences, FiniteSets

CONSTANTS
    Requests, Job, Ids, primaryID, Contents, Configured, ALL, AuthorLists, Remote,
    Clients, Tokens, Lifetime, Limit, MaxTime, Names, Passwords, Nothing

ASSUME IdsAssumption == primaryID \in Ids
ASSUME JobAssumption == Job \notin Requests
ASSUME LifetimeAssumption == Lifetime \in Nat \ {0}
ASSUME TimeAssumption == MaxTime \in Nat
ASSUME LimitAssumption == Limit \in Nat \ {0}

VARIABLES
    traffic,   \* which of the two is looked at
    rows, published, actor, refreshFailed, off,
    now, user, expiry, entries, client, loggedOut, lost

Rules == INSTANCE RuleManagement
Users == INSTANCE Sessions

rulesVars == <<rows, published, actor, refreshFailed, off>>
usersVars == <<now, user, expiry, entries, client, loggedOut, lost>>

vars == <<traffic, rulesVars, usersVars>>

Init ==
    /\ traffic \in {"rules", "users"}
    /\ Rules!Init
    /\ Users!Init
    /\ traffic = "rules" => user = CHOOSE u \in Users!InitialUsers : TRUE
    /\ traffic = "users" => rows = CHOOSE r \in Rules!InitialRows : TRUE

RulesNext ==
    /\ traffic = "rules"
    /\ Rules!Next
    /\ UNCHANGED <<traffic, usersVars>>

UsersNext ==
    /\ traffic = "users"
    /\ Users!Next
    /\ UNCHANGED <<traffic, rulesVars>>

Next == RulesNext \/ UsersNext

Spec == Init /\ [][Next]_vars

\* The properties of both, as the parts state them (RuleManagement, Sessions).
DisabledStaysOff == Rules!DisabledStaysOff
CommittedRulesAreServed == Rules!CommittedRulesAreServed
LoggedOutStaysOut == Users!LoggedOutStaysOut
=============================================================================
