------------------------------ MODULE Sessions ------------------------------
(***************************************************************************)
(* The user of the management API and its tokens: internal/api/user over    *)
(* internal/auth. A login reads the user, upgrades a password that Java     *)
(* stored, and issues a token; other requests are let in by Require, which  *)
(* verifies the token, and go on while time passes. Logout puts the token   *)
(* on a list of bounded length, which a restart of the process empties.     *)
(***************************************************************************)
EXTENDS Naturals, FiniteSets

CONSTANTS
    Clients,
    Tokens,     \* bound: tokens issued
    Lifetime,   \* JPROXY_TOKEN_EXPIRES_MINUTES
    Limit,      \* tokens the list has room for
    MaxTime,    \* bound: the clock
    Names, Passwords,
    Nothing

VARIABLES
    now,      \* time.Now
    user,     \* the row of system_user
    expiry,   \* [tokens issued -> their exp]
    entries,  \* [tokens on the list of revocations -> their exp]
    client,   \* [Clients -> locals of its request]
    loggedOut, \* history: tokens whose logout was answered
    lost      \* history: tokens dropped from a full list or by a restart, and not put back

vars == <<now, user, expiry, entries, client, loggedOut, lost>>

Local(at, token, row) == [at |-> at, token |-> token, row |-> row, wants |-> Nothing]

Quiet == Local("idle", Nothing, Nothing)

Row(name, password, legacy) == [name |-> name, password |-> password, legacy |-> legacy]

InitialUsers == {Row(n, p, legacy) : n \in Names, p \in Passwords, legacy \in BOOLEAN}

Init ==
    /\ now = 1
    /\ user \in InitialUsers
    /\ expiry = <<>>
    /\ entries = <<>>
    /\ client = [c \in Clients |-> Quiet]
    /\ loggedOut = {}
    /\ lost = {}

At(c, place) == client[c].at = place

Becomes(c, local) == client' = [client EXCEPT ![c] = local]

Keep(f, keys) == [k \in keys |-> f[k]]

\* Mutant: a token leaves the list one tick before it expires.
CleanEarly(list) == Keep(list, {t \in DOMAIN list : list[t] > now + 1})

\* clean: before every look at the list, and every change of it.
Clean(list) == Keep(list, {t \in DOMAIN list : list[t] > now})

\* contains cleans the list, too.
contains(t) == t \in DOMAIN Clean(entries)

\* Manager.Verify.
Verify(t) == expiry[t] > now /\ ~contains(t)

-----------------------------------------------------------------------------
(* login.                                                                   *)

\* FindByUsername and validCredentials: wrong ones are answered with 401.
Find(c) ==
    /\ At(c, "idle")
    /\ \E n \in Names, p \in Passwords :
          /\ user.name = n /\ user.password = p
          /\ Becomes(c, Local(IF user.legacy THEN "upgrade" ELSE "issue", Nothing, user))
    /\ UNCHANGED <<now, user, expiry, entries, loggedOut, lost>>

\* The row that was read goes back with the password hashed anew, whatever has been
\* stored since; login fails if the Upsert does.
Upgrade(c) ==
    /\ At(c, "upgrade")
    /\ \/ /\ user' = [client[c].row EXCEPT !.legacy = FALSE]
          /\ Becomes(c, [client[c] EXCEPT !.at = "issue"])
       \/ UNCHANGED user /\ Becomes(c, Quiet)
    /\ UNCHANGED <<now, expiry, entries, loggedOut, lost>>

Issue(c) ==
    /\ At(c, "issue")
    /\ \E t \in Tokens \ DOMAIN expiry :
          expiry' = [s \in DOMAIN expiry \cup {t} |-> IF s = t THEN now + Lifetime ELSE expiry[s]]
    /\ Becomes(c, Quiet)
    /\ UNCHANGED <<now, user, entries, loggedOut, lost>>

-----------------------------------------------------------------------------
(* Requests behind Require.                                                 *)

Require(c) ==
    /\ At(c, "idle")
    /\ \E t \in DOMAIN expiry, place \in {"get", "revoke"} :
          /\ Verify(t)
          /\ Becomes(c, Local(place, t, Nothing))
    /\ entries' = Clean(entries)
    /\ UNCHANGED <<now, user, expiry, loggedOut, lost>>

\* The rows that an update may ask for: another name, or password, or both.
Updates(row) ==
    {[row EXCEPT !.name = n] : n \in Names}
      \cup {Row(n, p, FALSE) : n \in Names, p \in Passwords}

\* update: Get, then Upsert of the whole row.
Get(c) ==
    /\ At(c, "get")
    /\ \E new \in Updates(user) :
          Becomes(c, [client[c] EXCEPT !.at = "upsert", !.row = user, !.wants = new])
    /\ UNCHANGED <<now, user, expiry, entries, loggedOut, lost>>

Upsert(c) ==
    /\ At(c, "upsert")
    /\ user' \in {user, client[c].wants}
    /\ Becomes(c, Quiet)
    /\ UNCHANGED <<now, expiry, entries, loggedOut, lost>>

\* A full list loses one of those that expire first; the map is ranged over in any order.
Evictions(list) ==
    IF Cardinality(DOMAIN list) < Limit THEN {{}}
    ELSE {{t} : t \in {u \in DOMAIN list : \A s \in DOMAIN list : list[u] <= list[s]}}

\* logout: the claims are those that Require put into the context, and may have expired.
Revoke(c) ==
    /\ At(c, "revoke")
    /\ LET t    == client[c].token
           list == Clean(entries)
       IN  \E evicted \in Evictions(list) :
              /\ entries' = [s \in (DOMAIN list \ evicted) \cup {t} |-> expiry[s]]
              /\ lost' = (lost \cup evicted) \ {t}
              /\ loggedOut' = loggedOut \cup {t}
    /\ Becomes(c, Quiet)
    /\ UNCHANGED <<now, user, expiry>>

-----------------------------------------------------------------------------
(* The world around.                                                        *)

Tick ==
    /\ now < MaxTime
    /\ now' = now + 1
    /\ UNCHANGED <<user, expiry, entries, client, loggedOut, lost>>

\* Tokens signed with the configured secret outlive the process, the list does not.
RestartProcess ==
    /\ entries' = <<>>
    /\ lost' = lost \cup DOMAIN entries
    /\ client' = [c \in Clients |-> Quiet]
    /\ UNCHANGED <<now, user, expiry, loggedOut>>

Next ==
    \/ \E c \in Clients :
          Find(c) \/ Upgrade(c) \/ Issue(c) \/ Require(c) \/ Get(c) \/ Upsert(c) \/ Revoke(c)
    \/ Tick \/ RestartProcess

Spec == Init /\ [][Next]_vars

-----------------------------------------------------------------------------
(* Properties.                                                              *)

\* A token whose logout was answered lets nobody in again, up to the second in which it
\* expires by itself, unless the list lost it: nothing else, the cleaning of the list
\* included, takes a token from it too early (add, contains, clean, Verify).
LoggedOutStaysOut == \A t \in loggedOut \ lost : ~Verify(t)
=============================================================================
