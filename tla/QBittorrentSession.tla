-------------------------- MODULE QBittorrentSession --------------------------
(***************************************************************************)
(* The qBittorrent client (internal/downloader/qbittorrent): one session     *)
(* shared by all calls, a login at a time, and one replay after a refusal,   *)
(* while configurations are published.                                      *)
(*                                                                         *)
(* Cookies are numbered in the order in which they are issued. A server may  *)
(* refuse any cookie at any time. Each revision stands for a server of its   *)
(* own. What RuntimeProvider shows of revisions is used: one revision is one *)
(* configuration.                                                           *)
(***************************************************************************)
EXTENDS Naturals, Sequences

CONSTANTS
    Callers,       \* the goroutines that call the client
    None,          \* nobody
    MaxRevision,   \* bound: publications of a configuration
    MaxCookies     \* bound: cookies issued

ASSUME CallersAssumption == None \notin Callers
ASSUME BoundsAssumption == MaxRevision \in Nat \ {0} /\ MaxCookies \in Nat

\* Login; Files; Rename and RenameFile.
Ops == {"login", "read", "mutate"}

VARIABLES
    revision,    \* Snapshot().QBittorrentRevision
    usable,      \* the published configuration passes the checks of currentConfig
    session,     \* Client.session; cookie 0 is the empty one
    loginMu,     \* the holder of Client.loginMu
    pc,          \* what each caller is doing
    local,       \* its call (op), the function that called login (by), the revision of
                 \* its configuration (cfg), the session it sends or has just received
                 \* (saved), whether it has been refused (attempt), and how often the
                 \* server has applied it (history: applied)
    issued,      \* history: the server of each cookie
    fresh        \* history: the last cookie issued has not been refused

configVars == <<revision, usable>>
historyVars == <<issued, fresh>>
vars == <<configVars, session, loginMu, pc, local, historyVars>>

NoSession == [cookie |-> 0, revision |-> 0]

NoCall == [op |-> "login", by |-> "Login", cfg |-> 0, saved |-> NoSession, attempt |-> 0,
           applied |-> 0]

Init ==
    /\ revision = 1
    /\ usable \in BOOLEAN
    /\ session = NoSession
    /\ loginMu = None
    /\ pc = [c \in Callers |-> "idle"]
    /\ local = [c \in Callers |-> NoCall]
    /\ issued = <<>>
    /\ fresh = FALSE

\* A publication of the configuration moves the revision (RuntimeProvider).
Publish ==
    /\ revision < MaxRevision
    /\ revision' = revision + 1
    /\ usable' \in BOOLEAN
    /\ UNCHANGED <<session, loginMu, pc, local, historyVars>>

Goto(c, l) == pc' = [pc EXCEPT ![c] = l]

Unlock(c) == loginMu' = IF loginMu = c THEN None ELSE loginMu

\* A call returns, and its deferred Unlock runs.
Return(c) ==
    /\ Goto(c, "idle")
    /\ local' = [local EXCEPT ![c] = NoCall]
    /\ Unlock(c)

\* The session is for this configuration.
Serves(s, r) == s.cookie # 0 /\ s.revision = r

-----------------------------------------------------------------------------
(* Calls, and the session they use                                          *)

\* Login, Files, Rename and RenameFile, once their arguments are found valid.
Begin(c, o) ==
    /\ pc[c] = "idle"
    /\ local' = [local EXCEPT ![c].op = o]
    /\ Goto(c, IF o = "login" THEN "lock" ELSE "config")
    /\ UNCHANGED <<configVars, session, loginMu, historyVars>>

\* currentConfig: the caller goes on with the published configuration, or returns
\* ErrInvalidConfig.
Capture(c, l) ==
    \/ /\ usable
       /\ local' = [local EXCEPT ![c].cfg = revision]
       /\ Goto(c, l)
       /\ UNCHANGED loginMu
    \/ /\ ~usable
       /\ Return(c)

\* sessionFor begins with the configuration.
ReadConfig(c) ==
    /\ pc[c] = "config"
    /\ Capture(c, "session")
    /\ UNCHANGED <<configVars, session, historyVars>>

\* The shared session is used if it is for this configuration.
ReadSession(c) ==
    /\ pc[c] = "session"
    /\ \/ /\ Serves(session, local[c].cfg)
          /\ local' = [local EXCEPT ![c].saved = session]
          /\ Goto(c, "sending")
       \/ /\ ~Serves(session, local[c].cfg)
          /\ local' = [local EXCEPT ![c].by = "sessionFor"]
          /\ Goto(c, "lock")
    /\ UNCHANGED <<configVars, session, loginMu, historyVars>>

\* login has returned to sessionFor, which still holds loginMu.
ReadConfigAgain(c) ==
    /\ pc[c] = "relock"
    /\ Capture(c, "resession")
    /\ UNCHANGED <<configVars, session, historyVars>>

\* Mutant: whatever session there is is taken.
ReadAnySession(c) ==
    /\ pc[c] = "resession"
    /\ \/ /\ session.cookie # 0
          /\ local' = [local EXCEPT ![c].saved = session]
          /\ Goto(c, "sending")
          /\ Unlock(c)
       \/ /\ session.cookie = 0
          /\ Return(c)
    /\ UNCHANGED <<configVars, session, historyVars>>

\* The session may have been dropped, or the configuration replaced, since login
\* saved it: ErrAuthentication.
ReadSessionAgain(c) ==
    /\ pc[c] = "resession"
    /\ \/ /\ Serves(session, local[c].cfg)
          /\ local' = [local EXCEPT ![c].saved = session]
          /\ Goto(c, "sending")
          /\ Unlock(c)
       \/ /\ ~Serves(session, local[c].cfg)
          /\ Return(c)
    /\ UNCHANGED <<configVars, session, historyVars>>

-----------------------------------------------------------------------------
(* login                                                                    *)

Lock(c) ==
    /\ pc[c] = "lock"
    /\ loginMu = None
    /\ loginMu' = c
    /\ Goto(c, "login")
    /\ UNCHANGED <<configVars, session, local, historyVars>>

LoginConfig(c) ==
    /\ pc[c] = "login"
    /\ Capture(c, "reuse")
    /\ UNCHANGED <<configVars, session, historyVars>>

\* login returns nil to Login, which returns.
ToLogin(c) ==
    /\ local[c].by = "Login"
    /\ Return(c)

\* Mutant: sessionFor keeps the mutex when a caller has been refused.
ToCallKeepingLock(c) ==
    /\ local[c].by # "Login"
    /\ Goto(c, IF local[c].by = "sessionFor" THEN "relock" ELSE "config")
    /\ UNCHANGED <<loginMu, local>>

\* login returns nil to sessionFor, which goes on with the mutex, or to a caller that
\* has been refused, which unlocks it and tries again.
ToCall(c) ==
    \/ /\ local[c].by = "sessionFor"
       /\ Goto(c, "relock")
       /\ UNCHANGED <<loginMu, local>>
    \/ /\ local[c].by = "replay"
       /\ Goto(c, "config")
       /\ Unlock(c)
       /\ UNCHANGED local

\* Mutant: the session that another call has saved meanwhile is not looked at.
CannotReuse(c) == FALSE

\* A call makes do with a session that another has saved meanwhile; Login does not.
CanReuse(c) == local[c].by # "Login" /\ Serves(session, local[c].cfg)

Reuse(c) ==
    /\ pc[c] = "reuse"
    /\ CanReuse(c)
    /\ ToCall(c)
    /\ UNCHANGED <<configVars, session, historyVars>>

Post(c) ==
    /\ pc[c] = "reuse"
    /\ ~CanReuse(c)
    /\ Goto(c, "posting")
    /\ UNCHANGED <<configVars, session, loginMu, local, historyVars>>

\* The server of the captured configuration issues a cookie.
LoginAnswered(c) ==
    /\ pc[c] = "posting"
    /\ Len(issued) < MaxCookies
    /\ issued' = Append(issued, local[c].cfg)
    /\ fresh' = TRUE
    /\ local' = [local EXCEPT ![c].saved = [cookie |-> Len(issued) + 1,
                                            revision |-> local[c].cfg]]
    /\ Goto(c, "posted")
    /\ UNCHANGED <<configVars, session, loginMu>>

\* The request fails, times out, is redirected or rejected, or brings no cookie.
LoginFails(c) ==
    /\ pc[c] = "posting"
    /\ Return(c)
    /\ UNCHANGED <<configVars, session, historyVars>>

\* The login is for nothing if another configuration has been published meanwhile.
CheckLogin(c) ==
    /\ pc[c] = "posted"
    /\ \/ usable /\ Goto(c, IF revision = local[c].cfg THEN "saving" ELSE "login")
                 /\ UNCHANGED <<loginMu, local>>
       \/ ~usable /\ Return(c)
    /\ UNCHANGED <<configVars, session, historyVars>>

SaveSession(c) ==
    /\ pc[c] = "saving"
    /\ session' = local[c].saved
    /\ ToLogin(c) \/ ToCall(c)
    /\ UNCHANGED <<configVars, historyVars>>

-----------------------------------------------------------------------------
(* The request and its replay                                               *)

\* A mutation begins under the mutex of the provider and only at its revision;
\* ErrConfigChanged otherwise. A query begins at once.
Admitted(c) == local[c].op = "mutate" => revision = local[c].cfg

Send(c) ==
    /\ pc[c] = "sending"
    /\ \/ Admitted(c) /\ Goto(c, "waiting") /\ UNCHANGED <<loginMu, local>>
       \/ ~Admitted(c) /\ Return(c)
    /\ UNCHANGED <<configVars, session, historyVars>>

\* The server does what it is asked to.
Apply(c) ==
    /\ pc[c] = "waiting"
    /\ local' = [local EXCEPT ![c].applied = @ + 1]
    /\ Goto(c, "applied")
    /\ UNCHANGED <<configVars, session, loginMu, historyVars>>

\* Mutant: a request without an answer is repeated.
AnsweredRepeats(c) ==
    /\ pc[c] \in {"waiting", "applied"}
    /\ local[c].attempt = 0
    /\ local' = [local EXCEPT ![c].attempt = 1]
    /\ Goto(c, "config")
    /\ UNCHANGED <<configVars, session, loginMu, historyVars>>

\* The call ends with an answer that is no refusal, without one, or with the caller's
\* context: the server may have applied the request or not.
Answered(c) ==
    /\ pc[c] \in {"waiting", "applied"}
    /\ Return(c)
    /\ UNCHANGED <<configVars, session, historyVars>>

\* 401 or 403: nothing is applied.
Refuse(c) ==
    /\ pc[c] = "waiting"
    /\ fresh' = (fresh /\ local[c].saved.cookie # Len(issued))
    /\ Goto(c, "refused")
    /\ UNCHANGED <<configVars, session, loginMu, local, issued>>

\* Only the session that was refused is dropped.
Drop(c) == session' = IF session = local[c].saved THEN NoSession ELSE session

\* The first refusal leads to a login and a replay, the second is final.
Replay(c) ==
    /\ pc[c] = "refused"
    /\ Drop(c)
    /\ \/ /\ local[c].attempt = 0
          /\ local' = [local EXCEPT ![c].attempt = 1, ![c].by = "replay"]
          /\ Goto(c, "lock")
          /\ UNCHANGED loginMu
       \/ /\ local[c].attempt = 1
          /\ Return(c)
    /\ UNCHANGED <<configVars, historyVars>>

-----------------------------------------------------------------------------
\* What a caller does by itself.
Step(c) ==
    \/ ReadConfig(c)
    \/ ReadSession(c)
    \/ ReadConfigAgain(c)
    \/ ReadSessionAgain(c)
    \/ LoginConfig(c)
    \/ Reuse(c)
    \/ Post(c)
    \/ LoginAnswered(c)
    \/ LoginFails(c)
    \/ CheckLogin(c)
    \/ SaveSession(c)
    \/ Send(c)
    \/ Apply(c)
    \/ Answered(c)
    \/ Refuse(c)
    \/ Replay(c)

Next ==
    \/ Publish
    \/ \E c \in Callers :
          \/ \E o \in Ops : Begin(c, o)
          \/ Lock(c)
          \/ Step(c)

Spec == Init /\ [][Next]_vars

\* Requests have a timeout, so that a caller always goes on, and a mutex is handed to
\* the one that has waited longest. Publications end at MaxRevision: a login that
\* always finds another configuration published would be repeated for ever.
Fairness == \A c \in Callers : WF_vars(Step(c)) /\ SF_vars(Lock(c))

FairSpec == Spec /\ Fairness

-----------------------------------------------------------------------------
Labels == {"idle", "config", "session", "lock", "login", "reuse", "posting", "posted",
           "saving", "relock", "resession", "sending", "waiting", "applied", "refused"}

Sessions == [cookie : 0..MaxCookies, revision : 0..MaxRevision]

Calls == [op : Ops, by : {"Login", "sessionFor", "replay"}, cfg : 0..MaxRevision,
          saved : Sessions, attempt : 0..1, applied : Nat]

\* Every variable has its type.
TypeOK ==
    /\ revision \in 1..MaxRevision
    /\ usable \in BOOLEAN
    /\ session \in Sessions
    /\ loginMu \in Callers \cup {None}
    /\ pc \in [Callers -> Labels]
    /\ local \in [Callers -> Calls]
    /\ issued \in Seq(0..MaxRevision)
    /\ Len(issued) <= MaxCookies
    /\ fresh \in BOOLEAN

\* A cookie is only ever sent to the server that has issued it, whatever is published
\* and whoever logs in between the reading of the configuration and the request
\* (client.go sessionFor, login).
CookieStaysHome ==
    \A c \in Callers :
        pc[c] \in {"sending", "waiting"} =>
            /\ local[c].saved.cookie \in 1..Len(issued)
            /\ issued[local[c].saved.cookie] = local[c].cfg

\* Calls share a login: a call only logs in again at a server if the last cookie this
\* server has issued was refused. A late refusal of an older cookie does not count
\* (client.go login, mutation.go and operations.go authenticated).
LoginIsShared ==
    [][\A c \in Callers :
          /\ pc[c] = "posting" /\ pc'[c] = "posted"
          /\ local[c].by # "Login"
          /\ fresh
          => issued[Len(issued)] # local[c].cfg]_vars

\* A request is repeated only if the server has refused it: a rename is applied at
\* most once per call (mutation.go authenticatedMutation).
AppliedAtMostOnce == \A c \in Callers : local[c].applied <= 1

\* Every call returns: nobody keeps loginMu, and a login is not repeated for ever.
CallsReturn == \A c \in Callers : pc[c] # "idle" ~> pc[c] = "idle"

=============================================================================
