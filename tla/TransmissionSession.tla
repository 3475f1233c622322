-------------------------- MODULE TransmissionSession --------------------------
(***************************************************************************)
(* The Transmission client (internal/downloader/transmission): a session     *)
(* identifier that all calls share, learnt from a 409 answer and replaced by *)
(* compare-and-swap, one replay, and a rename that looks the torrent up and  *)
(* changes it with one captured configuration.                              *)
(*                                                                         *)
(* Identifiers are numbered in the order in which servers make them up. Each *)
(* revision stands for a server of its own, which renews its identifier when *)
(* it likes. A call that finds the published configuration invalid returns   *)
(* before it does anything, and is left out.                                *)
(***************************************************************************)
EXTENDS Naturals, Sequences

CONSTANTS
    Callers,       \* the goroutines that call the client
    MaxRevision,   \* bound: publications of a configuration
    MaxIds         \* bound: identifiers made up by servers

ASSUME BoundsAssumption == MaxRevision \in Nat \ {0} /\ MaxIds \in Nat

\* Login, Torrent, Name and Files; Rename and RenameFile.
Ops == {"query", "rename"}

VARIABLES
    revision,    \* Snapshot().TransmissionRevision
    session,     \* Client.session; identifier 0 is the empty one
    server,      \* the identifier that the server of each revision accepts
    home,        \* history: the server of each identifier
    pc,          \* what each caller is doing
    local        \* its call (op), the request it is at (request), the revision of its
                 \* configuration (cfg), the session it sends (saved), the identifier in
                 \* the 409 answer (challenge), whether this is the replay (replayed), and
                 \* how often the server has applied its mutation (history: applied)

vars == <<revision, session, server, home, pc, local>>

NoSession == [id |-> 0, revision |-> 0]

NoCall == [op |-> "query", request |-> "query", cfg |-> 0, saved |-> NoSession,
           challenge |-> 0, replayed |-> FALSE, applied |-> 0]

Init ==
    /\ revision = 1
    /\ session = NoSession
    /\ server = [r \in 1..MaxRevision |-> r]
    /\ home = [r \in 1..MaxRevision |-> r]
    /\ pc = [c \in Callers |-> "idle"]
    /\ local = [c \in Callers |-> NoCall]

\* A publication of the configuration moves the revision (RuntimeProvider).
Publish ==
    /\ revision < MaxRevision
    /\ revision' = revision + 1
    /\ UNCHANGED <<session, server, home, pc, local>>

\* A server makes up another identifier.
Renew(r) ==
    /\ Len(home) < MaxIds
    /\ home' = Append(home, r)
    /\ server' = [server EXCEPT ![r] = Len(home) + 1]
    /\ UNCHANGED <<revision, session, pc, local>>

Goto(c, l) == pc' = [pc EXCEPT ![c] = l]

Return(c) ==
    /\ Goto(c, "idle")
    /\ local' = [local EXCEPT ![c] = NoCall]

-----------------------------------------------------------------------------
(* A call captures the configuration once, for all of its requests.         *)

Begin(c, o) ==
    /\ pc[c] = "idle"
    /\ local' = [local EXCEPT ![c].op = o, ![c].cfg = revision]
    /\ Goto(c, "session")
    /\ UNCHANGED <<revision, session, server, home>>

\* Mutant: the shared session is used whatever configuration it is for.
AnySession(r) == session

\* The shared session, if it is for this configuration.
SessionFor(r) == IF session.revision = r THEN session ELSE NoSession

ReadSession(c) ==
    /\ pc[c] = "session"
    /\ local' = [local EXCEPT ![c].saved = SessionFor(local[c].cfg)]
    /\ Goto(c, "sending")
    /\ UNCHANGED <<revision, session, server, home>>

\* A mutation, and its replay, begin under the mutex of the provider and only at its
\* revision; ErrConfigChanged otherwise. A query begins at once.
Admitted(c) == local[c].request = "mutation" => revision = local[c].cfg

Send(c) ==
    /\ pc[c] = "sending"
    /\ \/ Admitted(c) /\ Goto(c, "waiting") /\ UNCHANGED local
       \/ ~Admitted(c) /\ Return(c)
    /\ UNCHANGED <<revision, session, server, home>>

\* The server of the captured configuration knows the identifier.
Apply(c) ==
    /\ pc[c] = "waiting"
    /\ local[c].saved.id = server[local[c].cfg]
    /\ IF local[c].request = "mutation"
       THEN local' = [local EXCEPT ![c].applied = @ + 1]
       ELSE UNCHANGED local
    /\ Goto(c, "answered")
    /\ UNCHANGED <<revision, session, server, home>>

\* The torrent of a rename has been found, and its name is to be changed: the mutation
\* is sent with the configuration of the query.
Mutate(c) ==
    /\ pc[c] = "answered"
    /\ local[c].op = "rename" /\ local[c].request = "query"
    /\ local' = [local EXCEPT ![c].request = "mutation", ![c].saved = NoSession,
                              ![c].challenge = 0, ![c].replayed = FALSE]
    /\ Goto(c, "session")
    /\ UNCHANGED <<revision, session, server, home>>

\* Mutant: a mutation that was not answered is repeated.
AnsweredRepeats(c) ==
    /\ pc[c] \in {"waiting", "answered"}
    /\ ~local[c].replayed
    /\ local' = [local EXCEPT ![c].replayed = TRUE]
    /\ Goto(c, "sending")
    /\ UNCHANGED <<revision, session, server, home>>

\* The call ends with an answer, with an error, or with the caller's context: the
\* server may have applied the request or not.
Answered(c) ==
    /\ pc[c] \in {"waiting", "answered"}
    /\ Return(c)
    /\ UNCHANGED <<revision, session, server, home>>

-----------------------------------------------------------------------------
(* The answer 409 and the replay                                            *)

\* The first 409 carries the identifier to use, the second ends the call.
Conflict(c) ==
    /\ pc[c] = "waiting"
    /\ local[c].saved.id # server[local[c].cfg]
    /\ \/ /\ ~local[c].replayed
          /\ local' = [local EXCEPT ![c].challenge = server[local[c].cfg]]
          /\ Goto(c, "challenged")
       \/ /\ local[c].replayed
          /\ Return(c)
    /\ UNCHANGED <<revision, session, server, home>>

\* A query looks at the configuration before it is replayed; ErrConfigChanged if it has
\* been replaced. A mutation leaves that to its admission.
CheckConfig(c) ==
    /\ pc[c] = "challenged"
    /\ \/ /\ local[c].request = "query" => revision = local[c].cfg
          /\ Goto(c, "swapping")
          /\ UNCHANGED local
       \/ /\ local[c].request = "query" /\ revision # local[c].cfg
          /\ Return(c)
    /\ UNCHANGED <<revision, session, server, home>>

\* Mutant: an answer for the same configuration always replaces the session.
SwapSameRevision(current, next) ==
    IF session = current \/ session.revision <= next.revision THEN next ELSE session

\* Client.session after compareAndSwapSession.
CompareAndSwap(current, next) ==
    IF session = current \/ session.revision < next.revision THEN next ELSE session

\* Whether the swap has succeeded or not, the replay carries the identifier received.
Swap(c) ==
    LET next == [id |-> local[c].challenge, revision |-> local[c].cfg] IN
    /\ pc[c] = "swapping"
    /\ session' = CompareAndSwap(local[c].saved, next)
    /\ local' = [local EXCEPT ![c].saved = next, ![c].replayed = TRUE]
    /\ Goto(c, "sending")
    /\ UNCHANGED <<revision, server, home>>

-----------------------------------------------------------------------------
Step(c) ==
    \/ ReadSession(c)
    \/ Send(c)
    \/ Apply(c)
    \/ Mutate(c)
    \/ Answered(c)
    \/ Conflict(c)
    \/ CheckConfig(c)
    \/ Swap(c)

Next ==
    \/ Publish
    \/ \E r \in 1..MaxRevision : Renew(r)
    \/ \E c \in Callers :
          \/ \E o \in Ops : Begin(c, o)
          \/ Step(c)

Spec == Init /\ [][Next]_vars

-----------------------------------------------------------------------------
Sessions == [id : Nat, revision : 0..MaxRevision]

Calls == [op : Ops, request : {"query", "mutation"}, cfg : 0..MaxRevision,
          saved : Sessions, challenge : Nat, replayed : BOOLEAN, applied : Nat]

\* Every variable has its type, and a call has a configuration throughout.
TypeOK ==
    /\ revision \in 1..MaxRevision
    /\ session \in Sessions
    /\ server \in [1..MaxRevision -> Nat]
    /\ home \in Seq(1..MaxRevision)
    /\ pc \in [Callers -> {"idle", "session", "sending", "waiting", "answered",
                           "challenged", "swapping"}]
    /\ local \in [Callers -> Calls]
    /\ \A c \in Callers : pc[c] # "idle" => local[c].cfg # 0

\* An identifier is only ever sent to the server that has made it up, whatever is
\* published and whichever calls replace the session in between (client.go sessionFor,
\* compareAndSwapSession).
IdStaysHome ==
    \A c \in Callers :
        pc[c] \in {"sending", "waiting"} /\ local[c].saved.id # 0 =>
            home[local[c].saved.id] = local[c].cfg

\* An answer that comes late never takes the session back: neither to an older
\* configuration nor to an older identifier of the same server (client.go
\* compareAndSwapSession).
SessionMovesForward ==
    [][ \/ session'.revision > session.revision
        \/ session'.revision = session.revision /\ session'.id >= session.id ]_vars

\* A rename is applied at most once per call: it is repeated only after a 409, and
\* only once (mutation.go callMutation).
AppliedAtMostOnce == \A c \in Callers : local[c].applied <= 1

=============================================================================
