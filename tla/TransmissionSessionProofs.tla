----------------------- MODULE TransmissionSessionProofs -----------------------
(***************************************************************************)
(* Proofs about the Transmission client, for any number of calls and any     *)
(* bounds.                                                                  *)
(***************************************************************************)
EXTENDS TransmissionSession, SequenceTheorems, TLAPS

-----------------------------------------------------------------------------
(* The inductive invariant.                                                 *)

\* The server of revision r has made up the identifier i.
MadeBy(i, r) == i \in 1..Len(home) /\ home[i] = r

\* Each server accepts the last identifier that it has made up.
ServerInv ==
    /\ \A r \in 1..MaxRevision : MadeBy(server[r], r)
    /\ \A i \in 1..Len(home) : i <= server[home[i]]

\* The shared session is labelled with the server of its identifier.
SessionInv == session.id # 0 => MadeBy(session.id, session.revision)

\* What a call sends and has received is from its own server, and what it has received
\* is at least as new as what it has sent.
CallInv(c) ==
    /\ pc[c] \in {"sending", "waiting", "challenged", "swapping"} =>
          /\ local[c].saved.id # 0 => MadeBy(local[c].saved.id, local[c].cfg)
          /\ local[c].saved.revision = local[c].cfg \/ local[c].saved = NoSession
    /\ pc[c] \in {"challenged", "swapping"} =>
          /\ MadeBy(local[c].challenge, local[c].cfg)
          /\ local[c].saved.id <= local[c].challenge
    /\ local[c].applied # 0 => /\ local[c].applied = 1
                               /\ pc[c] = "answered" /\ local[c].request = "mutation"

IInv == ServerInv /\ SessionInv /\ \A c \in Callers : CallInv(c)

-----------------------------------------------------------------------------
(* What the actions do to the calls.                                        *)

Labels == {"idle", "session", "sending", "waiting", "answered", "challenged", "swapping"}

\* Only the call of c moves; it goes to l and becomes y.
Moves(c, l, y) ==
    /\ y \in Calls
    /\ l # "idle" => y.cfg # 0
    /\ pc' = [pc EXCEPT ![c] = l]
    /\ local' = [local EXCEPT ![c] = y]

\* A call is one of its type, and has captured a configuration when it is not idle.
LEMMA CallType ==
    ASSUME TypeOK, NEW c \in Callers
    PROVE  /\ local[c] \in Calls
           /\ local[c].cfg \in 0..MaxRevision
           /\ pc[c] # "idle" => local[c].cfg \in 1..MaxRevision
           /\ local[c].saved \in Sessions
           /\ local[c].challenge \in Nat
           /\ local[c].applied \in Nat
<1>1. local[c] \in Calls /\ (pc[c] # "idle" => local[c].cfg # 0)
  BY DEF TypeOK
<1>2. /\ local[c].cfg \in 0..MaxRevision /\ local[c].saved \in Sessions
      /\ local[c].challenge \in Nat /\ local[c].applied \in Nat
  BY <1>1 DEF Calls
<1> QED BY <1>1, <1>2, BoundsAssumption

\* The empty call is typed.
LEMMA NoCallType == NoCall \in Calls
  BY BoundsAssumption DEF NoCall, NoSession, Calls, Sessions, Ops

\* A step of one call keeps the types of both functions.
LEMMA MovesKeepTypes ==
    ASSUME TypeOK, NEW c \in Callers, NEW l \in Labels, NEW y, Moves(c, l, y)
    PROVE  /\ pc' \in [Callers -> Labels]
           /\ local' \in [Callers -> Calls]
           /\ \A d \in Callers : pc'[d] # "idle" => local'[d].cfg # 0
           /\ pc'[c] = l /\ local'[c] = y
           /\ \A d \in Callers \ {c} : pc'[d] = pc[d] /\ local'[d] = local[d]
<1>1. /\ pc \in [Callers -> Labels] /\ local \in [Callers -> Calls]
      /\ \A d \in Callers : pc[d] # "idle" => local[d].cfg # 0
  BY DEF TypeOK, Labels
<1>2. /\ y \in Calls /\ (l # "idle" => y.cfg # 0)
      /\ pc' = [pc EXCEPT ![c] = l] /\ local' = [local EXCEPT ![c] = y]
  BY DEF Moves
<1>3. pc' \in [Callers -> Labels] /\ local' \in [Callers -> Calls]
  BY <1>1, <1>2
<1>4. pc'[c] = l /\ local'[c] = y
  BY <1>1, <1>2
<1>5. \A d \in Callers \ {c} : pc'[d] = pc[d] /\ local'[d] = local[d]
  BY <1>1, <1>2
<1> QED BY <1>1, <1>2, <1>3, <1>4, <1>5

\* A call that returns is empty.
LEMMA ReturnMoves ==
    ASSUME NEW c \in Callers, Return(c)
    PROVE  Moves(c, "idle", NoCall)
  BY NoCallType DEF Return, Moves, Goto

\* A step that leaves the locals of a call alone.
LEMMA GotoMoves ==
    ASSUME TypeOK, NEW c \in Callers, NEW l \in Labels, pc[c] # "idle", Goto(c, l), UNCHANGED local
    PROVE  Moves(c, l, local[c])
<1>1. local' = [local EXCEPT ![c] = local[c]]
  BY DEF TypeOK
<1>2. local[c] \in Calls /\ local[c].cfg # 0
  BY CallType
<1>3. pc' = [pc EXCEPT ![c] = l]
  BY DEF Goto
<1> QED BY <1>1, <1>2, <1>3 DEF Moves

\* A call captures the published configuration (config.go currentConfig).
LEMMA BeginMoves ==
    ASSUME TypeOK, NEW c \in Callers, NEW o \in Ops, Begin(c, o)
    PROVE  \E y : /\ Moves(c, "session", y)
                  /\ y.applied = local[c].applied
<1> DEFINE y == [local[c] EXCEPT !.op = o, !.cfg = revision]
<1>1. local[c] \in Calls /\ revision \in 1..MaxRevision
  BY CallType DEF TypeOK
<1>2. revision \in 0..MaxRevision /\ revision # 0
  BY <1>1, BoundsAssumption
<1>3. y \in Calls /\ y.applied = local[c].applied /\ y.cfg = revision
  BY <1>1, <1>2 DEF Calls
<1>4. local' = [local EXCEPT ![c] = y] /\ Goto(c, "session")
  BY DEF Begin
<1> HIDE DEF y
<1>5. Moves(c, "session", y)
  BY <1>2, <1>3, <1>4 DEF Moves, Goto
<1> QED BY <1>3, <1>5

\* A call takes the shared session if it is for its configuration (client.go sessionFor).
LEMMA ReadSessionMoves ==
    ASSUME TypeOK, NEW c \in Callers, ReadSession(c)
    PROVE  \E y : /\ Moves(c, "sending", y)
                  /\ y.saved = SessionFor(local[c].cfg)
                  /\ y.cfg = local[c].cfg /\ y.applied = local[c].applied
<1> DEFINE y == [local[c] EXCEPT !.saved = SessionFor(local[c].cfg)]
<1>1. local[c] \in Calls /\ local[c].cfg # 0
  BY CallType DEF ReadSession
<1>2. SessionFor(local[c].cfg) \in Sessions
  BY BoundsAssumption DEF TypeOK, SessionFor, NoSession, Sessions
<1>3. /\ y \in Calls /\ y.applied = local[c].applied /\ y.cfg = local[c].cfg
      /\ y.saved = SessionFor(local[c].cfg)
  BY <1>1, <1>2 DEF Calls
<1>4. local' = [local EXCEPT ![c] = y]
  BY DEF ReadSession
<1> HIDE DEF y
<1> QED BY <1>1, <1>3, <1>4 DEF Moves, ReadSession, Goto

\* The server applies a mutation, or answers a query.
LEMMA ApplyMoves ==
    ASSUME TypeOK, NEW c \in Callers, Apply(c)
    PROVE  \E y : /\ Moves(c, "answered", y)
                  /\ \/ y.applied = local[c].applied
                     \/ y.applied = local[c].applied + 1 /\ y.request = "mutation"
<1>1. local[c] \in Calls /\ local[c].cfg # 0 /\ local[c].applied \in Nat /\ pc[c] # "idle"
  BY CallType DEF Apply
<1>2. CASE local[c].request = "mutation"
  <2> DEFINE y == [local[c] EXCEPT !.applied = local[c].applied + 1]
  <2>1. /\ y \in Calls /\ y.applied = local[c].applied + 1 /\ y.cfg = local[c].cfg
        /\ y.request = local[c].request
    BY <1>1 DEF Calls
  <2>2. local' = [local EXCEPT ![c] = y]
    BY <1>2 DEF Apply
  <2> HIDE DEF y
  <2> QED BY <1>1, <1>2, <2>1, <2>2 DEF Moves, Apply, Goto
<1>3. CASE local[c].request # "mutation"
  <2>1. Goto(c, "answered") /\ UNCHANGED local
    BY <1>3 DEF Apply
  <2>2. Moves(c, "answered", local[c])
    BY <1>1, <2>1, GotoMoves DEF Labels
  <2> QED BY <2>2
<1> QED BY <1>2, <1>3

\* A rename goes on to its mutation with the same configuration (operations.go).
LEMMA MutateMoves ==
    ASSUME TypeOK, NEW c \in Callers, Mutate(c)
    PROVE  \E y : /\ Moves(c, "session", y)
                  /\ y.applied = local[c].applied
<1> DEFINE y == [local[c] EXCEPT !.request = "mutation", !.saved = NoSession,
                                 !.challenge = 0, !.replayed = FALSE]
<1>1. local[c] \in Calls /\ local[c].cfg # 0
  BY CallType DEF Mutate
<1>2. NoSession \in Sessions
  BY BoundsAssumption DEF NoSession, Sessions
<1>3. y \in Calls /\ y.applied = local[c].applied /\ y.cfg = local[c].cfg
  BY <1>1, <1>2 DEF Calls
<1>4. local' = [local EXCEPT ![c] = y]
  BY DEF Mutate
<1> HIDE DEF y
<1> QED BY <1>1, <1>3, <1>4 DEF Moves, Mutate, Goto

\* The first answer 409 is noted, and the call goes on.
LEMMA ChallengeMoves ==
    ASSUME TypeOK, ServerInv, NEW c \in Callers, Conflict(c), ~local[c].replayed
    PROVE  \E y : /\ Moves(c, "challenged", y)
                  /\ y.challenge = server[local[c].cfg]
                  /\ y.cfg = local[c].cfg /\ y.applied = local[c].applied
                  /\ y.saved = local[c].saved
<1> DEFINE y == [local[c] EXCEPT !.challenge = server[local[c].cfg]]
<1>1. local[c] \in Calls /\ local[c].cfg \in 1..MaxRevision
  BY CallType DEF Conflict
<1>2. server[local[c].cfg] \in Nat
  BY <1>1 DEF TypeOK
<1>3. /\ y \in Calls /\ y.applied = local[c].applied /\ y.cfg = local[c].cfg
      /\ y.challenge = server[local[c].cfg] /\ y.saved = local[c].saved
  BY <1>1, <1>2 DEF Calls
<1>4. local' = [local EXCEPT ![c] = y]
  BY DEF Conflict
<1> HIDE DEF y
<1>5. y.cfg # 0
  BY <1>1, <1>3
<1>6. Goto(c, "challenged")
  BY DEF Conflict
<1> QED BY <1>3, <1>4, <1>5, <1>6 DEF Moves, Goto

\* The replay carries the identifier received (client.go call).
LEMMA SwapMoves ==
    ASSUME TypeOK, NEW c \in Callers, Swap(c)
    PROVE  \E y : /\ Moves(c, "sending", y)
                  /\ y.saved = [id |-> local[c].challenge, revision |-> local[c].cfg]
                  /\ y.cfg = local[c].cfg /\ y.applied = local[c].applied
<1> DEFINE next == [id |-> local[c].challenge, revision |-> local[c].cfg]
<1> DEFINE y == [local[c] EXCEPT !.saved = next, !.replayed = TRUE]
<1>1. /\ local[c] \in Calls /\ local[c].cfg # 0
      /\ local[c].cfg \in 0..MaxRevision /\ local[c].challenge \in Nat
  BY CallType DEF Swap
<1>2. next \in Sessions
  BY <1>1 DEF Sessions
<1>3. local' = [local EXCEPT ![c] = y] /\ Goto(c, "sending")
  BY DEF Swap
<1> HIDE DEF next
<1>4. /\ y \in Calls /\ y.applied = local[c].applied /\ y.cfg = local[c].cfg /\ y.saved = next
  BY <1>1, <1>2 DEF Calls
<1> HIDE DEF y
<1>5. Moves(c, "sending", y)
  BY <1>1, <1>3, <1>4 DEF Moves, Goto
<1> QED BY <1>4, <1>5 DEF next

-----------------------------------------------------------------------------
(* Steps of one call.                                                       *)

\* What a step that moves one call has to show of it: the other calls keep theirs, when
\* no server makes up an identifier.
LEMMA OneCall ==
    ASSUME TypeOK, NEW c \in Callers, NEW l \in Labels, NEW y, Moves(c, l, y),
           \A d \in Callers : CallInv(d), UNCHANGED home,
           l \in {"sending", "waiting", "challenged", "swapping"} =>
               /\ y.saved.id # 0 => MadeBy(y.saved.id, y.cfg)
               /\ y.saved.revision = y.cfg \/ y.saved = NoSession,
           l \in {"challenged", "swapping"} =>
               MadeBy(y.challenge, y.cfg) /\ y.saved.id <= y.challenge,
           y.applied # 0 => y.applied = 1 /\ l = "answered" /\ y.request = "mutation"
    PROVE  \A d \in Callers : CallInv(d)'
<1>1. pc'[c] = l /\ local'[c] = y
  BY MovesKeepTypes
<1>2. \A d \in Callers \ {c} : pc'[d] = pc[d] /\ local'[d] = local[d]
  BY MovesKeepTypes
<1>3. CallInv(c)'
  BY <1>1 DEF CallInv, MadeBy
<1>4. ASSUME NEW d \in Callers \ {c}
      PROVE  CallInv(d)'
  BY <1>2, <1>4 DEF CallInv, MadeBy
<1> QED BY <1>3, <1>4

\* A call that returns has nothing to show.
LEMMA ReturnKeeps ==
    ASSUME TypeOK, NEW c \in Callers, Return(c), \A d \in Callers : CallInv(d), UNCHANGED home
    PROVE  \A d \in Callers : CallInv(d)'
<1>1. Moves(c, "idle", NoCall)
  BY ReturnMoves
<1>2. NoCall.applied = 0
  BY DEF NoCall
<1> QED BY <1>1, <1>2, OneCall DEF Labels

\* A new call has nothing to show.
LEMMA BeginKeeps ==
    ASSUME TypeOK, IInv, NEW c \in Callers, NEW o \in Ops, Begin(c, o)
    PROVE  \A d \in Callers : CallInv(d)'
<1>1. PICK y : Moves(c, "session", y) /\ y.applied = local[c].applied
  BY BeginMoves
<1>2. y.applied = 0
  BY <1>1 DEF Begin, IInv, CallInv
<1> QED BY <1>1, <1>2, OneCall DEF Begin, IInv, Labels

\* The session that is taken was made by the server of the call (client.go sessionFor).
LEMMA ReadSessionKeeps ==
    ASSUME TypeOK, IInv, NEW c \in Callers, ReadSession(c)
    PROVE  \A d \in Callers : CallInv(d)'
<1>1. PICK y : /\ Moves(c, "sending", y)
               /\ y.saved = SessionFor(local[c].cfg)
               /\ y.cfg = local[c].cfg /\ y.applied = local[c].applied
  BY ReadSessionMoves
<1>2. y.applied = 0
  BY <1>1 DEF ReadSession, IInv, CallInv
<1>3. /\ y.saved.id # 0 => MadeBy(y.saved.id, y.cfg)
      /\ y.saved.revision = y.cfg \/ y.saved = NoSession
  BY <1>1 DEF SessionFor, NoSession, IInv, SessionInv
<1> QED BY <1>1, <1>2, <1>3, OneCall DEF ReadSession, IInv, Labels

\* A request is sent with what the call has taken.
LEMMA SendKeeps ==
    ASSUME TypeOK, IInv, NEW c \in Callers, Send(c)
    PROVE  \A d \in Callers : CallInv(d)'
<1>1. CASE Goto(c, "waiting") /\ UNCHANGED local
  <2>1. Moves(c, "waiting", local[c])
    BY <1>1, GotoMoves DEF Send, Labels
  <2>2. /\ local[c].saved.id # 0 => MadeBy(local[c].saved.id, local[c].cfg)
        /\ local[c].saved.revision = local[c].cfg \/ local[c].saved = NoSession
        /\ local[c].applied = 0
    BY DEF Send, IInv, CallInv
  <2> QED BY <2>1, <2>2, OneCall DEF Send, IInv, Labels
<1>2. CASE Return(c)
  BY <1>2, ReturnKeeps DEF Send, IInv
<1> QED BY <1>1, <1>2 DEF Send

\* A mutation is applied once, and the call is then at its end.
LEMMA ApplyKeeps ==
    ASSUME TypeOK, IInv, NEW c \in Callers, Apply(c)
    PROVE  \A d \in Callers : CallInv(d)'
<1>1. PICK y : /\ Moves(c, "answered", y)
               /\ \/ y.applied = local[c].applied
                  \/ y.applied = local[c].applied + 1 /\ y.request = "mutation"
  BY ApplyMoves
<1>2. local[c].applied = 0
  BY DEF Apply, IInv, CallInv
<1>3. y.applied # 0 => y.applied = 1 /\ y.request = "mutation"
  BY <1>1, <1>2
<1> QED BY <1>1, <1>3, OneCall DEF Apply, IInv, Labels

\* Nothing has been applied when the mutation begins.
LEMMA MutateKeeps ==
    ASSUME TypeOK, IInv, NEW c \in Callers, Mutate(c)
    PROVE  \A d \in Callers : CallInv(d)'
<1>1. PICK y : Moves(c, "session", y) /\ y.applied = local[c].applied
  BY MutateMoves
<1>2. y.applied = 0
  BY <1>1 DEF Mutate, IInv, CallInv
<1> QED BY <1>1, <1>2, OneCall DEF Mutate, IInv, Labels

\* The identifier in the answer is the last one of the server, which has made up the
\* one that was sent as well.
LEMMA ConflictKeeps ==
    ASSUME TypeOK, IInv, NEW c \in Callers, Conflict(c)
    PROVE  \A d \in Callers : CallInv(d)'
<1>1. CASE local[c].replayed
  BY <1>1, ReturnKeeps DEF Conflict, IInv
<1>2. CASE ~local[c].replayed
  <2>1. PICK y : /\ Moves(c, "challenged", y)
                 /\ y.challenge = server[local[c].cfg]
                 /\ y.cfg = local[c].cfg /\ y.applied = local[c].applied
                 /\ y.saved = local[c].saved
    BY <1>2, ChallengeMoves DEF IInv
  <2>2. local[c].cfg \in 1..MaxRevision /\ local[c].saved.id \in Nat
    BY CallType DEF Conflict, Sessions
  <2>3. /\ local[c].saved.id # 0 => MadeBy(local[c].saved.id, local[c].cfg)
        /\ local[c].saved.revision = local[c].cfg \/ local[c].saved = NoSession
        /\ local[c].applied = 0
    BY DEF Conflict, IInv, CallInv
  <2>4. MadeBy(server[local[c].cfg], local[c].cfg)
    BY <2>2 DEF IInv, ServerInv
  <2>5. local[c].saved.id <= server[local[c].cfg]
    BY <2>2, <2>3, <2>4 DEF IInv, ServerInv, MadeBy
  <2> QED BY <2>1, <2>3, <2>4, <2>5, OneCall DEF Conflict, IInv, Labels
<1> QED BY <1>1, <1>2

\* The look at the configuration changes nothing (client.go call).
LEMMA CheckConfigKeeps ==
    ASSUME TypeOK, IInv, NEW c \in Callers, CheckConfig(c)
    PROVE  \A d \in Callers : CallInv(d)'
<1>1. CASE Goto(c, "swapping") /\ UNCHANGED local
  <2>1. Moves(c, "swapping", local[c])
    BY <1>1, GotoMoves DEF CheckConfig, Labels
  <2>2. /\ local[c].saved.id # 0 => MadeBy(local[c].saved.id, local[c].cfg)
        /\ local[c].saved.revision = local[c].cfg \/ local[c].saved = NoSession
        /\ MadeBy(local[c].challenge, local[c].cfg)
        /\ local[c].saved.id <= local[c].challenge
        /\ local[c].applied = 0
    BY DEF CheckConfig, IInv, CallInv
  <2> QED BY <2>1, <2>2, OneCall DEF CheckConfig, IInv, Labels
<1>2. CASE Return(c)
  BY <1>2, ReturnKeeps DEF CheckConfig, IInv
<1> QED BY <1>1, <1>2 DEF CheckConfig

\* The session that is swapped in was made by the server of the call (client.go
\* compareAndSwapSession).
LEMMA SwapKeeps ==
    ASSUME TypeOK, IInv, NEW c \in Callers, Swap(c)
    PROVE  (\A d \in Callers : CallInv(d)') /\ SessionInv'
<1> DEFINE next == [id |-> local[c].challenge, revision |-> local[c].cfg]
<1>1. PICK y : /\ Moves(c, "sending", y) /\ y.saved = next
               /\ y.cfg = local[c].cfg /\ y.applied = local[c].applied
  BY SwapMoves
<1>2. MadeBy(local[c].challenge, local[c].cfg) /\ local[c].applied = 0
  BY DEF Swap, IInv, CallInv
<1>3. next.id = local[c].challenge /\ next.revision = local[c].cfg
  OBVIOUS
<1>4. session' = session \/ session' = next
  BY DEF Swap, CompareAndSwap
<1>5. UNCHANGED home
  BY DEF Swap
<1> HIDE DEF next
<1>6. \A d \in Callers : CallInv(d)'
  BY <1>1, <1>2, <1>3, <1>5, OneCall DEF IInv, Labels
<1>7. SessionInv'
  BY <1>2, <1>3, <1>4, <1>5 DEF IInv, SessionInv, MadeBy
<1> QED BY <1>6, <1>7

\* What was made by a server stays so when another identifier is made up.
LEMMA RenewKeeps ==
    ASSUME TypeOK, IInv, NEW r \in 1..MaxRevision, Renew(r)
    PROVE  IInv'
<1>1. /\ home \in Seq(1..MaxRevision) /\ home' = Append(home, r)
      /\ server \in [1..MaxRevision -> Nat]
      /\ server' = [server EXCEPT ![r] = Len(home) + 1]
  BY DEF TypeOK, Renew
<1>2. /\ Len(home') = Len(home) + 1 /\ home'[Len(home) + 1] = r /\ Len(home) \in Nat
      /\ \A i \in 1..Len(home) : home'[i] = home[i]
  BY <1>1
<1>3. ASSUME NEW i, NEW s, MadeBy(i, s)
      PROVE  i \in 1..Len(home') /\ home'[i] = s
  BY <1>2, <1>3 DEF MadeBy
<1>4. /\ server'[r] = Len(home) + 1
      /\ \A s \in 1..MaxRevision \ {r} : server'[s] = server[s]
  BY <1>1
<1>5. ServerInv'
  <2>1. ASSUME NEW s \in 1..MaxRevision
        PROVE  MadeBy(server[s], s)'
    BY <1>2, <1>3, <1>4, <2>1 DEF IInv, ServerInv, MadeBy
  <2>2. ASSUME NEW i \in 1..Len(home')
        PROVE  i <= server'[home'[i]]
    <3>1. CASE i = Len(home) + 1
      BY <1>2, <1>4, <3>1
    <3>2. CASE i \in 1..Len(home)
      <4>1. home'[i] = home[i] /\ i <= server[home[i]]
        BY <1>2, <3>2 DEF IInv, ServerInv
      <4>2. home[i] \in 1..MaxRevision
        BY <1>1, <3>2, ElementOfSeq, Zenon
      <4>3. server[home[i]] <= server'[home[i]]
        <5>1. server[r] \in 1..Len(home)
          BY DEF IInv, ServerInv, MadeBy
        <5>2. server[home[i]] \in Nat
          BY <1>1, <4>2
        <5> QED BY <1>2, <1>4, <4>2, <5>1, <5>2
      <4>4. server[home[i]] \in Nat /\ server'[home[i]] \in Nat
        BY <1>1, <1>2, <4>2
      <4> QED BY <3>2, <4>1, <4>3, <4>4
    <3> QED BY <1>2, <3>1, <3>2
  <2> QED BY <2>1, <2>2 DEF ServerInv
<1>6. SessionInv'
  BY <1>3 DEF IInv, SessionInv, Renew, MadeBy
<1>7. ASSUME NEW c \in Callers
      PROVE  CallInv(c)'
  <2>1. pc' = pc /\ local' = local
    BY DEF Renew
  <2>2. ASSUME NEW i, NEW s, MadeBy(i, s)
        PROVE  MadeBy(i, s)'
    BY <1>3, <2>2 DEF MadeBy
  <2>3. CallInv(c)
    BY DEF IInv
  <2> QED BY <2>1, <2>2, <2>3 DEF CallInv
<1> QED BY <1>5, <1>6, <1>7 DEF IInv

-----------------------------------------------------------------------------
(* Every step keeps the types and the invariant.                            *)

\* The types of what a step of one call leaves alone.
LEMMA StepKeepsTypes ==
    ASSUME TypeOK, NEW c \in Callers, NEW l \in Labels, NEW y, Moves(c, l, y),
           session' \in Sessions, UNCHANGED <<revision, server, home>>
    PROVE  TypeOK'
<1>1. /\ pc' \in [Callers -> Labels] /\ local' \in [Callers -> Calls]
      /\ \A d \in Callers : pc'[d] # "idle" => local'[d].cfg # 0
  BY MovesKeepTypes
<1> QED BY <1>1 DEF TypeOK, Labels

\* Every step keeps the types.
LEMMA TypesStep ==
    ASSUME TypeOK, IInv, [Next]_vars
    PROVE  TypeOK'
<1> DEFINE Rest == UNCHANGED <<revision, server, home>>
<1>0. /\ session \in Sessions
      /\ \A l : l \in Labels <=> l \in {"idle", "session", "sending", "waiting", "answered",
                                        "challenged", "swapping"}
  BY DEF TypeOK, Labels
<1>1. CASE UNCHANGED vars
  BY <1>1 DEF vars, TypeOK
<1>2. CASE Publish
  BY <1>2, BoundsAssumption DEF Publish, TypeOK
<1>3. ASSUME NEW r \in 1..MaxRevision, Renew(r)
      PROVE  TypeOK'
  <2>1. /\ revision' = revision /\ session' = session /\ pc' = pc /\ local' = local
        /\ home' = Append(home, r) /\ server' = [server EXCEPT ![r] = Len(home) + 1]
    BY <1>3 DEF Renew
  <2>2. home' \in Seq(1..MaxRevision) /\ server' \in [1..MaxRevision -> Nat]
    BY <2>1 DEF TypeOK
  <2> QED BY <2>1, <2>2 DEF TypeOK
<1>4. ASSUME NEW c \in Callers, NEW o \in Ops, Begin(c, o)
      PROVE  TypeOK'
  <2>1. \E y : Moves(c, "session", y)
    BY <1>4, BeginMoves
  <2>2. session' = session /\ Rest
    BY <1>4 DEF Begin
  <2> QED BY <1>0, <2>1, <2>2, StepKeepsTypes
<1>5. ASSUME NEW c \in Callers, Return(c), session' = session, Rest
      PROVE  TypeOK'
  BY <1>0, <1>5, ReturnMoves, StepKeepsTypes
<1>6. ASSUME NEW c \in Callers, ReadSession(c)
      PROVE  TypeOK'
  <2>1. \E y : Moves(c, "sending", y)
    BY <1>6, ReadSessionMoves
  <2>2. session' = session /\ Rest
    BY <1>6 DEF ReadSession
  <2> QED BY <1>0, <2>1, <2>2, StepKeepsTypes
<1>7. ASSUME NEW c \in Callers, Send(c)
      PROVE  TypeOK'
  <2>1. session' = session /\ Rest
    BY <1>7 DEF Send
  <2>2. CASE Goto(c, "waiting") /\ UNCHANGED local
    <3>1. Moves(c, "waiting", local[c])
      BY <1>0, <1>7, <2>2, GotoMoves DEF Send
    <3> QED BY <1>0, <2>1, <3>1, StepKeepsTypes
  <2> QED BY <1>5, <1>7, <2>1, <2>2 DEF Send
<1>8. ASSUME NEW c \in Callers, Apply(c)
      PROVE  TypeOK'
  <2>1. \E y : Moves(c, "answered", y)
    BY <1>8, ApplyMoves
  <2>2. session' = session /\ Rest
    BY <1>8 DEF Apply
  <2> QED BY <1>0, <2>1, <2>2, StepKeepsTypes
<1>9. ASSUME NEW c \in Callers, Mutate(c)
      PROVE  TypeOK'
  <2>1. \E y : Moves(c, "session", y)
    BY <1>9, MutateMoves
  <2>2. session' = session /\ Rest
    BY <1>9 DEF Mutate
  <2> QED BY <1>0, <2>1, <2>2, StepKeepsTypes
<1>10. ASSUME NEW c \in Callers, Answered(c)
       PROVE  TypeOK'
  BY <1>5, <1>10 DEF Answered
<1>11. ASSUME NEW c \in Callers, Conflict(c)
       PROVE  TypeOK'
  <2>1. session' = session /\ Rest
    BY <1>11 DEF Conflict
  <2>2. CASE ~local[c].replayed
    <3>1. \E y : Moves(c, "challenged", y)
      BY <1>11, <2>2, ChallengeMoves DEF IInv
    <3> QED BY <1>0, <2>1, <3>1, StepKeepsTypes
  <2> QED BY <1>5, <1>11, <2>1, <2>2 DEF Conflict
<1>12. ASSUME NEW c \in Callers, CheckConfig(c)
       PROVE  TypeOK'
  <2>1. session' = session /\ Rest
    BY <1>12 DEF CheckConfig
  <2>2. CASE Goto(c, "swapping") /\ UNCHANGED local
    <3>1. Moves(c, "swapping", local[c])
      BY <1>0, <1>12, <2>2, GotoMoves DEF CheckConfig
    <3> QED BY <1>0, <2>1, <3>1, StepKeepsTypes
  <2> QED BY <1>5, <1>12, <2>1, <2>2 DEF CheckConfig
<1>13. ASSUME NEW c \in Callers, Swap(c)
       PROVE  TypeOK'
  <2>1. \E y : Moves(c, "sending", y)
    BY <1>13, SwapMoves
  <2>2. Rest
    BY <1>13 DEF Swap
  <2>3. [id |-> local[c].challenge, revision |-> local[c].cfg] \in Sessions
    BY CallType DEF Sessions
  <2>4. session' \in Sessions
    BY <1>0, <1>13, <2>3 DEF Swap, CompareAndSwap
  <2> QED BY <1>0, <2>1, <2>2, <2>4, StepKeepsTypes
<1> QED BY <1>1, <1>2, <1>3, <1>4, <1>6, <1>7, <1>8, <1>9, <1>10, <1>11, <1>12, <1>13
        DEF Next, Step

\* What only concerns the servers and the shared session is kept when they stay.
LEMMA QuietKeeps ==
    ASSUME IInv, UNCHANGED <<session, server, home>>
    PROVE  ServerInv' /\ SessionInv'
  BY DEF IInv, ServerInv, SessionInv, MadeBy

\* Every step keeps the invariant.
LEMMA InvStep ==
    ASSUME TypeOK, IInv, [Next]_vars
    PROVE  IInv'
<1>1. CASE UNCHANGED vars \/ Publish
  <2>1. UNCHANGED <<session, server, home, pc, local>>
    BY <1>1 DEF vars, Publish
  <2>2. \A c \in Callers : CallInv(c)'
    BY <2>1 DEF IInv, CallInv, MadeBy
  <2> QED BY <2>1, <2>2, QuietKeeps DEF IInv
<1>2. ASSUME NEW r \in 1..MaxRevision, Renew(r)
      PROVE  IInv'
  BY <1>2, RenewKeeps
<1>3. ASSUME NEW c \in Callers, NEW o \in Ops, Begin(c, o)
      PROVE  IInv'
  BY <1>3, BeginKeeps, QuietKeeps DEF Begin, IInv
<1>4. ASSUME NEW c \in Callers, ReadSession(c)
      PROVE  IInv'
  BY <1>4, ReadSessionKeeps, QuietKeeps DEF ReadSession, IInv
<1>5. ASSUME NEW c \in Callers, Send(c)
      PROVE  IInv'
  BY <1>5, SendKeeps, QuietKeeps DEF Send, IInv
<1>6. ASSUME NEW c \in Callers, Apply(c)
      PROVE  IInv'
  BY <1>6, ApplyKeeps, QuietKeeps DEF Apply, IInv
<1>7. ASSUME NEW c \in Callers, Mutate(c)
      PROVE  IInv'
  BY <1>7, MutateKeeps, QuietKeeps DEF Mutate, IInv
<1>8. ASSUME NEW c \in Callers, Answered(c)
      PROVE  IInv'
  BY <1>8, ReturnKeeps, QuietKeeps DEF Answered, IInv
<1>9. ASSUME NEW c \in Callers, Conflict(c)
      PROVE  IInv'
  BY <1>9, ConflictKeeps, QuietKeeps DEF Conflict, IInv
<1>10. ASSUME NEW c \in Callers, CheckConfig(c)
       PROVE  IInv'
  BY <1>10, CheckConfigKeeps, QuietKeeps DEF CheckConfig, IInv
<1>11. ASSUME NEW c \in Callers, Swap(c)
       PROVE  IInv'
  <2>1. ServerInv'
    BY <1>11 DEF Swap, IInv, ServerInv, MadeBy
  <2> QED BY <1>11, <2>1, SwapKeeps DEF IInv
<1> QED BY <1>1, <1>2, <1>3, <1>4, <1>5, <1>6, <1>7, <1>8, <1>9, <1>10, <1>11 DEF Next, Step

\* The types and the invariant hold when the client is made.
LEMMA Initially ==
    ASSUME Init
    PROVE  TypeOK /\ IInv
<1>1. /\ revision = 1 /\ session = NoSession
      /\ server = [r \in 1..MaxRevision |-> r] /\ home = [r \in 1..MaxRevision |-> r]
      /\ pc = [c \in Callers |-> "idle"] /\ local = [c \in Callers |-> NoCall]
  BY DEF Init
<1>2. home \in Seq(1..MaxRevision) /\ Len(home) = MaxRevision
  BY <1>1, BoundsAssumption
<1>3. server \in [1..MaxRevision -> Nat] /\ revision \in 1..MaxRevision /\ session \in Sessions
  BY <1>1, BoundsAssumption DEF NoSession, Sessions
<1>4. local \in [Callers -> Calls] /\ \A c \in Callers : pc[c] = "idle" /\ local[c].applied = 0
  BY <1>1, NoCallType DEF NoCall
<1>5. TypeOK
  BY <1>1, <1>2, <1>3, <1>4 DEF TypeOK
<1>6. ServerInv /\ SessionInv
  BY <1>1, <1>2, BoundsAssumption DEF ServerInv, SessionInv, MadeBy, NoSession
<1>7. \A c \in Callers : CallInv(c)
  BY <1>4 DEF CallInv
<1> QED BY <1>5, <1>6, <1>7 DEF IInv

\* The types and the invariant hold throughout.
THEOREM Invariance == Spec => [](TypeOK /\ IInv)
<1>1. Init => TypeOK /\ IInv
  BY Initially
<1>2. (TypeOK /\ IInv) /\ [Next]_vars => (TypeOK /\ IInv)'
  BY TypesStep, InvStep
<1> QED BY <1>1, <1>2, PTL DEF Spec

-----------------------------------------------------------------------------
(* The properties.                                                          *)

\* Every variable has its type (the variables of client.go).
THEOREM CallsAreTyped == Spec => []TypeOK
<1> QED BY Invariance, PTL

\* An identifier is only sent to the server that has made it up (client.go sessionFor).
THEOREM IdsStayHome == Spec => []IdStaysHome
<1>1. TypeOK /\ IInv => IdStaysHome
  BY DEF IInv, CallInv, IdStaysHome, MadeBy
<1> QED BY <1>1, Invariance, PTL

\* A rename is applied at most once per call (mutation.go callMutation).
THEOREM RenamesAreNotRepeated == Spec => []AppliedAtMostOnce
<1>1. TypeOK /\ IInv => AppliedAtMostOnce
  <2> SUFFICES ASSUME IInv, NEW c \in Callers
               PROVE  local[c].applied <= 1
    BY DEF AppliedAtMostOnce
  <2>1. local[c].applied = 0 \/ local[c].applied = 1
    BY DEF IInv, CallInv
  <2> QED BY <2>1
<1> QED BY <1>1, Invariance, PTL

\* A late answer never takes the session back (client.go compareAndSwapSession).
THEOREM LateAnswersDoNoHarm == Spec => SessionMovesForward
<1> DEFINE Forward == \/ session'.revision > session.revision
                      \/ session'.revision = session.revision /\ session'.id >= session.id
<1>1. TypeOK /\ IInv /\ [Next]_vars => [Forward]_vars
  <2> SUFFICES ASSUME TypeOK, IInv, Next
               PROVE  Forward
    BY DEF vars
  <2>1. session.revision \in Nat /\ session.id \in Nat
    BY BoundsAssumption DEF TypeOK, Sessions
  <2>2. CASE session' = session
    BY <2>1, <2>2
  <2>3. ASSUME NEW c \in Callers, Swap(c)
        PROVE  Forward
    <3> DEFINE next == [id |-> local[c].challenge, revision |-> local[c].cfg]
    <3>1. next.id = local[c].challenge /\ next.revision = local[c].cfg
      OBVIOUS
    <3>2. session' = CompareAndSwap(local[c].saved, next)
      BY <2>3 DEF Swap
    <3> HIDE DEF next
    <3>3. local[c].cfg \in 1..MaxRevision /\ local[c].challenge \in Nat
      BY <2>3, CallType DEF Swap
    <3>4. /\ local[c].saved.revision = local[c].cfg \/ local[c].saved = NoSession
          /\ local[c].saved.id <= local[c].challenge
      BY <2>3 DEF Swap, IInv, CallInv
    <3>5. CASE session' = session
      BY <2>1, <3>5
    <3>6. CASE session' = next /\ session = local[c].saved
      BY <2>1, <3>1, <3>3, <3>4, <3>6, BoundsAssumption DEF NoSession
    <3>7. CASE session' = next /\ session.revision < next.revision
      BY <2>1, <3>1, <3>3, <3>7, BoundsAssumption
    <3> QED BY <3>2, <3>5, <3>6, <3>7 DEF CompareAndSwap
  <2> QED BY <2>2, <2>3 DEF Next, Step, Publish, Renew, Begin, ReadSession, Send, Apply,
                Mutate, Answered, Conflict, CheckConfig
<1> QED BY <1>1, Invariance, PTL DEF Spec, SessionMovesForward

=============================================================================
