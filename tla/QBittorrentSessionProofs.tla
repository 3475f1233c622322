----------------------- MODULE QBittorrentSessionProofs -----------------------
(***************************************************************************)
(* Proofs about the qBittorrent client, for any number of callers and any    *)
(* bounds.                                                                  *)
(***************************************************************************)
EXTENDS QBittorrentSession, SequenceTheorems, TLAPS

-----------------------------------------------------------------------------
(* The inductive invariant.                                                 *)

WithCookie == {"posted", "saving", "sending", "waiting", "applied", "refused"}

UnderLoginMu == {"login", "reuse", "posting", "posted", "saving", "relock", "resession"}

\* The server of revision r has issued the cookie k.
IssuedBy(k, r) == k \in 1..Len(issued) /\ issued[k] = r

\* The shared session is labelled with the server of its cookie.
SessionInv == session.cookie # 0 => IssuedBy(session.cookie, session.revision)

\* loginMu is held exactly by the caller that is between Lock and Unlock.
LockInv(c) == pc[c] \in UnderLoginMu <=> loginMu = c

\* A call sends the cookie of its own server.
CookieInv(c) ==
    pc[c] \in WithCookie => /\ IssuedBy(local[c].saved.cookie, local[c].cfg)
                            /\ local[c].saved.revision = local[c].cfg

\* A login holds the last cookie until it has saved it.
LastInv(c) == pc[c] \in {"posted", "saving"} => local[c].saved.cookie = Len(issued)

\* A request that can still be repeated has not been applied.
AppliedInv(c) ==
    /\ pc[c] # "applied" => local[c].applied = 0
    /\ pc[c] = "applied" => local[c].applied = 1

\* A captured configuration is not ahead of the published one, and valid while it is
\* the published one.
CapturedInv(c) ==
    /\ local[c].cfg <= revision
    /\ pc[c] \in {"reuse", "posting", "posted"} /\ local[c].cfg = revision => usable

\* A call posts because there is no session for its configuration, and a refused cookie
\* is not taken for a fresh one.
NeededInv(c) ==
    /\ pc[c] = "posting" /\ local[c].by # "Login" => ~Serves(session, local[c].cfg)
    /\ pc[c] = "refused" /\ local[c].saved.cookie = Len(issued) => ~fresh

CallInv(c) ==
    LockInv(c) /\ CookieInv(c) /\ LastInv(c) /\ AppliedInv(c) /\ CapturedInv(c) /\ NeededInv(c)

\* The last cookie is for a configuration that nobody who logs in has captured.
Outdated ==
    /\ issued[Len(issued)] < revision
    /\ \A c \in Callers : pc[c] \in {"reuse", "posting"} => issued[Len(issued)] < local[c].cfg

\* The last cookie is refused, shared, about to be shared, or outdated.
FreshInv ==
    fresh =>
        /\ Len(issued) # 0
        /\ \/ session.cookie = Len(issued)
           \/ \E c \in Callers : pc[c] \in {"posted", "saving"}
           \/ Outdated

IInv == SessionInv /\ FreshInv /\ \A c \in Callers : CallInv(c)

-----------------------------------------------------------------------------
(* What the actions do to the calls.                                        *)

\* Only the call of c moves; it goes to l and becomes y.
Moves(c, l, y) ==
    /\ l \in Labels
    /\ y \in Calls
    /\ pc' = [pc EXCEPT ![c] = l]
    /\ local' = [local EXCEPT ![c] = y]

\* A call has the types of its fields.
LEMMA CallType ==
    ASSUME TypeOK, NEW c \in Callers
    PROVE  /\ local[c] \in Calls
           /\ local[c].cfg \in 0..MaxRevision
           /\ local[c].saved \in Sessions
           /\ local[c].saved.cookie \in 0..MaxCookies
           /\ local[c].applied \in Nat
           /\ local[c].attempt \in 0..1
<1>1. local[c] \in Calls
  BY DEF TypeOK
<1>2. /\ local[c].cfg \in 0..MaxRevision /\ local[c].saved \in Sessions
      /\ local[c].applied \in Nat /\ local[c].attempt \in 0..1
  BY <1>1 DEF Calls
<1>3. local[c].saved.cookie \in 0..MaxCookies
  BY <1>2 DEF Sessions
<1> QED BY <1>1, <1>2, <1>3

\* The empty session and the empty call are typed.
LEMMA NoCallType == NoCall \in Calls /\ NoSession \in Sessions
  BY BoundsAssumption DEF NoCall, NoSession, Calls, Sessions, Ops

\* The revisions and the number of cookies are natural numbers.
LEMMA Numbers ==
    ASSUME TypeOK
    PROVE  /\ revision \in Nat /\ revision \in 0..MaxRevision
           /\ Len(issued) \in Nat
           /\ session.cookie \in Nat /\ session.revision \in Nat
           /\ \A k \in 1..Len(issued) : issued[k] \in Nat
<1>1. revision \in 1..MaxRevision /\ issued \in Seq(0..MaxRevision) /\ session \in Sessions
  BY DEF TypeOK
<1>2. session.cookie \in Nat /\ session.revision \in Nat
  BY <1>1, BoundsAssumption DEF Sessions
<1>3. \A k \in 1..Len(issued) : issued[k] \in 0..MaxRevision
  BY <1>1, ElementOfSeq, Zenon
<1> QED BY <1>1, <1>2, <1>3, BoundsAssumption

\* A step of one call keeps the types of both functions.
LEMMA MovesKeepTypes ==
    ASSUME TypeOK, NEW c \in Callers, NEW l, NEW y, Moves(c, l, y)
    PROVE  /\ pc' \in [Callers -> Labels]
           /\ local' \in [Callers -> Calls]
           /\ pc'[c] = l /\ local'[c] = y
           /\ \A d \in Callers \ {c} : pc'[d] = pc[d] /\ local'[d] = local[d]
<1>1. pc \in [Callers -> Labels] /\ local \in [Callers -> Calls]
  BY DEF TypeOK
<1>2. /\ l \in Labels /\ y \in Calls
      /\ pc' = [pc EXCEPT ![c] = l] /\ local' = [local EXCEPT ![c] = y]
  BY DEF Moves
<1>3. pc' \in [Callers -> Labels] /\ local' \in [Callers -> Calls]
  BY <1>1, <1>2
<1>4. pc'[c] = l /\ local'[c] = y
  BY <1>1, <1>2
<1>5. \A d \in Callers \ {c} : pc'[d] = pc[d] /\ local'[d] = local[d]
  BY <1>1, <1>2
<1> QED BY <1>3, <1>4, <1>5

\* A call that returns is empty.
LEMMA ReturnMoves ==
    ASSUME NEW c \in Callers, Return(c)
    PROVE  Moves(c, "idle", NoCall)
  BY NoCallType DEF Return, Moves, Goto, Labels

\* A step that leaves the locals of a call alone.
LEMMA GotoMoves ==
    ASSUME TypeOK, NEW c \in Callers, NEW l \in Labels, Goto(c, l), UNCHANGED local
    PROVE  Moves(c, l, local[c])
<1>1. local' = [local EXCEPT ![c] = local[c]]
  BY DEF TypeOK
<1>2. local[c] \in Calls
  BY CallType
<1>3. pc' = [pc EXCEPT ![c] = l]
  BY DEF Goto
<1> QED BY <1>1, <1>2, <1>3 DEF Moves

\* The caller chooses an operation.
LEMMA OpMoves ==
    ASSUME TypeOK, NEW c \in Callers, NEW l \in Labels, Goto(c, l),
           NEW o \in Ops, local' = [local EXCEPT ![c].op = o]
    PROVE  \E y : /\ Moves(c, l, y)
                  /\ y.applied = local[c].applied /\ y.cfg = local[c].cfg
<1> DEFINE y == [local[c] EXCEPT !.op = o]
<1>1. local[c] \in Calls
  BY CallType
<1>2. y \in Calls /\ y.applied = local[c].applied /\ y.cfg = local[c].cfg
  BY <1>1 DEF Calls
<1>3. local' = [local EXCEPT ![c] = y]
  OBVIOUS
<1> HIDE DEF y
<1> QED BY <1>2, <1>3 DEF Moves, Goto

\* The call captures the configuration.
LEMMA CfgMoves ==
    ASSUME TypeOK, NEW c \in Callers, NEW l \in Labels, Goto(c, l),
           local' = [local EXCEPT ![c].cfg = revision]
    PROVE  \E y : /\ Moves(c, l, y)
                  /\ y.applied = local[c].applied /\ y.cfg = revision
<1> DEFINE y == [local[c] EXCEPT !.cfg = revision]
<1>1. local[c] \in Calls /\ revision \in 0..MaxRevision
  BY CallType, Numbers
<1>2. y \in Calls /\ y.applied = local[c].applied /\ y.cfg = revision
  BY <1>1 DEF Calls
<1>3. local' = [local EXCEPT ![c] = y]
  OBVIOUS
<1> HIDE DEF y
<1> QED BY <1>2, <1>3 DEF Moves, Goto

\* The call takes a session.
LEMMA SavedMoves ==
    ASSUME TypeOK, NEW c \in Callers, NEW l \in Labels, Goto(c, l),
           NEW s \in Sessions, local' = [local EXCEPT ![c].saved = s]
    PROVE  \E y : /\ Moves(c, l, y) /\ y.saved = s
                  /\ y.applied = local[c].applied /\ y.cfg = local[c].cfg
<1> DEFINE y == [local[c] EXCEPT !.saved = s]
<1>1. local[c] \in Calls
  BY CallType
<1>2. y \in Calls /\ y.saved = s /\ y.applied = local[c].applied /\ y.cfg = local[c].cfg
  BY <1>1 DEF Calls
<1>3. local' = [local EXCEPT ![c] = y]
  OBVIOUS
<1> HIDE DEF y
<1> QED BY <1>2, <1>3 DEF Moves, Goto

\* The call is going to log in for the first time.
LEMMA ByMoves ==
    ASSUME TypeOK, NEW c \in Callers, NEW l \in Labels, Goto(c, l),
           local' = [local EXCEPT ![c].by = "sessionFor"]
    PROVE  \E y : /\ Moves(c, l, y)
                  /\ y.applied = local[c].applied /\ y.cfg = local[c].cfg
<1> DEFINE y == [local[c] EXCEPT !.by = "sessionFor"]
<1>1. local[c] \in Calls
  BY CallType
<1>2. y \in Calls /\ y.applied = local[c].applied /\ y.cfg = local[c].cfg
  BY <1>1 DEF Calls
<1>3. local' = [local EXCEPT ![c] = y]
  OBVIOUS
<1> HIDE DEF y
<1> QED BY <1>2, <1>3 DEF Moves, Goto

\* The call is going to log in after a refusal.
LEMMA AttemptMoves ==
    ASSUME TypeOK, NEW c \in Callers, NEW l \in Labels, Goto(c, l),
           local' = [local EXCEPT ![c].attempt = 1, ![c].by = "replay"]
    PROVE  \E y : /\ Moves(c, l, y)
                  /\ y.applied = local[c].applied /\ y.cfg = local[c].cfg
<1> DEFINE x == [local[c] EXCEPT !.attempt = 1]
<1> DEFINE y == [x EXCEPT !.by = "replay"]
<1>1. local[c] \in Calls
  BY CallType
<1>2. local' = [local EXCEPT ![c] = y]
  OBVIOUS
<1> HIDE DEF y
<1>3. x \in Calls /\ x.applied = local[c].applied /\ x.cfg = local[c].cfg
  BY <1>1 DEF Calls
<1> HIDE DEF x
<1>4. y \in Calls /\ y.applied = x.applied /\ y.cfg = x.cfg
  BY <1>3 DEF Calls, y
<1> QED BY <1>2, <1>3, <1>4 DEF Moves, Goto

\* The server applies the request.
LEMMA AppliedMoves ==
    ASSUME TypeOK, NEW c \in Callers, NEW l \in Labels, Goto(c, l),
           local' = [local EXCEPT ![c].applied = @ + 1]
    PROVE  \E y : /\ Moves(c, l, y) /\ y.saved = local[c].saved
                  /\ y.applied = local[c].applied + 1 /\ y.cfg = local[c].cfg
<1> DEFINE y == [local[c] EXCEPT !.applied = @ + 1]
<1>1. local[c] \in Calls /\ local[c].applied \in Nat
  BY CallType
<1>2. /\ y \in Calls /\ y.saved = local[c].saved
      /\ y.applied = local[c].applied + 1 /\ y.cfg = local[c].cfg
  BY <1>1 DEF Calls
<1>3. local' = [local EXCEPT ![c] = y]
  OBVIOUS
<1> HIDE DEF y
<1> QED BY <1>2, <1>3 DEF Moves, Goto

-----------------------------------------------------------------------------
(* Steps of one call that leave the session and the cookies alone.          *)

\* loginMu belongs to c exactly if its new place l says so, and changes for nobody else.
Hands(c, l) ==
    /\ l \in UnderLoginMu <=> loginMu' = c
    /\ \A d \in Callers \ {c} : loginMu' = d <=> loginMu = d

\* What is shared and neither locked nor published.
Quiet == UNCHANGED <<revision, usable, session, issued, fresh>>

\* What c has to show of its place l and its call y, so that the calls are in order.
Entitled(l, y) ==
    /\ l \in WithCookie => /\ IssuedBy(y.saved.cookie, y.cfg)
                           /\ y.saved.revision = y.cfg
    /\ l \in {"posted", "saving"} => y.saved.cookie = Len(issued)
    /\ IF l = "applied" THEN y.applied = 1 ELSE y.applied = 0
    /\ y.cfg <= revision
    /\ l \in {"reuse", "posting", "posted"} /\ y.cfg = revision => usable
    /\ l = "posting" /\ y.by # "Login" => ~Serves(session, y.cfg)
    /\ l = "refused" /\ y.saved.cookie = Len(issued) => ~fresh

\* A step of c alone keeps the invariant of all calls, when c is entitled to its place.
LEMMA OneCall ==
    ASSUME TypeOK, IInv, NEW c \in Callers, NEW l, NEW y, Moves(c, l, y), Quiet,
           Hands(c, l), Entitled(l, y)
    PROVE  SessionInv' /\ \A d \in Callers : CallInv(d)'
<1>1. /\ pc'[c] = l /\ local'[c] = y
      /\ \A d \in Callers \ {c} : pc'[d] = pc[d] /\ local'[d] = local[d]
  BY MovesKeepTypes
<1>2. /\ revision' = revision /\ usable' = usable /\ session' = session
      /\ issued' = issued /\ fresh' = fresh
  BY DEF Quiet
<1>3. SessionInv'
  BY <1>2 DEF IInv, SessionInv, IssuedBy
<1>4. CallInv(c)'
  <2>1. LockInv(c)'
    BY <1>1 DEF LockInv, Hands
  <2>2. CookieInv(c)' /\ LastInv(c)'
    BY <1>1, <1>2 DEF CookieInv, LastInv, Entitled, IssuedBy
  <2>3. AppliedInv(c)' /\ CapturedInv(c)' /\ NeededInv(c)'
    BY <1>1, <1>2 DEF AppliedInv, CapturedInv, NeededInv, Entitled, Serves
  <2> QED BY <2>1, <2>2, <2>3 DEF CallInv
<1>5. ASSUME NEW d \in Callers \ {c}
      PROVE  CallInv(d)'
  <2>1. pc'[d] = pc[d] /\ local'[d] = local[d] /\ CallInv(d)
    BY <1>1, <1>5 DEF IInv
  <2>2. LockInv(d)'
    BY <1>5, <2>1 DEF CallInv, LockInv, Hands
  <2>3. CookieInv(d)' /\ LastInv(d)'
    BY <1>2, <2>1 DEF CallInv, CookieInv, LastInv, IssuedBy
  <2>4. AppliedInv(d)' /\ CapturedInv(d)' /\ NeededInv(d)'
    BY <1>2, <2>1 DEF CallInv, AppliedInv, CapturedInv, NeededInv, Serves
  <2> QED BY <2>2, <2>3, <2>4 DEF CallInv
<1> QED BY <1>3, <1>4, <1>5

\* A cookie stays accounted for when c neither gives one up nor captures an older
\* configuration.
LEMMA FreshStays ==
    ASSUME TypeOK, IInv, NEW c \in Callers, NEW l, NEW y, Moves(c, l, y), Quiet,
           pc[c] \in {"posted", "saving"} => l \in {"posted", "saving"},
           l \in {"reuse", "posting"} =>
               y.cfg = revision \/ (pc[c] \in {"reuse", "posting"} /\ y.cfg = local[c].cfg)
    PROVE  FreshInv'
<1>1. /\ pc'[c] = l /\ local'[c] = y
      /\ \A d \in Callers \ {c} : pc'[d] = pc[d] /\ local'[d] = local[d]
  BY MovesKeepTypes
<1>2. /\ revision' = revision /\ usable' = usable /\ session' = session
      /\ issued' = issued /\ fresh' = fresh
  BY DEF Quiet
<1>3. FreshInv
  BY DEF IInv
<1>4. ASSUME NEW d \in Callers, pc[d] \in {"posted", "saving"}
      PROVE  pc'[d] \in {"posted", "saving"}
  BY <1>1, <1>4
<1>5. Outdated => Outdated'
  BY <1>1, <1>2 DEF Outdated
<1> QED BY <1>2, <1>3, <1>4, <1>5 DEF FreshInv

\* Unlock hands the mutex to nobody.
LEMMA UnlockHands ==
    ASSUME TypeOK, NEW c \in Callers, Unlock(c), NEW l, l \notin UnderLoginMu
    PROVE  Hands(c, l)
  BY CallersAssumption DEF Unlock, Hands

\* A call that returns disturbs nothing, but for the cookie of a login it gives up.
LEMMA ReturnKeeps ==
    ASSUME TypeOK, IInv, NEW c \in Callers, Return(c), Quiet
    PROVE  /\ SessionInv' /\ \A d \in Callers : CallInv(d)'
           /\ pc[c] \notin {"posted", "saving"} => FreshInv'
<1>1. Moves(c, "idle", NoCall)
  BY ReturnMoves
<1>2. Hands(c, "idle")
  BY UnlockHands DEF Return, UnderLoginMu
<1>3. Entitled("idle", NoCall)
  BY Numbers DEF Entitled, NoCall, WithCookie
<1>4. pc[c] \notin {"posted", "saving"} => FreshInv'
  BY <1>1, FreshStays
<1> QED BY <1>1, <1>2, <1>3, <1>4, OneCall

\* A caller that goes on without a word.
LEMMA SamePlace ==
    ASSUME TypeOK, IInv, NEW c \in Callers, NEW l \in Labels, UNCHANGED loginMu,
           pc[c] \in UnderLoginMu <=> l \in UnderLoginMu
    PROVE  Hands(c, l)
  BY DEF Hands, IInv, CallInv, LockInv

\* A new call disturbs nothing (operations.go, client.go Login).
LEMMA BeginKeeps ==
    ASSUME TypeOK, IInv, NEW c \in Callers, NEW o \in Ops, Begin(c, o)
    PROVE  IInv'
<1> DEFINE l == IF o = "login" THEN "lock" ELSE "config"
<1>0. l \in Labels /\ l \in {"lock", "config"}
  BY DEF Labels
<1>1. /\ pc[c] = "idle" /\ Goto(c, l) /\ local' = [local EXCEPT ![c].op = o]
      /\ Quiet /\ UNCHANGED loginMu
  BY DEF Begin, Quiet, configVars, historyVars
<1> HIDE DEF l
<1>2. PICK y : /\ Moves(c, l, y)
               /\ y.applied = local[c].applied /\ y.cfg = local[c].cfg
  BY <1>0, <1>1, OpMoves
<1>3. local[c].applied = 0 /\ local[c].cfg <= revision
  BY <1>1 DEF IInv, CallInv, AppliedInv, CapturedInv
<1>4. Hands(c, l)
  BY <1>0, <1>1, SamePlace DEF UnderLoginMu
<1>5. Entitled(l, y)
  BY <1>0, <1>2, <1>3 DEF Entitled, WithCookie
<1>6. FreshInv'
  BY <1>0, <1>1, <1>2, FreshStays
<1> QED BY <1>1, <1>2, <1>4, <1>5, <1>6, OneCall DEF IInv

\* A call captures the published configuration, or returns.
LEMMA CaptureKeeps ==
    ASSUME TypeOK, IInv, NEW c \in Callers, NEW l \in {"session", "reuse", "resession"},
           Capture(c, l), Quiet, pc[c] \in {"config", "login", "relock"},
           pc[c] \in UnderLoginMu <=> l \in UnderLoginMu
    PROVE  IInv'
<1>1. CASE usable /\ local' = [local EXCEPT ![c].cfg = revision] /\ Goto(c, l) /\ UNCHANGED loginMu
  <2>0. l \in Labels
    BY DEF Labels
  <2>1. PICK y : Moves(c, l, y) /\ y.applied = local[c].applied /\ y.cfg = revision
    BY <1>1, <2>0, CfgMoves
  <2>2. local[c].applied = 0
    BY DEF IInv, CallInv, AppliedInv
  <2>3. Hands(c, l)
    BY <1>1, <2>0, SamePlace
  <2>4. Entitled(l, y)
    BY <1>1, <2>1, <2>2, Numbers DEF Entitled, WithCookie
  <2>5. /\ pc[c] \in {"posted", "saving"} => l \in {"posted", "saving"}
        /\ l \in {"reuse", "posting"} =>
               y.cfg = revision \/ (pc[c] \in {"reuse", "posting"} /\ y.cfg = local[c].cfg)
    BY <2>1
  <2>6. FreshInv'
    BY <2>1, <2>5, FreshStays, Zenon
  <2> QED BY <2>1, <2>3, <2>4, <2>6, OneCall DEF IInv
<1>2. CASE Return(c)
  BY <1>2, ReturnKeeps DEF IInv
<1> QED BY <1>1, <1>2 DEF Capture

\* A call takes the shared session, which is for its configuration.
LEMMA TakeSession ==
    ASSUME TypeOK, IInv, NEW c \in Callers, pc[c] \in {"session", "resession"},
           Serves(session, local[c].cfg), local' = [local EXCEPT ![c].saved = session],
           Goto(c, "sending"), Quiet, Hands(c, "sending")
    PROVE  IInv'
<1>1. "sending" \in Labels /\ session \in Sessions
  BY DEF Labels, TypeOK
<1>2. PICK y : /\ Moves(c, "sending", y) /\ y.saved = session
               /\ y.applied = local[c].applied /\ y.cfg = local[c].cfg
  BY <1>1, SavedMoves
<1>3. local[c].applied = 0 /\ local[c].cfg <= revision
  BY DEF IInv, CallInv, AppliedInv, CapturedInv
<1>4. IssuedBy(session.cookie, local[c].cfg) /\ session.revision = local[c].cfg
  BY DEF IInv, SessionInv, Serves
<1>5. Entitled("sending", y)
  BY <1>2, <1>3, <1>4 DEF Entitled
<1>6. FreshInv'
  BY <1>2, FreshStays
<1> QED BY <1>2, <1>5, <1>6, OneCall DEF IInv

\* The first look at the shared session (client.go sessionFor).
LEMMA ReadSessionKeeps ==
    ASSUME TypeOK, IInv, NEW c \in Callers, ReadSession(c)
    PROVE  IInv'
<1>0. pc[c] = "session" /\ Quiet /\ UNCHANGED loginMu
  BY DEF ReadSession, Quiet, configVars, historyVars
<1>1. CASE /\ Serves(session, local[c].cfg)
           /\ local' = [local EXCEPT ![c].saved = session] /\ Goto(c, "sending")
  <2>1. Hands(c, "sending")
    BY <1>0, SamePlace DEF UnderLoginMu, Labels
  <2> QED BY <1>0, <1>1, <2>1, TakeSession
<1>2. CASE local' = [local EXCEPT ![c].by = "sessionFor"] /\ Goto(c, "lock")
  <2>0. "lock" \in Labels
    BY DEF Labels
  <2>1. PICK y : /\ Moves(c, "lock", y)
                 /\ y.applied = local[c].applied /\ y.cfg = local[c].cfg
    BY <1>2, <2>0, ByMoves
  <2>2. local[c].applied = 0 /\ local[c].cfg <= revision
    BY <1>0 DEF IInv, CallInv, AppliedInv, CapturedInv
  <2>3. Hands(c, "lock")
    BY <1>0, <2>0, SamePlace DEF UnderLoginMu
  <2>4. Entitled("lock", y)
    BY <2>1, <2>2 DEF Entitled, WithCookie
  <2>5. FreshInv'
    BY <1>0, <2>1, FreshStays
  <2> QED BY <1>0, <2>1, <2>3, <2>4, <2>5, OneCall DEF IInv
<1> QED BY <1>1, <1>2 DEF ReadSession

\* The second look, with the mutex (client.go sessionFor).
LEMMA ReadSessionAgainKeeps ==
    ASSUME TypeOK, IInv, NEW c \in Callers, ReadSessionAgain(c)
    PROVE  IInv'
<1>0. pc[c] = "resession" /\ Quiet
  BY DEF ReadSessionAgain, Quiet, configVars, historyVars
<1>1. CASE /\ Serves(session, local[c].cfg)
           /\ local' = [local EXCEPT ![c].saved = session] /\ Goto(c, "sending") /\ Unlock(c)
  <2>1. Hands(c, "sending")
    BY <1>1, UnlockHands DEF UnderLoginMu
  <2> QED BY <1>0, <1>1, <2>1, TakeSession
<1>2. CASE Return(c)
  BY <1>0, <1>2, ReturnKeeps DEF IInv
<1> QED BY <1>1, <1>2 DEF ReadSessionAgain

\* A caller that goes on with its call as it is.
LEMMA GoOn ==
    ASSUME TypeOK, IInv, NEW c \in Callers, NEW l \in Labels, Goto(c, l), UNCHANGED local,
           Quiet, Hands(c, l), Entitled(l, local[c]),
           pc[c] \in {"posted", "saving"} => l \in {"posted", "saving"},
           l \in {"reuse", "posting"} => pc[c] \in {"reuse", "posting"}
    PROVE  IInv'
<1>1. Moves(c, l, local[c])
  BY GotoMoves
<1>2. FreshInv'
  BY <1>1, FreshStays
<1> QED BY <1>1, <1>2, OneCall DEF IInv

\* The caller that takes the mutex is the only one to have it (client.go sessionFor).
LEMMA LockKeeps ==
    ASSUME TypeOK, IInv, NEW c \in Callers, Lock(c)
    PROVE  IInv'
<1>1. /\ pc[c] = "lock" /\ Goto(c, "login") /\ UNCHANGED local /\ Quiet
      /\ loginMu = None /\ loginMu' = c
  BY DEF Lock, Quiet, configVars, historyVars
<1>2. Hands(c, "login")
  BY <1>1, CallersAssumption DEF Hands, UnderLoginMu
<1>3. Entitled("login", local[c])
  BY <1>1 DEF IInv, CallInv, AppliedInv, CapturedInv, Entitled, WithCookie
<1> QED BY <1>1, <1>2, <1>3, GoOn DEF Labels

\* login returns to the call.
LEMMA ToCallKeeps ==
    ASSUME TypeOK, IInv, NEW c \in Callers, pc[c] = "reuse", ToCall(c), Quiet
    PROVE  IInv'
<1>1. \A l \in {"relock", "config"} : Entitled(l, local[c])
  BY DEF IInv, CallInv, AppliedInv, CapturedInv, Entitled, WithCookie
<1>2. CASE Goto(c, "relock") /\ UNCHANGED <<loginMu, local>>
  <2>1. Hands(c, "relock")
    BY <1>2, SamePlace DEF UnderLoginMu, Labels
  <2> QED BY <1>1, <1>2, <2>1, GoOn DEF Labels
<1>3. CASE Goto(c, "config") /\ Unlock(c) /\ UNCHANGED local
  <2>1. Hands(c, "config")
    BY <1>3, UnlockHands DEF UnderLoginMu
  <2> QED BY <1>1, <1>3, <2>1, GoOn DEF Labels
<1> QED BY <1>2, <1>3 DEF ToCall

\* A call posts only when there is no session for it (client.go login).
LEMMA PostKeeps ==
    ASSUME TypeOK, IInv, NEW c \in Callers, Post(c)
    PROVE  IInv'
<1>1. /\ pc[c] = "reuse" /\ Goto(c, "posting") /\ UNCHANGED local /\ Quiet
      /\ UNCHANGED loginMu
  BY DEF Post, Quiet, configVars, historyVars
<1>2. Hands(c, "posting")
  BY <1>1, SamePlace DEF UnderLoginMu, Labels
<1>3. local[c].by # "Login" => ~Serves(session, local[c].cfg)
  BY DEF Post, CanReuse
<1>4. Entitled("posting", local[c])
  BY <1>1, <1>3 DEF IInv, CallInv, AppliedInv, CapturedInv, Entitled, WithCookie
<1> QED BY <1>1, <1>2, <1>4, GoOn DEF Labels

\* A request is sent with what the call has taken (client.go doStarted).
LEMMA SendKeeps ==
    ASSUME TypeOK, IInv, NEW c \in Callers, Send(c)
    PROVE  IInv'
<1>0. pc[c] = "sending" /\ Quiet
  BY DEF Send, Quiet, configVars, historyVars
<1>1. CASE Goto(c, "waiting") /\ UNCHANGED <<loginMu, local>>
  <2>1. Hands(c, "waiting")
    BY <1>0, <1>1, SamePlace DEF UnderLoginMu, Labels
  <2>2. Entitled("waiting", local[c])
    BY <1>0 DEF IInv, CallInv, AppliedInv, CapturedInv, CookieInv, Entitled, WithCookie
  <2> QED BY <1>0, <1>1, <2>1, <2>2, GoOn DEF Labels
<1>2. CASE Return(c)
  BY <1>0, <1>2, ReturnKeeps DEF IInv
<1> QED BY <1>1, <1>2 DEF Send

\* A request is applied at most once, since it is then not repeated (mutation.go).
LEMMA ApplyKeeps ==
    ASSUME TypeOK, IInv, NEW c \in Callers, Apply(c)
    PROVE  IInv'
<1>0. /\ pc[c] = "waiting" /\ Quiet /\ UNCHANGED loginMu /\ Goto(c, "applied")
      /\ local' = [local EXCEPT ![c].applied = @ + 1]
  BY DEF Apply, Quiet, configVars, historyVars
<1>1. "applied" \in Labels
  BY DEF Labels
<1>2. PICK y : /\ Moves(c, "applied", y) /\ y.saved = local[c].saved
               /\ y.applied = local[c].applied + 1 /\ y.cfg = local[c].cfg
  BY <1>0, <1>1, AppliedMoves
<1>3. y.applied = 1
  BY <1>0, <1>2 DEF IInv, CallInv, AppliedInv
<1>4. Hands(c, "applied")
  BY <1>0, <1>1, SamePlace DEF UnderLoginMu
<1>5. Entitled("applied", y)
  BY <1>0, <1>2, <1>3 DEF IInv, CallInv, CapturedInv, CookieInv, Entitled, WithCookie
<1>6. FreshInv'
  BY <1>0, <1>2, FreshStays
<1> QED BY <1>0, <1>2, <1>4, <1>5, <1>6, OneCall DEF IInv

-----------------------------------------------------------------------------
(* Publications, and the steps that change the session or the cookies.      *)

\* Only one caller is between Lock and Unlock.
LEMMA Mutual ==
    ASSUME IInv, NEW c \in Callers, NEW d \in Callers \ {c}, pc[c] \in UnderLoginMu
    PROVE  pc[d] \notin UnderLoginMu
<1>1. LockInv(c) /\ LockInv(d)
  BY DEF IInv, CallInv
<1> QED BY <1>1 DEF LockInv

\* A publication outdates what has been captured.
LEMMA PublishKeeps ==
    ASSUME TypeOK, IInv, Publish
    PROVE  IInv'
<1>1. /\ revision' = revision + 1 /\ session' = session /\ loginMu' = loginMu /\ pc' = pc
      /\ local' = local /\ issued' = issued /\ fresh' = fresh
  BY DEF Publish, historyVars
<1>2. revision \in Nat /\ Len(issued) \in Nat
  BY Numbers
<1>3. SessionInv'
  BY <1>1 DEF IInv, SessionInv, IssuedBy
<1>4. ASSUME NEW c \in Callers
      PROVE  CallInv(c)'
  <2>1. CallInv(c) /\ local[c].cfg \in 0..MaxRevision
    BY CallType DEF IInv
  <2>2. LockInv(c)' /\ CookieInv(c)' /\ LastInv(c)' /\ AppliedInv(c)' /\ NeededInv(c)'
    BY <1>1, <2>1 DEF CallInv, LockInv, CookieInv, LastInv, AppliedInv, NeededInv, IssuedBy,
       Serves
  <2>3. local[c].cfg <= revision /\ local[c].cfg \in Nat
    BY <2>1, BoundsAssumption DEF CallInv, CapturedInv
  <2>4. CapturedInv(c)'
    BY <1>1, <1>2, <2>3 DEF CapturedInv
  <2> QED BY <2>2, <2>4 DEF CallInv
<1>5. Len(issued) # 0 /\ Outdated => Outdated'
  <2> SUFFICES ASSUME Len(issued) # 0, Outdated
               PROVE  Outdated'
    OBVIOUS
  <2>1. issued[Len(issued)] \in Nat
    BY <1>2, Numbers
  <2>2. issued[Len(issued)] < revision'
    BY <1>1, <1>2, <2>1 DEF Outdated
  <2> QED BY <1>1, <2>2 DEF Outdated
<1>6. FreshInv'
  BY <1>1, <1>5 DEF IInv, FreshInv
<1> QED BY <1>3, <1>4, <1>6 DEF IInv

\* The calls that do not move, while cookies are neither issued nor declared fresh.
LEMMA OthersStay ==
    ASSUME TypeOK, IInv, NEW c \in Callers, NEW l, NEW y, Moves(c, l, y), Hands(c, l),
           UNCHANGED <<revision, usable, issued>>, fresh' => fresh,
           \/ session' = session \/ session' = NoSession
           \/ \A d \in Callers \ {c} : pc[d] # "posting",
           NEW d \in Callers \ {c}
    PROVE  CallInv(d)'
<1>1. pc'[d] = pc[d] /\ local'[d] = local[d] /\ CallInv(d)
  BY MovesKeepTypes DEF IInv
<1>2. LockInv(d)'
  BY <1>1 DEF CallInv, LockInv, Hands
<1>3. CookieInv(d)' /\ LastInv(d)' /\ AppliedInv(d)' /\ CapturedInv(d)'
  BY <1>1 DEF CallInv, CookieInv, LastInv, AppliedInv, CapturedInv, IssuedBy
<1>4. NeededInv(d)'
  <2>1. NeededInv(d)
    BY <1>1 DEF CallInv
  <2>2. pc[d] = "refused" /\ local[d].saved.cookie = Len(issued) => ~fresh'
    BY <2>1 DEF NeededInv
  <2>3. pc[d] = "posting" /\ local[d].by # "Login" => ~Serves(session', local[d].cfg)
    BY <2>1 DEF NeededInv, Serves, NoSession
  <2> QED BY <1>1, <2>2, <2>3 DEF NeededInv, Serves
<1> QED BY <1>2, <1>3, <1>4 DEF CallInv

\* A login is answered with a cookie of the captured server.
LEMMA LoginAnsweredKeeps ==
    ASSUME TypeOK, IInv, NEW c \in Callers, LoginAnswered(c)
    PROVE  IInv'
<1> DEFINE s == [cookie |-> Len(issued) + 1, revision |-> local[c].cfg]
<1>1. /\ pc[c] = "posting" /\ Len(issued) < MaxCookies
      /\ issued' = Append(issued, local[c].cfg) /\ fresh' = TRUE
      /\ local' = [local EXCEPT ![c].saved = s] /\ Goto(c, "posted")
      /\ revision' = revision /\ usable' = usable /\ session' = session /\ loginMu' = loginMu
  BY DEF LoginAnswered, configVars
<1>2. /\ Len(issued) \in Nat /\ local[c].cfg \in 0..MaxRevision
      /\ issued \in Seq(0..MaxRevision)
  BY Numbers, CallType DEF TypeOK
<1>3. s \in Sessions /\ "posted" \in Labels
  BY <1>1, <1>2, BoundsAssumption DEF Sessions, Labels
<1>4. s.cookie = Len(issued) + 1 /\ s.revision = local[c].cfg
  OBVIOUS
<1> HIDE DEF s
<1>5. PICK y : /\ Moves(c, "posted", y) /\ y.saved = s
               /\ y.applied = local[c].applied /\ y.cfg = local[c].cfg
  BY <1>1, <1>3, SavedMoves
<1>6. /\ Len(issued') = Len(issued) + 1 /\ issued'[Len(issued) + 1] = local[c].cfg
      /\ \A k \in 1..Len(issued) : issued'[k] = issued[k]
  BY <1>1, <1>2
<1>7. ASSUME NEW k, NEW r, IssuedBy(k, r)
      PROVE  IssuedBy(k, r)' /\ k # Len(issued')
  BY <1>2, <1>6, <1>7 DEF IssuedBy
<1>8. /\ pc'[c] = "posted" /\ local'[c] = y
      /\ \A d \in Callers \ {c} : pc'[d] = pc[d] /\ local'[d] = local[d]
  BY <1>5, MovesKeepTypes
<1>9. SessionInv'
  BY <1>1, <1>7 DEF IInv, SessionInv
<1>10. CallInv(c)'
  <2>1. CallInv(c)
    BY DEF IInv
  <2>2. LockInv(c)'
    BY <1>1, <1>8, <2>1 DEF CallInv, LockInv, UnderLoginMu
  <2>3. CookieInv(c)' /\ LastInv(c)'
    BY <1>2, <1>4, <1>5, <1>6, <1>8 DEF CookieInv, LastInv, IssuedBy
  <2>4. AppliedInv(c)' /\ CapturedInv(c)' /\ NeededInv(c)'
    BY <1>1, <1>5, <1>8, <2>1 DEF CallInv, AppliedInv, CapturedInv, NeededInv
  <2> QED BY <2>2, <2>3, <2>4 DEF CallInv
<1>11. ASSUME NEW d \in Callers \ {c}
       PROVE  CallInv(d)'
  <2>1. pc'[d] = pc[d] /\ local'[d] = local[d] /\ CallInv(d)
    BY <1>8 DEF IInv
  <2>2. pc[d] \notin UnderLoginMu
    BY <1>1, Mutual DEF UnderLoginMu
  <2>3. LockInv(d)' /\ AppliedInv(d)' /\ CapturedInv(d)'
    BY <1>1, <2>1 DEF CallInv, LockInv, AppliedInv, CapturedInv
  <2>4. CookieInv(d)'
    BY <1>7, <2>1 DEF CallInv, CookieInv
  <2>5. LastInv(d)'
    BY <2>1, <2>2 DEF LastInv, UnderLoginMu
  <2>6. pc[d] = "refused" => local[d].saved.cookie # Len(issued')
    BY <1>7, <2>1 DEF CallInv, CookieInv, WithCookie
  <2>7. NeededInv(d)'
    BY <2>1, <2>2, <2>6 DEF NeededInv, UnderLoginMu
  <2> QED BY <2>3, <2>4, <2>5, <2>7 DEF CallInv
<1>12. FreshInv'
  BY <1>2, <1>6, <1>8 DEF FreshInv
<1> QED BY <1>9, <1>10, <1>11, <1>12 DEF IInv

\* The cookie of a login that was overtaken by a publication is outdated.
LEMMA OvertakenIsOutdated ==
    ASSUME TypeOK, IInv, NEW c \in Callers, pc[c] = "posted",
           usable => revision # local[c].cfg, NEW l, NEW y, Moves(c, l, y), Quiet,
           l \in {"idle", "login"}
    PROVE  FreshInv'
<1>1. /\ pc'[c] = l /\ local'[c] = y
      /\ \A d \in Callers \ {c} : pc'[d] = pc[d] /\ local'[d] = local[d]
  BY MovesKeepTypes
<1>2. CallInv(c) /\ local[c].cfg \in 0..MaxRevision /\ revision \in Nat /\ Len(issued) \in Nat
  BY CallType, Numbers DEF IInv
<1>3. /\ local[c].saved.cookie = Len(issued) /\ Len(issued) # 0
      /\ issued[Len(issued)] = local[c].cfg
  BY <1>2 DEF CallInv, CookieInv, LastInv, IssuedBy, WithCookie
<1>4. local[c].cfg # revision
  BY <1>2 DEF CallInv, CapturedInv
<1>5. local[c].cfg < revision
  BY <1>2, <1>4, BoundsAssumption DEF CallInv, CapturedInv
<1>6. \A d \in Callers : pc'[d] \notin {"reuse", "posting"}
  BY <1>1, Mutual DEF UnderLoginMu
<1>7. issued' = issued /\ revision' = revision
  BY DEF Quiet
<1>8. Outdated'
  BY <1>3, <1>5, <1>6, <1>7 DEF Outdated
<1> QED BY <1>3, <1>7, <1>8 DEF FreshInv

\* A login that was overtaken by a publication is repeated or given up (client.go login).
LEMMA CheckLoginKeeps ==
    ASSUME TypeOK, IInv, NEW c \in Callers, CheckLogin(c)
    PROVE  IInv'
<1>0. pc[c] = "posted" /\ Quiet
  BY DEF CheckLogin, Quiet, configVars, historyVars
<1>1. CASE revision = local[c].cfg /\ Goto(c, "saving") /\ UNCHANGED <<loginMu, local>>
  <2>1. Hands(c, "saving")
    BY <1>0, <1>1, SamePlace DEF UnderLoginMu, Labels
  <2>2. Entitled("saving", local[c])
    BY <1>0 DEF IInv, CallInv, AppliedInv, CapturedInv, CookieInv, LastInv, Entitled, WithCookie
  <2> QED BY <1>0, <1>1, <2>1, <2>2, GoOn DEF Labels
<1>2. CASE revision # local[c].cfg /\ Goto(c, "login") /\ UNCHANGED <<loginMu, local>>
  <2>1. Hands(c, "login")
    BY <1>0, <1>2, SamePlace DEF UnderLoginMu, Labels
  <2>2. Entitled("login", local[c])
    BY <1>0 DEF IInv, CallInv, AppliedInv, CapturedInv, Entitled, WithCookie
  <2>3. Moves(c, "login", local[c])
    BY <1>2, GotoMoves DEF Labels
  <2>4. FreshInv'
    BY <1>0, <1>2, <2>3, OvertakenIsOutdated
  <2> QED BY <1>0, <2>1, <2>2, <2>3, <2>4, OneCall DEF IInv
<1>3. CASE ~usable /\ Return(c)
  <2>1. FreshInv'
    BY <1>0, <1>3, ReturnMoves, OvertakenIsOutdated
  <2> QED BY <1>0, <1>3, <2>1, ReturnKeeps DEF IInv
<1> QED BY <1>1, <1>2, <1>3 DEF CheckLogin

\* The saved session holds the last cookie.
LEMMA SaveSessionKeeps ==
    ASSUME TypeOK, IInv, NEW c \in Callers, SaveSession(c)
    PROVE  IInv'
<1>1. /\ pc[c] = "saving" /\ session' = local[c].saved
      /\ revision' = revision /\ usable' = usable /\ issued' = issued /\ fresh' = fresh
  BY DEF SaveSession, configVars, historyVars
<1>2. CallInv(c) /\ Len(issued) \in Nat
  BY Numbers DEF IInv
<1>3. /\ IssuedBy(session'.cookie, session'.revision) /\ session'.cookie = Len(issued)
      /\ Len(issued) # 0
  BY <1>1, <1>2 DEF CallInv, CookieInv, LastInv, WithCookie, IssuedBy
<1>4. SessionInv' /\ FreshInv'
  BY <1>1, <1>3 DEF SessionInv, FreshInv, IssuedBy
<1>5. \A d \in Callers \ {c} : pc[d] # "posting"
  BY <1>1, Mutual DEF UnderLoginMu
<1>6. ASSUME NEW l \in {"idle", "relock", "config"}, NEW y, Moves(c, l, y), Hands(c, l),
             y.applied = 0, y.cfg <= revision
      PROVE  IInv'
  <2>1. \A d \in Callers \ {c} : CallInv(d)'
    BY <1>1, <1>5, <1>6, OthersStay
  <2>2. pc'[c] = l /\ local'[c] = y
    BY <1>6, MovesKeepTypes
  <2>3. LockInv(c)'
    BY <1>6, <2>2 DEF Hands, LockInv
  <2>4. CookieInv(c)' /\ LastInv(c)' /\ AppliedInv(c)' /\ CapturedInv(c)' /\ NeededInv(c)'
    BY <1>1, <1>6, <2>2 DEF CookieInv, LastInv, AppliedInv, CapturedInv, NeededInv, WithCookie
  <2>5. CallInv(c)'
    BY <2>3, <2>4 DEF CallInv
  <2> QED BY <1>4, <2>1, <2>5 DEF IInv
<1>7. CASE Return(c)
  <2>1. Moves(c, "idle", NoCall)
    BY <1>7, ReturnMoves
  <2>3. Hands(c, "idle")
    BY <1>7, UnlockHands DEF Return, UnderLoginMu
  <2>2. NoCall.applied = 0 /\ NoCall.cfg <= revision
    BY Numbers DEF NoCall
  <2> QED BY <1>6, <2>1, <2>2, <2>3
<1>8. CASE UNCHANGED local /\ Goto(c, "relock") /\ UNCHANGED loginMu
  <2>1. Moves(c, "relock", local[c]) /\ Hands(c, "relock")
    BY <1>1, <1>8, GotoMoves, SamePlace DEF UnderLoginMu, Labels
  <2> QED BY <1>1, <1>2, <1>6, <2>1 DEF CallInv, AppliedInv, CapturedInv
<1>9. CASE UNCHANGED local /\ Goto(c, "config") /\ Unlock(c)
  <2>1. Moves(c, "config", local[c]) /\ Hands(c, "config")
    BY <1>9, GotoMoves, UnlockHands DEF UnderLoginMu, Labels
  <2> QED BY <1>1, <1>2, <1>6, <2>1 DEF CallInv, AppliedInv, CapturedInv
<1> QED BY <1>7, <1>8, <1>9 DEF SaveSession, ToLogin, ToCall

\* A refused cookie is not fresh any more.
LEMMA RefuseKeeps ==
    ASSUME TypeOK, IInv, NEW c \in Callers, Refuse(c)
    PROVE  IInv'
<1>1. /\ pc[c] = "waiting" /\ Goto(c, "refused") /\ local' = local
      /\ fresh' = (fresh /\ local[c].saved.cookie # Len(issued))
      /\ revision' = revision /\ usable' = usable /\ issued' = issued /\ session' = session
      /\ loginMu' = loginMu
  BY DEF Refuse, configVars
<1>2. /\ fresh' => fresh
      /\ fresh' => local[c].saved.cookie # Len(issued)
  BY <1>1
<1>3. Moves(c, "refused", local[c]) /\ Hands(c, "refused")
  BY <1>1, GotoMoves, SamePlace DEF UnderLoginMu, Labels
<1>4. /\ pc'[c] = "refused" /\ local'[c] = local[c] /\ CallInv(c)
      /\ \A d \in Callers \ {c} : pc'[d] = pc[d] /\ local'[d] = local[d]
  BY <1>3, MovesKeepTypes DEF IInv
<1>5. ASSUME NEW d \in Callers \ {c}
      PROVE  CallInv(d)'
  BY <1>1, <1>2, <1>3, OthersStay
<1>6. CallInv(c)'
  <2>1. LockInv(c)'
    BY <1>3, <1>4 DEF Hands, LockInv
  <2>2. CookieInv(c)' /\ LastInv(c)' /\ AppliedInv(c)' /\ CapturedInv(c)'
    BY <1>1, <1>4 DEF CallInv, CookieInv, LastInv, AppliedInv, CapturedInv, WithCookie, IssuedBy
  <2>3. NeededInv(c)'
    BY <1>1, <1>2, <1>4 DEF NeededInv
  <2> QED BY <2>1, <2>2, <2>3 DEF CallInv
<1>7. SessionInv'
  BY <1>1 DEF IInv, SessionInv, IssuedBy
<1>8. FreshInv'
  <2> SUFFICES ASSUME fresh'
               PROVE  FreshInv'
    BY DEF FreshInv
  <2>1. /\ Len(issued) # 0
        /\ session.cookie = Len(issued) \/ (\E d \in Callers : pc[d] \in {"posted", "saving"})
           \/ Outdated
    BY <1>2 DEF IInv, FreshInv
  <2>2. Outdated => Outdated'
    BY <1>1, <1>4 DEF Outdated
  <2>3. ASSUME NEW d \in Callers, pc[d] \in {"posted", "saving"}
        PROVE  pc'[d] \in {"posted", "saving"}
    BY <1>1, <1>4, <2>3
  <2> QED BY <1>1, <2>1, <2>2, <2>3 DEF FreshInv
<1> QED BY <1>5, <1>6, <1>7, <1>8 DEF IInv

\* The dropped session is the refused one.
LEMMA ReplayKeeps ==
    ASSUME TypeOK, IInv, NEW c \in Callers, Replay(c)
    PROVE  IInv'
<1>1. /\ pc[c] = "refused"
      /\ revision' = revision /\ usable' = usable /\ issued' = issued /\ fresh' = fresh
      /\ \/ session' = session
         \/ session' = NoSession /\ session = local[c].saved
  BY DEF Replay, Drop, configVars, historyVars
<1>2. CallInv(c) /\ local[c].applied = 0 /\ local[c].cfg <= revision
  BY <1>1 DEF IInv, CallInv, AppliedInv, CapturedInv
<1>3. SessionInv'
  BY <1>1 DEF IInv, SessionInv, IssuedBy, NoSession
<1>4. fresh /\ session.cookie = Len(issued) => session' = session
  BY <1>1, <1>2 DEF CallInv, NeededInv
<1>5. ASSUME NEW l \in {"idle", "lock"}, NEW y, Moves(c, l, y), Hands(c, l),
             y.applied = 0, y.cfg <= revision
      PROVE  IInv'
  <2>1. \A d \in Callers \ {c} : CallInv(d)'
    BY <1>1, <1>5, OthersStay
  <2>2. /\ pc'[c] = l /\ local'[c] = y
        /\ \A d \in Callers \ {c} : pc'[d] = pc[d] /\ local'[d] = local[d]
    BY <1>5, MovesKeepTypes
  <2>3. LockInv(c)'
    BY <1>5, <2>2 DEF Hands, LockInv
  <2>4. CookieInv(c)' /\ LastInv(c)' /\ AppliedInv(c)' /\ CapturedInv(c)' /\ NeededInv(c)'
    BY <1>1, <1>5, <2>2 DEF CookieInv, LastInv, AppliedInv, CapturedInv, NeededInv, WithCookie
  <2>5. CallInv(c)'
    BY <2>3, <2>4 DEF CallInv
  <2>6. Outdated => Outdated'
    BY <1>1, <1>5, <2>2 DEF Outdated
  <2>7. ASSUME NEW d \in Callers, pc[d] \in {"posted", "saving"}
        PROVE  pc'[d] \in {"posted", "saving"}
    BY <1>1, <2>2, <2>7
  <2>8. FreshInv'
    BY <1>1, <1>4, <2>6, <2>7 DEF IInv, FreshInv
  <2> QED BY <1>3, <2>1, <2>5, <2>8 DEF IInv
<1>6. CASE /\ local' = [local EXCEPT ![c].attempt = 1, ![c].by = "replay"]
           /\ Goto(c, "lock") /\ UNCHANGED loginMu
  <2>1. PICK y : Moves(c, "lock", y) /\ y.applied = local[c].applied /\ y.cfg = local[c].cfg
    BY <1>6, AttemptMoves DEF Labels
  <2>2. Hands(c, "lock")
    BY <1>1, <1>6, SamePlace DEF UnderLoginMu, Labels
  <2>3. y.applied = 0 /\ y.cfg <= revision
    BY <1>2, <2>1
  <2> QED BY <1>5, <2>1, <2>2, <2>3
<1>7. CASE Return(c)
  <2>1. Moves(c, "idle", NoCall)
    BY <1>7, ReturnMoves
  <2>3. Hands(c, "idle")
    BY <1>7, UnlockHands DEF Return, UnderLoginMu
  <2>2. NoCall.applied = 0 /\ NoCall.cfg <= revision
    BY Numbers DEF NoCall
  <2> QED BY <1>5, <2>1, <2>2, <2>3
<1> QED BY <1>6, <1>7 DEF Replay

-----------------------------------------------------------------------------
(* Every step keeps the types and the invariant.                            *)

\* The types of what a step that moves one call leaves alone.
LEMMA StepKeepsTypes ==
    ASSUME TypeOK, NEW c \in Callers, NEW l, NEW y, Moves(c, l, y),
           session' \in Sessions, loginMu' \in Callers \cup {None},
           fresh' \in BOOLEAN, UNCHANGED <<revision, usable, issued>>
    PROVE  TypeOK'
<1>1. pc' \in [Callers -> Labels] /\ local' \in [Callers -> Calls]
  BY MovesKeepTypes
<1>2. /\ revision' \in 1..MaxRevision /\ usable' \in BOOLEAN
      /\ issued' \in Seq(0..MaxRevision) /\ Len(issued') <= MaxCookies
  BY DEF TypeOK
<1> QED BY <1>1, <1>2 DEF TypeOK

\* A caller that goes on, or returns, leaves the variables typed.
LEMMA QuietTypes ==
    ASSUME TypeOK, NEW c \in Callers, NEW l, NEW y, Moves(c, l, y), Quiet,
           \/ loginMu' = loginMu \/ loginMu' = c \/ loginMu' = None
    PROVE  TypeOK'
<1>1. session' \in Sessions /\ fresh' \in BOOLEAN /\ UNCHANGED <<revision, usable, issued>>
  BY DEF TypeOK, Quiet
<1>2. loginMu' \in Callers \cup {None}
  BY DEF TypeOK
<1> QED BY <1>1, <1>2, StepKeepsTypes

\* Unlock leaves nobody or another caller with the mutex.
LEMMA UnlockType ==
    ASSUME NEW c \in Callers, Unlock(c)
    PROVE  loginMu' = loginMu \/ loginMu' = None
  BY DEF Unlock

\* A return keeps the types.
LEMMA ReturnTypes ==
    ASSUME TypeOK, NEW c \in Callers, Return(c), Quiet
    PROVE  TypeOK'
<1>1. Moves(c, "idle", NoCall)
  BY ReturnMoves
<1>2. loginMu' = loginMu \/ loginMu' = None
  BY UnlockType DEF Return
<1> QED BY <1>1, <1>2, QuietTypes

\* A step that leaves the locals alone keeps the types.
LEMMA GotoTypes ==
    ASSUME TypeOK, NEW c \in Callers, NEW l \in Labels, Goto(c, l), UNCHANGED local, Quiet,
           \/ loginMu' = loginMu \/ loginMu' = c \/ loginMu' = None
    PROVE  TypeOK'
<1>1. Moves(c, l, local[c])
  BY GotoMoves
<1> QED BY <1>1, QuietTypes

\* The capture of a configuration keeps the types.
LEMMA CaptureTypes ==
    ASSUME TypeOK, NEW c \in Callers, NEW l \in Labels, Capture(c, l), Quiet
    PROVE  TypeOK'
<1>1. CASE local' = [local EXCEPT ![c].cfg = revision] /\ Goto(c, l) /\ UNCHANGED loginMu
  <2>1. \E y : Moves(c, l, y)
    BY <1>1, CfgMoves
  <2> QED BY <1>1, <2>1, QuietTypes
<1>2. CASE Return(c)
  BY <1>2, ReturnTypes
<1> QED BY <1>1, <1>2 DEF Capture

\* Steps that leave the shared session and the cookies alone.
LEMMA QuietStepTypes ==
    ASSUME TypeOK, NEW c \in Callers,
           \/ ReadConfig(c) \/ ReadSession(c) \/ ReadConfigAgain(c) \/ ReadSessionAgain(c)
           \/ Lock(c) \/ LoginConfig(c) \/ Reuse(c) \/ Post(c) \/ LoginFails(c)
           \/ CheckLogin(c) \/ Send(c) \/ Apply(c) \/ Answered(c)
    PROVE  TypeOK'
<1>0. Quiet
  BY DEF Quiet, configVars, historyVars, ReadConfig, ReadSession, ReadConfigAgain,
     ReadSessionAgain, Lock, LoginConfig, Reuse, Post, LoginFails, CheckLogin, Send, Apply,
     Answered
<1>00. \A l \in {"config", "session", "lock", "login", "reuse", "posting", "saving",
                 "relock", "resession", "sending", "waiting", "applied"} : l \in Labels
  BY DEF Labels
<1>1. CASE ReadConfig(c) \/ ReadConfigAgain(c) \/ LoginConfig(c)
  <2>1. Capture(c, "session") \/ Capture(c, "resession") \/ Capture(c, "reuse")
    BY <1>1 DEF ReadConfig, ReadConfigAgain, LoginConfig
  <2> QED BY <1>0, <1>00, <2>1, CaptureTypes
<1>2. CASE ReadSession(c) \/ ReadSessionAgain(c)
  <2>1. session \in Sessions
    BY DEF TypeOK
  <2>2. CASE Return(c)
    BY <1>0, <2>2, ReturnTypes
  <2>3. CASE /\ local' = [local EXCEPT ![c].saved = session] /\ Goto(c, "sending")
             /\ loginMu' = loginMu \/ loginMu' = None
    <3>1. \E y : Moves(c, "sending", y)
      BY <1>00, <2>1, <2>3, SavedMoves
    <3> QED BY <1>0, <2>3, <3>1, QuietTypes
  <2>4. CASE /\ local' = [local EXCEPT ![c].by = "sessionFor"] /\ Goto(c, "lock")
             /\ UNCHANGED loginMu
    <3>1. \E y : Moves(c, "lock", y)
      BY <1>00, <2>4, ByMoves
    <3> QED BY <1>0, <2>4, <3>1, QuietTypes
  <2> QED BY <1>2, <2>2, <2>3, <2>4, UnlockType DEF ReadSession, ReadSessionAgain
<1>3. CASE Lock(c) \/ Post(c)
  BY <1>0, <1>00, <1>3, GotoTypes DEF Lock, Post
<1>4. CASE Reuse(c)
  BY <1>0, <1>00, <1>4, GotoTypes, UnlockType DEF Reuse, ToCall
<1>5. CASE LoginFails(c) \/ Answered(c)
  BY <1>0, <1>5, ReturnTypes DEF LoginFails, Answered
<1>6. CASE CheckLogin(c)
  <2>1. CASE Return(c)
    BY <1>0, <2>1, ReturnTypes
  <2>2. CASE (Goto(c, "saving") \/ Goto(c, "login")) /\ UNCHANGED <<loginMu, local>>
    BY <1>0, <1>00, <2>2, GotoTypes
  <2> QED BY <1>6, <2>1, <2>2 DEF CheckLogin
<1>7. CASE Send(c)
  <2>1. CASE Return(c)
    BY <1>0, <2>1, ReturnTypes
  <2>2. CASE Goto(c, "waiting") /\ UNCHANGED <<loginMu, local>>
    BY <1>0, <1>00, <2>2, GotoTypes
  <2> QED BY <1>7, <2>1, <2>2 DEF Send
<1>8. CASE Apply(c)
  <2>1. \E y : Moves(c, "applied", y)
    BY <1>00, <1>8, AppliedMoves DEF Apply
  <2> QED BY <1>0, <1>8, <2>1, QuietTypes DEF Apply
<1> QED BY <1>1, <1>2, <1>3, <1>4, <1>5, <1>6, <1>7, <1>8

\* Every step keeps the types.
LEMMA TypesStep ==
    ASSUME TypeOK, IInv, [Next]_vars
    PROVE  TypeOK'
<1>0. "lock" \in Labels /\ "posted" \in Labels /\ "refused" \in Labels
      /\ "relock" \in Labels /\ "config" \in Labels
  BY DEF Labels
<1>1. CASE UNCHANGED vars
  BY <1>1 DEF vars, configVars, historyVars, TypeOK
<1>2. CASE Publish
  BY <1>2, BoundsAssumption DEF Publish, historyVars, TypeOK
<1>3. ASSUME NEW c \in Callers, NEW o \in Ops, Begin(c, o)
      PROVE  TypeOK'
  <2>1. ASSUME NEW l \in Labels, Goto(c, l)
        PROVE  TypeOK'
    <3>1. local' = [local EXCEPT ![c].op = o] /\ Quiet /\ loginMu' = loginMu
      BY <1>3 DEF Begin, Quiet, configVars, historyVars
    <3>2. \E y : Moves(c, l, y)
      BY <2>1, <3>1, OpMoves
    <3> QED BY <3>1, <3>2, QuietTypes
  <2>2. Goto(c, "lock") \/ Goto(c, "config")
    BY <1>3 DEF Begin
  <2> QED BY <1>0, <2>1, <2>2
<1>4. ASSUME NEW c \in Callers, LoginAnswered(c)
      PROVE  TypeOK'
  <2> DEFINE s == [cookie |-> Len(issued) + 1, revision |-> local[c].cfg]
  <2>1. /\ Len(issued) < MaxCookies /\ Len(issued) \in Nat /\ local[c].cfg \in 0..MaxRevision
        /\ issued' = Append(issued, local[c].cfg) /\ issued \in Seq(0..MaxRevision)
    BY <1>4, Numbers, CallType DEF LoginAnswered, TypeOK
  <2>2. s \in Sessions
    BY <2>1, BoundsAssumption DEF Sessions
  <2>3. /\ local' = [local EXCEPT ![c].saved = s] /\ Goto(c, "posted") /\ fresh' = TRUE
        /\ revision' = revision /\ usable' = usable /\ session' = session
        /\ loginMu' = loginMu
    BY <1>4 DEF LoginAnswered, configVars
  <2> HIDE DEF s
  <2>4. \E y : Moves(c, "posted", y)
    BY <1>0, <2>2, <2>3, SavedMoves
  <2>5. pc' \in [Callers -> Labels] /\ local' \in [Callers -> Calls]
    BY <2>4, MovesKeepTypes
  <2>6. issued' \in Seq(0..MaxRevision) /\ Len(issued') <= MaxCookies
    BY <2>1, BoundsAssumption
  <2> QED BY <2>3, <2>5, <2>6 DEF TypeOK
<1>5. ASSUME NEW c \in Callers, NEW l, NEW y, Moves(c, l, y),
             session' = session \/ session' = NoSession \/ session' = local[c].saved,
             loginMu' = loginMu \/ loginMu' = None,
             UNCHANGED <<revision, usable, issued, fresh>>
      PROVE  TypeOK'
  <2>1. session' \in Sessions
    BY <1>5, NoCallType, CallType DEF TypeOK
  <2>2. loginMu' \in Callers \cup {None} /\ fresh' \in BOOLEAN
    BY <1>5 DEF TypeOK
  <2> QED BY <1>5, <2>1, <2>2, StepKeepsTypes
<1>6. ASSUME NEW c \in Callers, SaveSession(c)
      PROVE  TypeOK'
  <2>1. session' = local[c].saved /\ UNCHANGED <<revision, usable, issued, fresh>>
    BY <1>6 DEF SaveSession, configVars, historyVars
  <2>2. CASE Return(c)
    <3>1. Moves(c, "idle", NoCall) /\ (loginMu' = loginMu \/ loginMu' = None)
      BY <2>2, ReturnMoves, UnlockType DEF Return
    <3> QED BY <1>5, <2>1, <3>1
  <2>3. ASSUME NEW l \in Labels, Goto(c, l), local' = local, loginMu' = loginMu \/ loginMu' = None
        PROVE  TypeOK'
    <3>1. Moves(c, l, local[c])
      BY <2>3, GotoMoves
    <3> QED BY <1>5, <2>1, <2>3, <3>1
  <2>4. CASE Goto(c, "relock") /\ local' = local /\ loginMu' = loginMu
    BY <1>0, <2>3, <2>4
  <2>5. CASE Goto(c, "config") /\ local' = local /\ Unlock(c)
    BY <1>0, <2>3, <2>5, UnlockType
  <2> QED BY <1>6, <2>2, <2>4, <2>5 DEF SaveSession, ToLogin, ToCall
<1>7. ASSUME NEW c \in Callers, Refuse(c)
      PROVE  TypeOK'
  <2>1. /\ Goto(c, "refused") /\ local' = local
        /\ session' = session /\ loginMu' = loginMu
        /\ UNCHANGED <<revision, usable, issued>>
    BY <1>7 DEF Refuse, configVars
  <2>2. fresh' \in BOOLEAN
    BY <1>7 DEF Refuse
  <2>3. Moves(c, "refused", local[c])
    BY <1>0, <2>1, GotoMoves
  <2>4. session' \in Sessions /\ loginMu' \in Callers \cup {None}
    BY <2>1 DEF TypeOK
  <2> QED BY <2>1, <2>2, <2>3, <2>4, StepKeepsTypes
<1>8. ASSUME NEW c \in Callers, Replay(c)
      PROVE  TypeOK'
  <2>1. /\ session' = session \/ session' = NoSession
        /\ UNCHANGED <<revision, usable, issued, fresh>>
    BY <1>8 DEF Replay, Drop, configVars, historyVars
  <2>2. CASE Return(c)
    <3>1. Moves(c, "idle", NoCall) /\ (loginMu' = loginMu \/ loginMu' = None)
      BY <2>2, ReturnMoves, UnlockType DEF Return
    <3> QED BY <1>5, <2>1, <3>1
  <2>3. CASE /\ local' = [local EXCEPT ![c].attempt = 1, ![c].by = "replay"]
             /\ Goto(c, "lock") /\ loginMu' = loginMu
    <3>1. \E y : Moves(c, "lock", y)
      BY <1>0, <2>3, AttemptMoves
    <3> QED BY <1>5, <2>1, <2>3, <3>1
  <2> QED BY <1>8, <2>2, <2>3 DEF Replay
<1> QED BY <1>1, <1>2, <1>3, <1>4, <1>6, <1>7, <1>8, QuietStepTypes DEF Next, Step

\* Every step keeps the invariant.
LEMMA InvStep ==
    ASSUME TypeOK, IInv, [Next]_vars
    PROVE  IInv'
<1>1. CASE UNCHANGED vars
  <2>1. /\ revision' = revision /\ usable' = usable /\ session' = session
        /\ loginMu' = loginMu /\ pc' = pc /\ local' = local /\ issued' = issued
        /\ fresh' = fresh
    BY <1>1 DEF vars, configVars, historyVars
  <2>2. SessionInv' /\ FreshInv'
    BY <2>1 DEF IInv, SessionInv, FreshInv, Outdated, IssuedBy
  <2>3. ASSUME NEW c \in Callers
        PROVE  CallInv(c)'
    BY <2>1 DEF IInv, CallInv, LockInv, CookieInv, LastInv, AppliedInv, CapturedInv,
       NeededInv, IssuedBy, Serves
  <2> QED BY <2>2, <2>3 DEF IInv
<1>2. CASE Publish
  BY <1>2, PublishKeeps
<1>3. ASSUME NEW c \in Callers, NEW o \in Ops, Begin(c, o)
      PROVE  IInv'
  BY <1>3, BeginKeeps
<1>4. ASSUME NEW c \in Callers, ReadConfig(c) \/ ReadConfigAgain(c) \/ LoginConfig(c)
      PROVE  IInv'
  <2>1. Quiet
    BY <1>4 DEF ReadConfig, ReadConfigAgain, LoginConfig, Quiet, configVars, historyVars
  <2>2. \/ pc[c] = "config" /\ Capture(c, "session")
        \/ pc[c] = "relock" /\ Capture(c, "resession")
        \/ pc[c] = "login" /\ Capture(c, "reuse")
    BY <1>4 DEF ReadConfig, ReadConfigAgain, LoginConfig
  <2> QED BY <2>1, <2>2, CaptureKeeps DEF UnderLoginMu
<1>5. ASSUME NEW c \in Callers, Reuse(c)
      PROVE  IInv'
  <2>1. pc[c] = "reuse" /\ ToCall(c) /\ Quiet
    BY <1>5 DEF Reuse, Quiet, configVars, historyVars
  <2> QED BY <2>1, ToCallKeeps
<1>6. ASSUME NEW c \in Callers, LoginFails(c) \/ Answered(c)
      PROVE  IInv'
  <2>1. Return(c) /\ Quiet /\ pc[c] \notin {"posted", "saving"}
    BY <1>6 DEF LoginFails, Answered, Quiet, configVars, historyVars
  <2> QED BY <2>1, ReturnKeeps DEF IInv
<1>7. ASSUME NEW c \in Callers, Step(c) \/ Lock(c)
      PROVE  IInv'
  BY <1>4, <1>5, <1>6, <1>7, ReadSessionKeeps, ReadSessionAgainKeeps, LockKeeps, PostKeeps,
     LoginAnsweredKeeps, CheckLoginKeeps, SaveSessionKeeps, SendKeeps, ApplyKeeps,
     RefuseKeeps, ReplayKeeps DEF Step
<1> QED BY <1>1, <1>2, <1>3, <1>7 DEF Next

\* The types and the invariant hold when the client is made.
LEMMA Initially ==
    ASSUME Init
    PROVE  TypeOK /\ IInv
<1>1. /\ revision = 1 /\ usable \in BOOLEAN /\ session = NoSession /\ loginMu = None
      /\ pc = [c \in Callers |-> "idle"] /\ local = [c \in Callers |-> NoCall]
      /\ issued = <<>> /\ fresh = FALSE
  BY DEF Init
<1>2. pc \in [Callers -> Labels]
  BY <1>1 DEF Labels
<1>3. local \in [Callers -> Calls] /\ session \in Sessions
  BY <1>1, NoCallType
<1>4. issued \in Seq(0..MaxRevision) /\ Len(issued) = 0
  BY <1>1
<1>5. TypeOK
  <2>1. revision \in 1..MaxRevision /\ Len(issued) <= MaxCookies
    BY <1>1, <1>4, BoundsAssumption
  <2>2. fresh \in BOOLEAN /\ loginMu \in Callers \cup {None}
    BY <1>1
  <2> QED BY <1>1, <1>2, <1>3, <1>4, <2>1, <2>2 DEF TypeOK
<1>6. SessionInv /\ FreshInv
  BY <1>1 DEF SessionInv, FreshInv, NoSession
<1>7. ASSUME NEW c \in Callers
      PROVE  CallInv(c)
  <2>1. /\ pc[c] = "idle" /\ local[c].applied = 0 /\ local[c].cfg = 0
        /\ loginMu # c /\ revision = 1
    BY <1>1, CallersAssumption DEF NoCall
  <2> QED BY <2>1 DEF CallInv, LockInv, CookieInv, LastInv, AppliedInv, CapturedInv,
             NeededInv, UnderLoginMu, WithCookie
<1> QED BY <1>5, <1>6, <1>7 DEF IInv

\* The types and the invariant hold throughout.
THEOREM Invariance == Spec => [](TypeOK /\ IInv)
<1>1. Init => TypeOK /\ IInv
  BY Initially
<1>2. (TypeOK /\ IInv) /\ [Next]_vars => (TypeOK /\ IInv)'
  BY TypesStep, InvStep
<1> QED BY <1>1, <1>2, PTL DEF Spec

-----------------------------------------------------------------------------
(* The properties.                                                          *)

\* Every variable has its type (the variables of client.go).
THEOREM CallsAreTyped == Spec => []TypeOK
<1> QED BY Invariance, PTL

\* A cookie is only sent to the server that has issued it (client.go sessionFor, login).
THEOREM CookiesStayHome == Spec => []CookieStaysHome
<1>1. TypeOK /\ IInv => CookieStaysHome
  BY DEF IInv, CallInv, CookieInv, IssuedBy, WithCookie, CookieStaysHome
<1> QED BY <1>1, Invariance, PTL

\* A rename is applied at most once per call (mutation.go authenticatedMutation).
THEOREM RenamesAreNotRepeated == Spec => []AppliedAtMostOnce
<1>1. TypeOK /\ IInv => AppliedAtMostOnce
  <2> SUFFICES ASSUME IInv, NEW c \in Callers
               PROVE  local[c].applied <= 1
    BY DEF AppliedAtMostOnce
  <2>1. local[c].applied = 0 \/ local[c].applied = 1
    BY DEF IInv, CallInv, AppliedInv
  <2> QED BY <2>1
<1> QED BY <1>1, Invariance, PTL

\* A call only logs in again at a server that has refused its last cookie (client.go
\* login).
THEOREM LoginsAreShared == Spec => LoginIsShared
<1> DEFINE Shared == \A c \in Callers :
                        /\ pc[c] = "posting" /\ pc'[c] = "posted"
                        /\ local[c].by # "Login"
                        /\ fresh
                        => issued[Len(issued)] # local[c].cfg
<1>1. TypeOK /\ IInv => Shared
  <2> SUFFICES ASSUME TypeOK, IInv, NEW c \in Callers, pc[c] = "posting",
                      local[c].by # "Login", fresh
               PROVE  issued[Len(issued)] # local[c].cfg
    OBVIOUS
  <2>1. /\ Len(issued) # 0 /\ Len(issued) \in Nat /\ ~Serves(session, local[c].cfg)
        /\ local[c].cfg \in 0..MaxRevision
    BY Numbers, CallType DEF IInv, FreshInv, CallInv, NeededInv
  <2>2. CASE session.cookie = Len(issued)
    <3>1. session.revision # local[c].cfg
      BY <2>1, <2>2 DEF Serves
    <3> QED BY <2>1, <2>2, <3>1 DEF IInv, SessionInv, IssuedBy
  <2>3. CASE \E d \in Callers : pc[d] \in {"posted", "saving"}
    BY <2>3, Mutual DEF UnderLoginMu
  <2>4. CASE Outdated
    <3>1. issued[Len(issued)] < local[c].cfg
      BY <2>4 DEF Outdated
    <3>2. issued[Len(issued)] \in Nat /\ local[c].cfg \in Nat
      BY <2>1, Numbers, BoundsAssumption
    <3> QED BY <3>1, <3>2
  <2> QED BY <2>2, <2>3, <2>4 DEF IInv, FreshInv
<1>2. TypeOK /\ IInv /\ [Next]_vars => [Shared]_vars
  BY <1>1
<1> QED BY <1>2, Invariance, PTL DEF Spec, LoginIsShared

=============================================================================
