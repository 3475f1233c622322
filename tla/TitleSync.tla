------------------------------ MODULE TitleSync ------------------------------
(***************************************************************************)
(* Title synchronisation: management requests (internal/api/title/sync.go)  *)
(* and the scheduled job (internal/app/task_sync.go) that share the gate,    *)
(* with the configuration updates and cache clears of internal/api/system   *)
(* that clear it.                                                           *)
(*                                                                         *)
(* A configuration is abstracted to its version, and the stored titles of a *)
(* marker to the set of configuration versions they were fetched with.      *)
(***************************************************************************)
EXTENDS TitleSyncGate

CONSTANTS
    Requests,       \* goroutines serving title-sync requests
    Task,           \* the scheduled job: the scheduler runs one at a time
    Active,         \* bound: the markers that requests and the job synchronise
    MaxConfig,      \* bound: committed configurations
    MaxGeneration   \* bound: clears of a marker before clear requests stop

ASSUME SyncersAssumption == Task \notin Requests /\ Active \subseteq Markers
ASSUME ConfigAssumption == MaxConfig \in Nat /\ MaxGeneration \in Nat

VARIABLES
    config,    \* version of the committed configuration rows
    titles,    \* [Markers -> SUBSET Nat]: configurations the stored rows came from
    admin,     \* what the holder of system.Handler.mu is doing
    pending,   \* the markers it has yet to clear
    pc,        \* what each syncer is doing
    attempt,   \* the attempt each syncer was admitted with
    read,      \* the configuration each syncer has read
    spared     \* history: a sync of the marker committed, was retained and failed
               \* to refresh, and no operator has cleared the marker since

adminVars == <<config, admin, pending>>
syncVars == <<pc, attempt, read>>
vars == <<gateVars, adminVars, syncVars, titles, spared>>

Syncers == Requests \cup {Task}

\* Sonarr and Radarr titles are replaced, TMDB titles are upserted.
Replaced == {"sonarr", "radarr"}

\* The values of the locals of a goroutine that has not begun.
NoAttempt == [marker |-> "sonarr", generation |-> 0, id |-> 0]

Init ==
    /\ newTitleSyncGate
    /\ config = 1
    /\ titles = [m \in Markers |-> {}]
    /\ admin = "idle"
    /\ pending = {}
    /\ pc = [s \in Syncers |-> "idle"]
    /\ attempt = [s \in Syncers |-> NoAttempt]
    /\ read = [s \in Syncers |-> 0]
    /\ spared = [m \in Markers |-> FALSE]

Goto(s, state) == pc' = [pc EXCEPT ![s] = state]

\* s goes on to state; its locals are gone once it has returned.
GotoOrReturn(s, state) ==
    /\ Goto(s, state)
    /\ attempt' = [attempt EXCEPT ![s] = IF state = "idle" THEN NoAttempt ELSE @]
    /\ read' = [read EXCEPT ![s] = 0]

-----------------------------------------------------------------------------
(* A title synchronisation, request or task.                                *)

\* The gate admits s to synchronise m. A caller it turns away changes nothing.
Admit(s, m) ==
    /\ BeginTitleSync(m)
    /\ attempt' = [attempt EXCEPT ![s] = NewAttempt(m)]
    /\ Goto(s, "admitted")
    /\ UNCHANGED <<adminVars, read, titles, spared>>

StartRequest(s, m) == pc[s] = "idle" /\ Admit(s, m)

\* The Sonarr job synchronises Sonarr first; the Radarr job is a single sync.
StartTask(m) == pc[Task] = "idle" /\ Admit(Task, m)

\* The configuration is read in one query, after admission.
LoadConfig(s) ==
    /\ pc[s] = "admitted"
    /\ read' = [read EXCEPT ![s] = config]
    /\ Goto(s, "configured")
    /\ UNCHANGED <<gateVars, adminVars, attempt, titles, spared>>

\* One transaction deletes the rows there are, or leaves those that have no new version,
\* and upserts the new ones in batches.
TitlesAfter(m, version) ==
    IF m \in Replaced THEN {version} ELSE titles[m] \cup {version}

\* The rows are fetched and stored.
Replace(s) ==
    /\ pc[s] = "configured"
    /\ titles' = [titles EXCEPT ![attempt[s].marker] = TitlesAfter(attempt[s].marker, read[s])]
    /\ Goto(s, "stored")
    /\ UNCHANGED <<gateVars, adminVars, attempt, read, spared>>

\* The configuration is unusable, the provider cannot be reached, its answer
\* cannot be mapped, the transaction rolls back, or the context ends.
SyncFails(s) ==
    /\ pc[s] \in {"admitted", "configured"}
    /\ Goto(s, "failed")
    /\ UNCHANGED <<gateVars, adminVars, attempt, read, titles, spared>>

FinishSucceeded(s) ==
    /\ pc[s] = "stored"
    /\ FinishTitleSync(attempt[s], TRUE)
    /\ Goto(s, "publishing")
    /\ UNCHANGED <<adminVars, attempt, read, titles, spared>>

\* A request goes on to delete the retry marker; the task returns its error.
FinishFailed(s) ==
    /\ pc[s] = "failed"
    /\ FinishTitleSync(attempt[s], FALSE)
    /\ GotoOrReturn(s, IF s = Task THEN "idle" ELSE "released")
    /\ UNCHANGED <<adminVars, titles, spared>>

\* Registry.DeleteMarker, wired to the failure path of a request.
DeleteMarker(s) ==
    /\ pc[s] = "released"
    /\ ClearGate(attempt[s].marker)
    /\ GotoOrReturn(s, "idle")
    /\ UNCHANGED <<adminVars, titles, spared>>

\* The runtime snapshot is refreshed. The Sonarr job goes on to TMDB.
Invalidate(s) ==
    /\ pc[s] = "publishing"
    /\ GotoOrReturn(s, IF s = Task /\ attempt[s].marker = "sonarr" THEN "chained"
                                                                  ELSE "idle")
    /\ UNCHANGED <<gateVars, adminVars, titles, spared>>

\* The refresh fails: the rows stay committed and the success stays retained.
InvalidateFails(s) ==
    /\ pc[s] = "publishing"
    /\ GotoOrReturn(s, "idle")
    /\ LET m == attempt[s].marker IN
       spared' = [spared EXCEPT ![m] = @ \/ /\ states[m].retainedSuccess
                                            /\ states[m].attemptID = attempt[s].id]
    /\ UNCHANGED <<gateVars, adminVars, titles>>

ChainTMDB == pc[Task] = "chained" /\ Admit(Task, "tmdb")

\* The gate refuses TMDB: the job ends without an error.
SkipTMDB ==
    /\ pc[Task] = "chained"
    /\ TooFrequent("tmdb")
    /\ GotoOrReturn(Task, "idle")
    /\ UNCHANGED <<gateVars, adminVars, titles, spared>>

-----------------------------------------------------------------------------
(* Configuration updates and cache clears, one at a time under Handler.mu.  *)

BeginUpdate ==
    /\ admin = "idle"
    /\ admin' = "updating"
    /\ UNCHANGED <<gateVars, config, pending, syncVars, titles, spared>>

\* The rows are invalid or the transaction rolls back.
RejectUpdate ==
    /\ admin = "updating"
    /\ admin' = "idle"
    /\ UNCHANGED <<gateVars, config, pending, syncVars, titles, spared>>

CommitConfig ==
    /\ admin = "updating"
    /\ config < MaxConfig
    /\ config' = config + 1
    /\ admin' = "committed"
    /\ UNCHANGED <<gateVars, pending, syncVars, titles, spared>>

\* PublishPrepared swaps the snapshot; DeleteSystemConfigSyncMarkers follows.
PublishConfig ==
    /\ admin = "committed"
    /\ admin' = "clearing"
    /\ pending' = Markers
    /\ UNCHANGED <<gateVars, config, syncVars, titles, spared>>

\* An operator clears all caches or one marker, and the refresh succeeds.
BeginClear(S) ==
    /\ admin = "idle"
    /\ \A m \in S : states[m].generation < MaxGeneration
    /\ admin' = "clearing"
    /\ pending' = S
    /\ UNCHANGED <<gateVars, config, syncVars, titles, spared>>

\* One marker is cleared at a time, in the order of titleSyncMarkers.
ClearNext ==
    /\ admin = "clearing"
    /\ \E m \in pending :
        /\ \A n \in pending : Position[m] <= Position[n]
        /\ ClearGate(m)
        /\ pending' = pending \ {m}
        /\ spared' = [spared EXCEPT ![m] = FALSE]
    /\ UNCHANGED <<config, admin, syncVars, titles>>

ClearDone ==
    /\ admin = "clearing"
    /\ pending = {}
    /\ admin' = "idle"
    /\ UNCHANGED <<gateVars, config, pending, syncVars, titles, spared>>

-----------------------------------------------------------------------------
SyncerStep(s) ==
    \/ LoadConfig(s)
    \/ Replace(s)
    \/ FinishSucceeded(s)
    \/ FinishFailed(s)
    \/ DeleteMarker(s)
    \/ Invalidate(s)

TaskStep == ChainTMDB \/ SkipTMDB

AdminStep == RejectUpdate \/ CommitConfig \/ PublishConfig \/ ClearNext \/ ClearDone

Arrival ==
    \/ \E s \in Requests, m \in Active : StartRequest(s, m)
    \/ \E m \in Replaced \cap Active : StartTask(m)
    \/ BeginUpdate
    \/ \E S \in {Markers} \cup {{m} : m \in Markers} : BeginClear(S)

Next ==
    \/ Arrival
    \/ \E s \in Syncers : SyncerStep(s) \/ SyncFails(s) \/ InvalidateFails(s)
    \/ TaskStep
    \/ AdminStep

Spec == Init /\ [][Next]_vars

\* Goroutines run, and every fetch ends because the HTTP client has a timeout.
FairSpec == Spec /\ \A s \in Syncers : WF_vars(SyncerStep(s) \/ SyncFails(s))

-----------------------------------------------------------------------------
SyncerStates == {"idle", "admitted", "configured", "stored", "failed", "released",
                 "publishing", "chained"}

\* Every variable has its type; an attempt number is never given out twice.
TypeOK ==
    /\ states \in [Markers -> GateStates]
    /\ nextID \in Nat
    /\ \A m \in Markers : states[m].attemptID <= nextID
    /\ config \in Nat
    /\ titles \in [Markers -> SUBSET Nat]
    /\ admin \in {"idle", "updating", "committed", "clearing"}
    /\ pending \subseteq Markers
    /\ pc \in [Syncers -> SyncerStates]
    /\ attempt \in [Syncers -> Attempts]
    /\ read \in [Syncers -> Nat]
    /\ spared \in [Markers -> BOOLEAN]

\* s has begun a synchronisation of m and has not told the gate its outcome.
Syncing(s, m) ==
    /\ pc[s] \in {"admitted", "configured", "stored", "failed"}
    /\ attempt[s].marker = m

\* Two goroutines never synchronise the same titles at once, and the gate says
\* "in flight" exactly while one does: clears that land in the middle neither let
\* a second one in nor leave the gate shut behind the first.
OneSyncPerMarker ==
    \A m \in Markers :
        /\ \A s, t \in Syncers : Syncing(s, m) /\ Syncing(t, m) => s = t
        /\ states[m].inFlight <=> \E s \in Syncers : Syncing(s, m)

\* An update that has committed still has to clear m, or a clear of m is due.
ClearDue(m) == admin = "committed" \/ m \in pending

\* A retained success stands for titles fetched with the committed configuration,
\* and for Sonarr and Radarr for nothing else: a sync that read the configuration
\* before an update never shuts out the sync that would read the new one.
RetainedTitlesAreCurrent ==
    \A m \in Markers : states[m].retainedSuccess /\ ~ClearDue(m) =>
        /\ config \in titles[m]
        /\ m \in Replaced => titles[m] = {config}

\* A marker that is in flight comes out of flight, so that the next sync gets in.
AttemptsEnd == \A m \in Markers : states[m].inFlight ~> ~states[m].inFlight

\* "If runtime refresh fails after a database commit, the rows remain committed
\* and the retained success gate prevents a duplicate replace until explicit
\* invalidation" (docs/architecture.md).
NoDuplicateReplace ==
    [][\A s \in Syncers : Replace(s) => ~spared[attempt[s].marker]]_vars

=============================================================================
