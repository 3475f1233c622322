# jproxy-go: a TLA+ verification project

jproxy-go is a proxy between Sonarr/Radarr and indexers (Jackett, Prowlarr). It rewrites search
requests and result titles, renames torrents in qBittorrent or Transmission, keeps rules and titles in
SQLite, and offers a management API. This directory models its concurrent core: what is published to
readers and when, how searches are paged and cached, who may synchronise titles and rules, how background
jobs run and stop, how torrents are renamed, who is logged in, how a database is taken over, and how the
process starts and ends.

## 1. Inventory

| Component (under `src/`) | State it keeps | Operations | Talks to |
|---|---|---|---|
| `internal/runtime` provider | one atomic pointer to an immutable `Snapshot`, a mutex that serialises publications, six revision counters | `Snapshot`, `Refresh(scopes)`, `publishPrepared`, `Admit…Mutation` | loads from the SQLite store; read by the proxy, the rename task and both downloader clients |
| `internal/runtime` registry | result, offset and marker caches, the title-sync gate | `Invalidate(names)`, `InvalidateAll`, `DeleteMarker`, `DeleteSystemConfigSyncMarkers`, `BeginTitleSync`, `FinishTitleSync` | called by every management handler and by the sync tasks |
| title-sync gate | per marker: in flight, retained success, generation, attempt number | `begin`, `finish`, `clear`, `clearAll` | the registry |
| `internal/api/system` | a mutex over updates and clears | update of the whole configuration, clear of one or all caches | store transaction, provider, registry |
| `internal/api/title`, `rule`, `example`, `user` | none of their own | CRUD, sync requests | repositories, registry |
| `internal/sync/title`, `tmdb`, `rule` | none | fetch, map, replace or upsert rows | HTTP services, repositories |
| `internal/tasks` scheduler | per job: running, waiting, failure episode; a semaphore; two wait groups | `Add`, `Start`, `Wait`, one loop per job, one goroutine per run | seven jobs composed by `internal/app` |
| `internal/tasks/rename` | none | plan and execute file and torrent renames | downloader clients |
| `internal/downloader/*` | session cookie or session id, login mutex | login, queries, admitted mutations, one replay | HTTP, provider |
| `internal/proxy`, `internal/cache`, `internal/search`, `internal/format` | TTL caches with a capacity | serve a search from cache or upstream, expand it, rewrite titles | provider, registry |
| `internal/auth` | bounded list of revoked tokens | issue, verify, revoke | user handler |
| `internal/store/sqlite` | the database, a writer lock | open (inspect, back up, migrate), transactions, close | everything |
| `internal/app` | the process: listener, gate on the first connection, tasks, store | start, commit or abort, clean up | everything |

What is hard in it, by component:

* **Publication.** A handler commits rows and publishes them later, in another step, and other handlers
  do the same. A configuration update publishes the snapshot derived inside its own transaction, the
  rest reload the database under the provider's mutex. Contexts end between any two steps. Correct means:
  no publication goes back in time, an answered write is visible, a failed publication is reported, and a
  revision identifies the data it covers, because caches and downloader sessions are keyed by it.
* **Mutation admission.** A downloader mutation is built from one configuration and must not start after
  another one has been published.
* **Title sync.** Requests, the scheduled job, clears and configuration updates meet at the gate. Correct
  means: one sync per marker, the gate never stays shut, and a retained success (which suppresses later
  syncs) stands for titles fetched with the committed configuration.
* **Scheduler.** Loops, runs and shutdown interleave. Correct means: no overlap per job, the
  concurrency limit, nothing alive after `Wait`, no late callback, no hidden failure, and termination.
* **Lifecycle.** Readiness, failures and signals race in one `select`. Correct means: nothing is served or
  run before the start is committed, the store outlives its users, nothing leaks, and a signal ends `run`.
* **Clients.** One login at a time, sessions that belong to a configuration, one replay after 401/403 or
  409. Correct means: credentials never reach another server, a late answer does no harm, nothing is
  applied twice.
* **Proxy and caches.** A search is expanded to several titles and handed out page by page; how far each
  title has got is a slice in a cache that goroutines share without a lock, and a page is found again by
  revision and offset alone. Correct means: a search that nothing disturbs is complete, a cached page
  belongs to the revision in its key, the titles come in the same order every time, and the lists of keys
  match the maps, since an eviction never ends otherwise.
* **Opening the store.** Processes of several builds may open the same file, and die anywhere between the
  backup, the statements of a migration and its ledger row. Correct means: one writer, a verified backup
  before the first change of what was there, every migration once, and no change to what is not understood.
* **Rename task.** It keeps nothing between runs and calls a downloader several times per torrent. Correct
  means: a half-renamed torrent was reported, a renamed one stays, and one bad event does not stop the rest.
* **Rules.** Operators and syncs write the same rows, author by author, and a refresh follows each. Correct
  means: what an operator disabled stays off, and what was committed is published or a failure was told.
* **Sessions.** The list of logged-out tokens is bounded, cleaned on every look and lost at a restart.
  Correct means: nothing else takes a token from it early.

`PROJECT.json` lists every hazard at its line, with the properties that would catch it.

## 2. Modules

| Module | Models | Variables and the code they stand for |
|---|---|---|
| `SnapshotPublication` | the abstract promise of `internal/runtime` to readers | one `view` that only moves forward, one `revision` per consumer that moves exactly when data it covers is republished |
| `RuntimeProvider` | `runtime/snapshot.go`, `prepared.go`, both admissions, and the handlers that commit and publish | `rows` the committed version of each part, `current` the snapshot behind the atomic pointer, `providerMu`/`handlerMu` the two mutexes, `pc`/`scopes`/`source`/`wrote` the locals of a handler, `clientPc`/`frozen` the locals of a downloader call; `published`, `acked`, `failed` are history |
| `MCRuntimeProvider` | instances of it for TLC | – |
| `RuntimeProviderProofs` | its theorems | – |
| `TitleSyncGate` | `runtime/title_sync_gate.go` | `states`, `nextID` as in the code |
| `TitleSync` | `api/title/sync.go`, `app/task_sync.go`, the updates and clears of `api/system` | `config` the committed configuration, `titles` where the stored rows came from, `admin`/`pending` the holder of the handler's mutex, `pc`/`attempt`/`read` the locals of a syncer; `spared` is history |
| `TitleSyncProofs` | its theorems | – |
| `Scheduler` | `tasks/scheduler.go`, `scheduler_context.go` | `waiting`, `running`, `episode` are `jobState`, `tokens` the semaphore channel, `loop` and `run` the goroutines, `main` the caller of `Start` and `Wait`; `late`, `logged` are history |
| `AppState`, `AppLifecycle` | `app/app.go` `run`, `serve_listener.go`, `cleanup.go`: the state with what must be true of it, and the steps | `main` is where `run` or `cleanup` stands, `ready`/`released`/`aborted` the channels of the gate, `serve`/`served` the goroutine in `Serve` and its channel, `handed` that a connection has been handed to the server, `probe` the readiness probe, `tasks`, `store`, `socket` the resources |
| `QBittorrentSession` | `downloader/qbittorrent` | `session`, `loginMu` as in the code, `pc`/`local` where a call stands and its locals, `revision`/`usable` the published configuration; `issued`, `fresh` are history |
| `TransmissionSession` | `downloader/transmission` | `session` as in the code, `pc`/`local`, `revision`, and `server` the identifier each server accepts; `home` is history |
| `QBittorrentSessionProofs`, `TransmissionSessionProofs` | their theorems | – |
| `Lists` | loops that keep some elements of a slice, as recursive functions | no variables |
| `TTLCache` | `cache/cache.go` | no variables: a cache is a record of the map and the list of keys, and each operator is one critical section of its mutex |
| `SearchExpansion` | `search/candidate.go`, `proxy/search_expansion.go`, `proxy/format.go` | no variables: rows to candidates, a search term to titles |
| `IndexerProxy` | `proxy/server.go`, `proxy/xml.go` | `snapshot` the published one, `results`/`offsets` the two caches, `slices` the elements of the Go slices, by identity, `pc`/`local` a request and its locals, `reader` the client that asks page after page; `sourceOf` and the field `so` of a reader are history |
| `MCIndexerProxy` | its rows, search terms and stock of items | – |
| `IndexerProxyProofs` | its theorems, and lemmas about `Lists`, `TTLCache` and `SearchExpansion` | – |
| `StoreOpening` | `store/sqlite/lifecycle.go`, `database.go`, `migrations.go`, `backup.go`, `writer_lock.go` | `file` the database (tables, ledger, rows), `lock` the holder of the lock file, `backups`, `pc`/`local` a process in `open` or `Close` with its transaction; `changed` is history |
| `MCStoreOpening` | builds and initial files | – |
| `StartupProofs` | theorems of `StoreOpening` and of `AppLifecycle` | – |
| `RenameState`, `RenameTask` | `tasks/rename`: the state with what must be true of it, and the steps | `name`, `files` what the downloaders hold, `task` the locals of `run` and `renameEvent` (`next` is the index of its loop); `reported` and `task.touched` are history |
| `MCRenameTask` | layouts of torrents and histories | – |
| `TaskProofs` | theorems of `Scheduler` and of `RenameTask` | – |
| `RuleManagement` | `api/rule`, `app/rule_sync.go`, `sync/rule`, the upserts of rules | `rows` the table, `published` what the snapshot was loaded from, `actor` the locals of a request or of the task; `refreshFailed`, `off` are history |
| `Sessions` | `api/user`, `auth` | `user` the row, `expiry` the tokens issued, `entries` the list of revocations, `client` the locals of a request, `now` the clock; `loggedOut`, `lost` are history |
| `Management`, `MCManagement`, `ManagementProofs` | the management API: both of the above | `traffic`: which of the two a behaviour is about |

Conventions. One action is one atomic step of one goroutine: what happens under a mutex, in one
database transaction, or in one atomic store. Where a lock is held across several steps, the lock is a
variable. Definitions whose comment begins with "Mutant" are deliberately wrong versions of the
definition that follows them; each property is known to be violated when one of them takes the
definition's place, and they are used for nothing else.

Composition. `TitleSync` extends `TitleSyncGate` and drives its operators. `RuntimeProvider` refines
`SnapshotPublication` (`INSTANCE … WITH view <- current.parts, revision <- current.revision`). The client
modules use of `RuntimeProvider` that a revision stands for one configuration (`RevisionIdentifiesContent`)
and that a mutation is admitted only at the published revision (`AdmittedIsCurrent`).
`AppLifecycle` uses of the scheduler only what `Scheduler` shows as `ShutdownCompletes`: once the
context has ended, `Wait` returns. `TitleSync` uses of the scheduler only `NoOverlap`: the jobs that share a marker are one
syncer, `Task`, of which there is one at a time (the live limit is one run for all jobs); `RenameTask` uses
the same of the two rename jobs. `IndexerProxy` extends `TTLCache` (twice: results and offsets, under
concurrent requests) and `SearchExpansion`, and uses of `RuntimeProvider` that a revision identifies
content. `Management` instantiates `RuleManagement` and `Sessions`, which share no state but the database
file, where they have tables of their own; a behaviour is about one of them at a time, because every
interleaving of the two is a behaviour of each with stutters of the other. `RuleManagement` takes a refresh
as one step; `RuntimeProvider` has its detail.

Abstractions. Row contents become version numbers; titles become the set of configuration versions they
were fetched with; fetching, mapping and validating become one step that may fail; a timer may fire
whenever something waits for it; a cache entry may expire at any moment. Mutexes are not fair by
themselves. A text in a search is a sequence of words and a word a number; an item of a feed is the indexer,
the query and its position; the name of a file is its first folder, the rest of the folders, a base, a number
and the kind of its suffix. The content of a rule is one value beside its status.

## 3. Runs

| Run | Question | Bounds | States |
|---|---|---|---|
| `provider` | do publications lose, hide or reorder commits; may a mutation start at a stale revision; does everyone return; does the provider implement the abstract publication? | 2 handlers, 1 client, one edited dataset beside the configuration, 3 versions per part, clears of every scope and of none, which stop after 2 publications | 100,411 |
| `title_sync` | one sync per marker, current retained titles, no attempt stuck? | 2 requests and the job, Sonarr then TMDB, 3 attempts, 2 configurations, 1 operator clear per marker | 336,909 |
| `title_sync_duplicate` | is a replace ever repeated without an operator's clear? (violated) | 3 requests of one marker | – |
| `scheduler` | one run in flight per job, finality of `Wait`, reports, shutdown, starvation | 2 jobs, one with a startup run, 2 run goroutines, limit 1 | 59,355 |
| `lifecycle` | do tasks run only in a start that commits; order and completeness of start and cleanup | no bound: both modes, the full state space | 1,684 |
| `lifecycle_environment` | does a committed process without a database stay up? (violated) | the same, without a database | – |
| `qbittorrent_session` | does a cookie stay at its server, is a login shared, is a rename applied at most once, does every call return? | 2 callers, 2 configurations, 3 cookies | 206,484 |
| `transmission_session` | does an identifier stay at its server, does a late 409 take the session back, is a rename applied at most once? | 2 callers, 2 configurations, 4 identifiers | 111,281 |
| `indexer_proxy` | is an undisturbed search complete, does a page belong to its revision, are the caches consistent, are candidates stable? | 2 clients, one expanded search of Sonarr or of Radarr (three titles, four items) and a request without a term, pages of 2, room for one page and one slice, 2 searches and publications together | 1,570,328 |
| `store_opening` | one writer, backup first, migrations once, nothing unknown touched? | 3 processes of builds with 1, 2 and 3 migrations, files: none, empty, foreign, Java with every ledger and a drifted one; one write | 111,647 |
| `rename` | are half-renamed torrents reported, do renamed ones stay, is each named at last? | 3 torrents with duplicates, a bad title, foreign clients, a file that leads out of its torrent; runs repeat without bound | 17,136 |
| `management` | does a disabled rule stay off, are committed rules served, does a logout hold? | 2 operators and the job, the primary rule and another, 2 authors; 2 clients, 3 tokens, a list with room for 1, 4 ticks of the clock | 441,012 |

Why the bounds are enough. The races in the provider need two writers and one reader: a load that is
overtaken by one publication. Three versions give a part that was published, one that is committed and
one that was committed during a load. In the gate, the interesting histories are an attempt, a clear or an
update during it, and another attempt: two requests, the job and three attempts contain them. In the
scheduler, two runs for one place make one wait, and two jobs make them compete; a job has at most one run in
flight beside one that is only logging, so more goroutines repeat what these do.

Two calls, one of them between the answer to its login (or its 409) and the saving of the session, are
what the clients' races need; the third cookie and the renewed identifiers make an old one that comes late.

In the proxy, a title with three items takes two pages of two, so that a page begins in the middle of a
title, ends with one and goes over to the next; two clients share or replace the one slice there is room for,
and one publication, clear or expiry may come between any two steps. In the store, each process is of another
build, so that any of them may find what an older, its own or a newer build left, also a part of it. In the
rename task a torrent that can never be renamed comes before the others in the history. In the management
run a list with room for one token makes two logouts compete for it.

Deadlock is checked in the provider, title-sync, client, proxy, store and rename runs. It is off for the
scheduler and the lifecycle, because the process ends there, and for `management`, whose clock and tokens
are bounded.

Fairness. Requests, clients, operators and signals need not arrive. Goroutines that can run do run
(weak fairness). Strong fairness stands for `sync.Mutex`, whose starvation mode hands the lock to the
oldest waiter, for the first-in-first-out queue of a channel (the semaphore), and for a `select` that
picks at random between a timer that keeps firing and a context that has ended. Callbacks return once
their context has ended (the contract in the comment of `Job`), HTTP clients have a timeout, the probe and
the shutdown have deadlines. `EveryoneReturns` takes for granted that a mutation which has been admitted
reports its start (`BeginReturns`): the transport does before it dials, and `doStarted` in its place when the
request fails earlier. No context is assumed to end. `CallsReturn` also rests on the end of the
publications (`MaxRevision`): `login` starts again whenever it finds another configuration published, so
an operator who publishes in the time of every login keeps it going. In `rename` the scheduler starts runs of
both kinds for ever; calls about a torrent that are made again and again succeed at times; and cancellations,
deaths and failures of the history come to an end, since a run that is always cut off, or never gets a
history, renames nothing.

## 4. What the runs found

* `title_sync_duplicate`: `docs/architecture.md` says that when the refresh fails after a commit, "the
  retained success gate prevents a duplicate replace until explicit invalidation". A failing request
  calls `finish(false)` and then `DeleteMarker`, two steps. A second request may be admitted in between,
  commit and retain its success (while its refresh fails); `DeleteMarker` of the first then clears that
  success, and a third request replaces the titles again.
* `lifecycle_environment`: without a database no tasks are started, so `run` aborts the gate (app.go:250)
  directly after it released it (app.go:241). An accepting goroutine that reaches its `select` only then
  finds both channels closed and may return `net.ErrClosed`; `Serve` ends and the process stops with a
  serve failure although nobody asked it to. With a database the same property holds
  (`DatabaseStaysUp`).

Met while modelling, and left without a run of its own, because no document promises otherwise or because
the model only shows it:

* *Search.* `UndisturbedSearchIsWhole` says "undisturbed" for a reason. Two clients that page through the same
  search at the same time share one slice and may each miss items. So may one client whose first page has
  left the result cache while a later one is still in it: reading the first page again lowers the offsets the
  later ones were computed with. Clearing the offset cache in the middle of a search has the same effect.
  The default times to live (72 hours for offsets, 15 minutes for results) hide most of it. An answer of status
  200 that is no feed (a Torznab `<error>`, say) is taken for an empty feed, so its title counts as done.
* *Opening.* `open` looks whether the file exists before it takes the lock. A file that another build makes
  in between is migrated without a backup; `BackupBeforeTakeover` therefore speaks of files that were there
  when `open` looked. `docs/sqlite-lifecycle.md` says that a valid-prefix ledger is resumed; a database in
  which only the first migration ran over an empty file lacks the tables of the second and is refused as
  incompatible. Only a build with one migration can have left it, so it is the older process of the model that
  brings it about.
* *Rename.* When files without a folder are renamed half-way, the next run finds one of them in its place,
  plans nothing and returns no error: the rest keeps its name, and only the run that failed has told.
  `Radarr` events are not deduplicated, so a torrent with two titles goes to and fro in every run.
* *Rules.* The API refuses the id of the primary rule, a sync does not. A rule that was removed comes back with
  the next sync.
* *Users.* Login and update both write back a whole row they have read before hashing a password; when they
  overlap one of the two is lost, and an upgraded password may return to the one of Java. A restart empties
  the list of revocations while tokens signed with a configured secret stay valid; two logouts of the same
  token on a full list drop another entry without need. `LoggedOutStaysOut` excepts what the list has lost.
* *TMDB.* The Sonarr job replaces the titles and goes on to TMDB, which the gate skips while an earlier success
  is retained: series that are new have no aliases until the marker is cleared.

## 5. Proofs

TLC checks small instances; the theorems below hold for every value of the constants that meets their
named assumptions (`PartiesAssumption`, `ScopesAssumption`, `BoundsAssumption`; `AttemptsAssumption`,
`SyncersAssumption`, `ConfigAssumption`; `JobsAssumption`, `LimitAssumption`, `RunsAssumption`;
`ModesAssumption`; `CallersAssumption`; `LayoutsAssumption`; `LimitsAssumption`, `ReadersAssumption`,
`StockAssumption`, `KeysAssumption`, `RowsAssumption`; `ProcessesAssumption`, `BuildAssumption`, `RowsAssumption`,
`InitialAssumption`; `IdsAssumption`, `JobAssumption`, `LifetimeAssumption`, `TimeAssumption`). Each proof
shows that an inductive invariant holds initially, is kept by every action (one step per action), and implies
the property.

* `RuntimeProviderProofs`: `IInv` adds to the properties who holds which mutex (`MutexInv`), what a
  handler's locals say about its commit (`WroteInv`), that what a handler loaded under the mutex is
  between the published and the committed version (`LoadedInv`), that no revision in the history exceeds
  the current one (`HistoryInv`), and that what a client captured is current whenever its revision is
  (`FrozenInv`). `LoadedInv` is the heart: without the mutex around load and swap it is not inductive, and
  `NeverRegresses` is false. Proved: type correctness, the five properties, and the refinement of
  `SnapshotPublication`.
* `TitleSyncProofs`: the invariant ties each syncer's attempt to the gate (an attempt whose number is the
  marker's is the one in flight; an attempt of the current generation read the committed configuration
  unless a clear is due). Proved: type correctness, `OneSyncPerMarker` and `RetainedTitlesAreCurrent`.
* `TaskProofs`, the scheduler: at most one run of a job is in flight and none beside a claim (`UniqueInv`), the
  flags of `jobState` agree with the goroutines (`FlagInv`), and the semaphore counts exactly its holders
  (`TokenInv`, by finite-set cardinality). The receive that gives a place back waits while the channel is empty;
  that it never does is `GivingBackNeverWaits`. Proved: this, type correctness and all five safety properties.
* `TaskProofs`, the rename task: every file of the torrent at hand is under its title or in the rest of the
  plan (`PlanInv`), the event at hand is the first of its torrent with a valid title (`FirstInv`, for Sonarr), and
  a run that has not failed leaves nothing half renamed but the torrent at hand (`TouchedInv`). The last file of
  a plan therefore completes the torrent, and an error in between joins the failure that the run returns. Proved:
  `UnfinishedWasReported` and `SettledFilesStay`, for any torrents, listings, histories and formats.
* `StartupProofs`, the process: the invariant relates where `run` stands to what it has opened and told the gate
  (`LifeInv`). Proved: type correctness, `HeldUntilCommitted`, `TasksMeanCommitted`, `StoreOutlivesUsers`,
  `NothingLeaks` and `DatabaseStaysUp`.
* `QBittorrentSessionProofs`: the invariant says whose cookie a call or the shared session holds
  (`CookieInv`, `SessionInv`), who holds `loginMu` (`LockInv`), that a login which has been answered
  holds the last cookie (`LastInv`), and what has become of the last cookie: it is refused, shared, about
  to be shared, or for a configuration that nobody who logs in has captured (`FreshInv`). The last part is
  what `LoginIsShared` needs; it rests on the second look at the configuration before the session is saved.
  Proved: type correctness, `CookieStaysHome`, `AppliedAtMostOnce` and `LoginIsShared`.
* `TransmissionSessionProofs`: identifiers belong to the server that made them up, each server accepts its
  last one, and the challenge a call carries is at least as new as the session it sent. Hence a swap that
  finds its own session in place moves it forward, and one that finds another replaces only a session of
  an older configuration. Proved: type correctness, `IdStaysHome`, `AppliedAtMostOnce` and
  `SessionMovesForward`.
* `StartupProofs`, the store: the invariant says of each process what it knows where it stands (who has a handle
  has the lock; the copy that is verified is what it found; a transaction is the file, with the first
  migrations carried out and all but the last recorded; who may write has a compatible file), and of
  the file that it is recorded truly (`FileInv`). The lock carries the proof: since nobody else changes the
  file, what a process has inspected is still there when it commits. Proved: type correctness and all four
  properties, for any processes, builds and initial files.
* `IndexerProxyProofs` has two inductive invariants. `IInv` needs no assumption on what happens between two steps:
  each cache lists its keys once and exactly them (`CachesOK`), a page under a key holds items of the indexer that
  was published with that revision (`PagesOK`), a request holds a snapshot that was published and has merged items
  of its indexer only (`RequestsOK`), and the slices in use exist and are as long as the titles (`SlicesOK`).
  `PagingInv` is about the searches that nothing has come between: the offset cache remembers how to go on
  (`Reached`: the titles before some title have given everything, and that one as much as its element says), and
  a request has merged exactly the piece of the whole that lies between the client's offset and its own
  (`Gathered`), has asked for what comes next (`Asked`), or has what is due (`Finished`). It lets a slice be
  further than the client, which is what an earlier search of the same term leaves behind. Under the two lie
  facts about the operators: what `Kept`, a candidate list and the items of the first titles are, entry by entry,
  from the equations of their recursive functions (`KeptFacts`, `OneOrdering`, `PartsAre`); that `Get`, `Set`,
  `Delete` and the expiry keep a cache sound (`SetKeeps`, `RemoveExpiredKeeps`, `DeleteKeyKeeps`) and the eviction
  loop finds room (`EvictionEnds`); that there is always a slice not in use (`FreshSlice`, by counting); and that
  the order in which the code compares two rows leaves no two different ones tied (`RowsAreOrdered`). Where an
  induction is due, the least position at which a claim would fail is shown not to exist (`LeastNumber`). Proved:
  `CachesStayIndexed`, `NobodyIsStuckInSet`, `PagesBelongToTheirRevision`, `CandidatesAreStable` and
  `UndisturbedSearchIsWhole`, for any rows, titles, stock, limits and number of clients.
* `ManagementProofs`: for rules, that what is off is invalid and that a debt of publication has a debtor
  (`Owed`); for sessions, that the list holds the expiry of the tokens it names and that a logged-out token is
  on it, lost, or expired (`Listed`). Proved: `DisabledStaysOff`, `CommittedRulesAreServed` and
  `LoggedOutStaysOut`, for any authors, files of rules, operators, clients and size of the list.

Proved and not repeated by a run: the type invariants, `NeverRegresses` (the provider), `ConcurrencyLimited`
and `LateRunNeverCalls` (the scheduler, with `GivingBackNeverWaits`), `HeldUntilCommitted` and
`DatabaseStaysUp` (the lifecycle),
`NobodyIsStuckInSet` (the proxy: the eviction loop of `Set`, which holds the mutex of a cache, ends).

Only model-checked: liveness (`EveryoneReturns`, `AttemptsEnd`, `ShutdownCompletes`, `NoStarvation`,
`StartupDecides`, `SignalEndsRun`, `CallsReturn`, `EveryTorrentIsNamed`), since fairness and `ENABLED` are
outside the proof system's reach, and the two violations. Every invariant and every action property that a
run checks is proved. `TaskProofs` and `StartupProofs` extend one of their two components and instantiate the other;
the state of the other, with what must be true of it, is in a module that they extend too (`RenameState`,
`AppState`), and the component's assumption is a hypothesis of its theorems.

## 6. Order of work, and what is left

The modules were written in this order: provider and its refinement, title sync, scheduler, lifecycle, the two
clients; then cache, search expansion and proxy, the opening of the store, the rename task, rules, and
sessions. What would come next:

1. the TMDB sync with its reads of the Sonarr titles, so that the skip above becomes a property;
2. the next firing of a schedule as an operator against a reference definition (leap days, month ends);
3. the forwarding of downloads (`proxy/qbittorrent.go`, `transmission.go`) beside the clients' sessions.

## 7. Not modelled

Title formatting (regular expressions over text, no state), the text of feeds, the parsing of environment
variables and URLs, the embedded user interface, CRUD of examples, read-only queries, the calendar arithmetic of
schedules, logging beyond the failure report of the scheduler, and panics: a panic in a syncer would leave its
marker in flight, since `finish` is not deferred.
In the clients: the parsing and the validation of arguments and answers, and calls of the Transmission client
that end at once because the published configuration is invalid. In `AppLifecycle`, opening the store and
composing the handlers are single steps that may fail; a connection that `Accept` returns after `Shutdown` has
looked at its connections for the last time, for which `net/http` does not wait, is left out. In
`RuntimeProvider`: the answer 500 to an update whose prepared snapshot the provider does not take. Only a provider
without `publishPrepared` refuses one, and the process has no such provider (`NewProvider`, app.go:160). In
`SearchExpansion`: what is in a word, beyond the classes the patterns tell apart (year, episode, season, any
other). In `StoreOpening`: the copying of rows by `VACUUM INTO`
(its result is the file or an error), processes that do not cooperate, and file systems without locks. In
`RenameTask`: the part of a title from ` [` on, which the new names of its files take over (`withSuffix`), the
folders that a formatted name with a slash makes, and upper and lower case of hashes. In `Sessions`: the encoding and
signature of tokens, several users, and processes whose login is disabled, where every restart makes a new
secret.
