# Verification of mo-local

mo-local is a local-first planner. Each browser keeps an encrypted event store
in SQLite (in a worker), derives its read models from it, and synchronises the
events with a server that only sees ciphertext. This directory holds TLA+
modules of the parts that run concurrently or fail independently, TLC
configurations for small instances, and TLAPS proofs.

`PROJECT.json` maps every definition to the source lines it models, lists the
runs, the deliberate mistakes each property detects (the operators marked
`Mistake:` in the modules), the findings, the hazards and the theorems.

## Inventory

| Component | State it keeps | Operations | Interacts with | What is hard | What makes it correct |
|---|---|---|---|---|---|
| API: synchronisation (`apps/api/src/sync`) | `sync.stores` (owner, head), `sync.events` | push, pull with long poll, dev/reset | clients over HTTP; sharing tables | requests interleave between transactions; repeated pushes | dense numbering, one row per id, truthful answers, one owner |
| Sync engine (`packages/sync-engine`) | `sync_event_map`, cursor, last known head; status, back-off, signals | pullOnce, pushOnce, conflict handling, start/stop/syncOnce/reset | server, local database, rewriter, derived state | pull and push interleave at every await, lost answers, several tabs | local mappings agree with the log, nothing is skipped, no lost wake-up |
| Pending event rewriter, record codec, materializer (`infrastructure/src/sync`) | pending rows of `events` | shift versions, re-encrypt, decode | sync engine, key store | rewriting rows a push has sent | a synced row is the server's record |
| Event store in the browser (`eventstore-web`, `eventstore-core`, `infrastructure/src/eventstore`) | database file, Web Lock, connections, subscriptions | hello, query, execute, batch, notify, import, export, shutdown | all tabs | one connection shared by all; transactions over several requests | one owner; atomic batches; no notification lost |
| Derived state (`infrastructure/src/platform/derived-state`, `goals`, `projects`) | cursor, cached projections, indexes | start, process, rebase, rebuild | event store, sync engine | late mappings, rebuilds racing events, crash between apply and save | a projection is the fold of the events in effective order |
| Committed event publisher, event bus (`infrastructure/src/eventing`, `events`) | position per stream | publish | saga | at-least-once; missing keys | every committed event is published, in order |
| Goal achievement saga (`application/src/sagas`) | saga state per goal | react to events, bootstrap, dispatch | publisher, command bus | bootstrap racing live events; crash before dispatch | a goal is achieved when its projects are, once |
| Idempotency store | keys | record, get | command handlers | look-up then insert | one effect per key |
| Domain (`packages/domain`) | Goal, Project, Scope, ResourceGrant | commands as events | repositories | event sourcing: replay equals live state | invariants of the aggregates |
| Application (`packages/application`) | none | command and query handlers | domain, repositories | known-version checks | a stale command is refused |
| Sharing (`domain/src/sharing`, `infrastructure/src/sharing`, `apps/api/src/sharing`) | scope states, grants, outbox | create, rotate, revoke, upload in order, verify | key service, server | dependencies out of order, retries, stale heads | hash chains; nothing is accepted before what it cites |
| Key service (`key-service-*`) | vault (hash chain of records), sessions | unlock, step up, rotate, sign, wrap | web worker | session expiry, partially written vault | the vault is a valid chain; no operation without its session |
| Access (`apps/api/src/access`), platform | identities | register, login, logout, whoami | Kratos | cache of sessions | a request has one identity |
| Web application (`apps/web`) | local storage, key store, services of one store, session | onboard, unlock, backup, restore, reset | key service, event store, engine | a flow is many requests; the page may close between any two | what a user made can be opened again |
| Cryptography, serialisation, presentation | - | - | - | - | not modelled, see below |

## Plan

The order follows what the product cannot do without: its events. Modelled:
synchronisation (`SyncLog`, `SyncServer`, `SyncEngine`, `SyncScheduler`), the
database all tabs share (`EventStore`), what is computed from the events
(`Projection`, `Aggregates`), what writes them (`Commands`), what reacts to them
(`Reactions`), the keys they are encrypted with (`KeyService`), and the session
of a user over all of it (`AppSession`). The section "Not modelled" says what is
left out and why.

Proved are the type invariant of every module and every safety invariant and
action property that a run checks (section "Proofs"), and that the logs of
`SyncServer` and of `SyncEngine` both implement `SyncLog`.

No module declares a RECURSIVE operator, so each can be proved about.

## Modules

| Module | Models |
|---|---|
| `SyncLog` | abstract: per store a log that grows by atomic batches of new ids |
| `SyncServer` | the request handlers and transactions of the sync API, and the sharing tables a push is validated against; `ImplementsLog` maps it to `SyncLog` |
| `SyncEngine` | the data path of `SyncEngine.ts` on several databases and tabs, against the log |
| `SyncScheduler` | the loops, signals, sleeps, back-off and status of `SyncEngine.ts` |
| `EventStore` | the worker that owns the database, its clients, the rewriter's transaction over several requests |
| `Projection` | the runtime of derived state: position, snapshot, caches, rebuilds, the task runner |
| `ProjectionInvariant` | the inductive invariant of `Projection`, for TLC and for `LocalStateProofs` |
| `Aggregates` | the goal and the project: commands, events, replay, and the read models' folds |
| `Commands` | forms, command handlers, repositories, snapshots, idempotency keys (extends `Aggregates`) |
| `Reactions` | the committed event publisher composed with the goal achievement saga |
| `SagaInvariant` | the inductive invariant of `Reactions`, for TLC and for `ReactionsProofs` |
| `KeyService` | vault, sessions and records of the Rust core, composed with the worker and its storage |
| `AppSession` | the life of a local identity in the web application |
| `SyncServerProofs`, `SyncEngineProofs`, `SyncSchedulerProofs`, `CommandsProofs`, `ReactionsProofs`, `KeyServiceProofs`, `AppSessionProofs` | the theorems about the module of that name |
| `LocalStateProofs` | the theorems about `EventStore` and about `Projection` (whose specification is named `ProjectionSpec`, its type invariant `ProjectionTypeOK`, so that one module can extend both) |
| `MC*` | values of the constants, symmetry sets and constraints for TLC |

How they fit together: `SyncEngine` uses the server as `SyncLog` specifies it,
which `SyncServer` is proved to implement. The database requests that
`SyncEngine`, `Projection`, `Commands` and `Reactions` take as atomic steps are
the requests `EventStore` shows to be atomic. A command is one step of
`Reactions`; `Commands` has its insides. `AppSession` takes a request to the key
service as one step; `KeyService` has its insides.

### SyncServer

State: the two tables (`owner`, `head`, `events`), the row locks (`lock`), and
for every request in progress where it is (`pc`), what it asked (`call`), what
its transaction has written or read (`tx`) and its answer (`reply`). Every
transaction is an action; inside `appendBatch` the insertion of each event is
one, inside `resetStore` each statement. Uncommitted rows are private to the
request (READ COMMITTED).

Abstractions. The content of a record is a value; sharing has one scope and
one resource, with counters for scope states and grants; a grant stands for
its id and its resource key id. A push is checked event by event, and the active
grant in a step of its own (`VerifyEvent`, `VerifyGrant`), so that scopes and grants
may change between two checks and between the last check and the append; the
look-ups of a state, a grant and the scope's head are one step, as states and grants
are only added. The history variable `inForce` keeps, for a push that is being
served, every head and active grant there was since its checks began.
`AuthorisedWhenChecked` says that what is stored was in force at some moment since
then; that it is in force when it is stored is not so (`AuthorisedWhenStored`,
`MCSyncServerStale.cfg`). A deadlock between a reset and an
append, which PostgreSQL breaks by failing one, is a failure of the append.
`AdvanceScope`, `IssueGrant` and `RevokeGrant` are `appendState` and
`appendGrant` (a revocation is a grant appended with status `revoked`). No
endpoint calls them yet, and as written `appendGrant` asks PostgreSQL for
`SELECT MAX(..) ... FOR UPDATE`, which it rejects; the model has them as
intended, since the check of a push reads the tables they write.
Requests that fail validation of their syntax never reach a handler.

### SyncEngine

State: per database the rows (`ver`, `csn`), the mapping (`map`) and the
cursor; per engine `lastKnownHead` (`known`) and its two threads (`th`); the
server's `log`. An action is the code between two awaits another actor can
observe. A version stands for the bytes that depend on it. The append of a
command is one action because `EncryptedEventAppender` re-checks the maximum
version inside its batch and `UNIQUE(aggregate_id, version)` backs it.

The server is used as `SyncLog` specifies it, in production; so the answer
`server_behind` cannot occur (`TypeOK` checks that no client is ahead of the
log). `maxRewriteAttempts` (128) is not modelled: no page is that long.
An incoming event is looked up by its id in one step (`LookUpEvent`) and its version
in later ones (`ResolveVersion`); the look-up of the occupant, the check that it is
pending and the rewriter's transaction are one of them. `ResetSyncState` is `stop()`,
the reset and `start()`: it aborts requests and wakes a push that waits for a pull.
The call of `onRebaseRequired` changes nothing the engine reads and is in
`Projection`. Errors of a single pull or push are retryable here; non-retryable ones park
a loop, which `Pullers` (an engine that only pushes) and `SyncScheduler` cover.
`debugPullOnce` and `debugPushOnce` are `syncOnce` in two halves.

Two history variables mark what the code does not protect against. `rushed`: a
push was sent by an engine that had not stored every event up to its
`expectedHead` (`MCSyncEngineRush.cfg` shows that the code allows it). `taken`: a
command took a version that a page being applied had found free, or the other thread
inserted the very event between its two look-ups, so that it is in its own way: it is
shifted if it is pending (after a reset), and parks the loop if it is synced. The look-ups of
`applyRemoteEvents` and its batch are separate requests, and `INSERT OR IGNORE`
drops the one row and keeps the later rows of the page, so the database has an
event without its predecessor; after a `resetSyncState` those rows are pending
again and the rewriter may shift them, and the numbers the server assigns then
stand for other bytes (`MCSyncEngineTaken.cfg`). `CaughtUpIsSafe`, a part of
`DevicesAgree`, says that nothing else goes wrong: without a rushed push, and as
long as the list of missing events is not cut off, nothing is skipped; if moreover
no version was taken, versions are distinct and synced rows are the server's. An
earlier form of the property left `taken` out and passed with two events; the
proof did not go through, and three events show why.

### SyncScheduler

State: the fields of the engine, and the position of each loop of each
`start()`, of the pull and the push in flight and of `syncOnce`. A pull or a
push ends in one of its outcomes. Time is abstracted to "the back-off is over"
and "the sleep is over".

### Projection

State: the rows with their global sequence (`rows`), `projection_meta` and
`projection_cache` on disk, the cursor and the snapshot in memory, the flags
of the runtime and of the task runner, and the two loops that may run: the one
`start()` awaits and the runner's. An action is the code between two requests
to the database worker; a read and the phase written right after it are one.

Abstractions. One aggregate; its snapshot is the sequence of the rows folded
into it, in that order, so that a lost, repeated or misplaced event is visible.
The analytics cache and the search index are written in the steps that write
the snapshot or the position and their contents are left out; that updating the
analytics throws after the snapshot was stored is `FailAnalytics`. A pull that throws
after a page is `PullFails`. `lastCommitSequence` is not
read: both processors use the effective order. Services are created anew after
`stop()`, so a stop is a reload. Commands and the sync engine are an
environment that appends rows, numbers pending ones and applies pages (number
after number, that is without a rushed push).

Three history variables mark what the code does not protect against:
`overlapped` (a notification arrived while `start()` was still catching up, so
two loops share the cursor), `torn` (a reload met a cache and a position that
do not match, or `start()` did, because a rebuild before it had failed in the middle
of a batch, or an event whose analytics failed is in the snapshot and will be read
again), `missed` (a page came in front of pending rows and no rebase
followed, because `hadPending` or `stillPending` was read at the wrong
moment or the pull failed). `Sound` says that none has happened. `SettledIsEffective`
and `FlushFresh` are about sound behaviours. `Settles` needs less: that no event
threw and, for the projection to catch up, that the loops did not overlap; every
`flush()` returns even then.

### EventStore

State: per tab what `createWebSqliteDb` is doing and which worker it uses; per
worker (the shared one, or a dedicated one per tab) the progress of each hello,
its context and its name; the web lock; who has the file's access handles; the
rows in the file, the open transaction, and what each subscribed tab has read.
A request runs to its response before the worker takes the next message (the
synchronous build of wa-sqlite), so a request is a step; only hello waits.

The rewriter's `BEGIN ... COMMIT` are requests of their own. Between them the
`execute` of another tab joins the transaction and a `batch` of another tab fails
at its own `BEGIN`. A rollback is not announced. A worker that is shut down in
the middle loses the transaction. An import is modelled where the application
does it, into a store being restored that no other tab has open: it brings the
backup's rows and notifies nobody, though the page may be watching already.
`imported` keeps those rows, and `WritesAreAnnounced` is about all others; the page
that restores rebuilds its projections itself. The access handles are one unit. The
first ever open of an empty handle pool by two hellos at once is excluded: which of the two
wins is decided inside wa-sqlite.

### Aggregates and Commands

`Aggregates` has the goal and the project as records: each command is an operator
from a state and a command to the events it emits or a refusal, each event an
operator on the state, and `Replay` folds a history. The read models' projectors
fold the same events by their own code, hence `ReadModelAgrees`. Text is a small
set of values, a date a number.

`Commands` runs several handlers on one aggregate. An action is the code between two
requests: look up the idempotency key, read the snapshot, read the rows and decide,
append (the appender re-reads the maximum version and compares), write the snapshot,
record the key. (`save()` reads the snapshot again before the maximum version; the
two are one step, since no snapshot is ahead of the rows.) Tabs close at any point.
Forms draw a new key for every command; the keys that come again are the saga's,
and as every tab runs a saga, `Resend` starts a key also while another handler is busy
with it, an AchieveGoal with whatever version that saga knows. A remote event whose
version a pending row has comes in two transactions of the sync engine: `MakeRoom`
counts the pending versions up and deletes the snapshot, `FillRoom` inserts the
events of the page later; `room` is how many versions are free in between.

The repositories read `MAX(version)` again when they save, so a handler that
decided on an older state writes on top of a newer one. A handler is `behind` if rows
were written, or room was made and not yet filled, between its load and its last
write, and `raced` marks that such a handler wrote. `LoadIsReplay`, `HistoryLegal` and
`ReadModelAgrees` are about the rest. Among what `raced` excuses is a snapshot
persisted between `MakeRoom` and `FillRoom`, which nothing purges.
`ExactlyOnce` speaks of all behaviours: a key may take effect twice (two sagas, or
one after a crash, with a newer version), but only if the later sender knew the
version the first effect led to, or its handler was behind.
A run starts without rows, or with a history that offered commands led to.

### Reactions

State: the log in commit order, the saved and the current position of the
publisher's two streams, the saga's stored rows, recorded idempotency keys, the
flag `replaying`, and three threads: the two streams and `bootstrap()`, or
`onRebaseRequired()`, which calls it. The flag is set only when the seed has been
decrypted (`BeginReplay`); `seeded` is true from the reading of the seed on, and what
the streams write in between crosses with the replay. A seed that finds no master
key, in a store that was just switched to, is empty, and nothing is replayed or
looked at (`BootstrapWithoutKey`, `SeedWithoutKey`); it counts as crossed. A step ends at an await of the store or of
the command bus. `crossed` marks that a thread wrote over, or behind, another
thread's row; `refused` a command of the saga that was refused or failed;
`overtaken` that the saga decided on an achievement, or on completed projects, that
the log or another thread had moved on from; `manual` that a user took an
achievement back. A history is what the domain commits (`Sane`): versions count
from 1, the first event of a project creates it, links are added and removed in
events that say so, and one key reads all events of a project.

`overtaken` and `Relapsed` came out of the proof: without them neither
`AchievedWhenDue` nor `SagaAgreesWithLog` is true, which shorter histories did not
show. A project taken up and completed again finds the saga's row still achieved
and is not achieved again, or carries an idempotency key that is recorded
(`MCReactionsReopened.cfg`). And only a transition of a linked project takes a
completion away, so that one which was counted by mistake stays
(`MCReactionsRelinked.cfg`).

A batch whose handler threw is read again only at the next notification. After a
rebase the versions the saga knows are those of the last committed events, so
that a command may be refused until the next event. A rebase is modelled when no
bootstrap is running, though the effects of `AppProvider` that start the saga and
the sync engine do not wait for each other. The seed reads goals and projects in one
step; the code has two queries in parallel. Only one tab's publisher and saga are
modelled: what the sagas of two tabs do to each other's commands is in `Commands`,
what they do to each other's rows and positions is not. The removal of the last unfinished project does not ask
for an achievement, though a bootstrap then would.

### KeyService

State: the storage in the core's memory and in IndexedDB, the sessions, the one
loaded vault all sessions share, the records, the exported backup, and what
clients were told. Cryptography is symbolic: a wrap opens under the key and the
associated data it was sealed with. A request of the worker is a step; the drain
into IndexedDB may fail, and `putEntries` answers before its transaction has
completed, so that it may also be lost afterwards. `harm` records which kinds of
storage loss happened, and `AckedOnDisk` names those it excuses.

Lock and expiry drop the loaded vault for all sessions; `ingest_scope_state`
then makes an empty one. Import and creation of a vault replace the storage but
not the sessions. `open_session` leaves a session behind when the vault cannot be
loaded, and a grant's chain is advanced before its key is unwrapped.
`AsyncKeyService` is used by tests only and left out. `init_identity` is modelled
although the worker has no request for it: more behaviours than the browser has.
Handles and scope references carry only the limits that `TypeOK` states. Two tabs without a shared worker use one
IndexedDB without a lock; the model has one worker.

### AppSession

State: two items of local storage, per store the key service's vault and the
event database, the key store shared by all stores, the files the user saved, and
the page (store, services, master key, session, the flow under way). A flow is
`completeOnboarding`, `unlock`, `restoreBackup`, `resetLocalState`, a backup or
the creation of an aggregate; each request it awaits is a step, may fail, and the
page may be closed before it. Passphrases are left out: a wrong one is a request
that fails. The user waits for one flow to end before starting another (the forms
only disable their own button). Backups of the format without user id, refreshes
of the remote session and a second tab are left out. The hooks under
`providers/app/` duplicate `AppProvider` and are not used by it; the model
follows `AppProvider`. A key write to IndexedDB counts as durable once it is answered;
`IndexedDBKeyStore.ts:98` and `storage.ts:94` answer on the request's success, before
the transaction has completed. `KeyService` has a write that is lost after its answer
(`harm`), `AppSession` does not.

## Runs

| Run | Question | Answer |
|---|---|---|
| `server` | two requests at a time of two identities that contend for a store, with repeated and overlapping batches, in production | numbers are dense, ids unique, answers true and pages without holes, one owner per store, and the server implements `SyncLog` |
| `server_sharing` | scopes and grants change between the checks of a push and its append, `dev/reset` | what is stored was in force at some moment of its checks; every request is answered |
| `engine` | two devices, one aggregate, one lost answer, failure, reload or `resetSyncState` | mappings agree, no id twice in the log; without a rushed push nothing is skipped and every event arrives; if nothing took a version a page had found free, versions are distinct and synced rows equal the server's |
| `engine_tabs` | two tabs on one database and another device | the same safety |
| `scheduler` | long poll, failures, conflicts, stop, a `syncOnce` besides the loops | back-off holds, a waiting push resumes, events are pushed |
| `projection` | numbering, pages, failing pulls, rebuilds, events or analytics that fail, one reload | a projection at rest is the fold of the effective order; a flush sees all that was written before it; no notification, rebase or flush is lost, an overlap of the two loops apart |
| `commands` | two handlers, one key in two tabs, closed tabs, pages that renumber first and insert later, every command | load is replay, histories stay legal and read models agree, unless a handler wrote over an older read; no effect is repeated unknowingly |
| `reactions` | two streams and bootstrap, closed tabs, failing commands, rebases, a seed without key | nothing is passed over; a saga at rest agrees with the log; what is due is achieved |
| `eventstore` | two tabs, shared or dedicated workers, failing opens, imports and rewrites, closed tabs | one worker serves; batches are atomic and durable; writes are announced, a backup's rows excepted |
| `keyservice` | two sessions, expiry, failing storage, restarts, imports, passphrases, passkeys | acknowledged keys load again; step-up is fresh; nothing stays unlocked without a session |
| `app` | every flow with the page closed or a request failing at each step | what was made can be unlocked again; flows end |
| `app_restore` | does a key backup with a database restore the data? | no (finding) |

Bounds. Two events of one aggregate on two devices are the least with which
versions collide; page size 1 and 2 split and join them. One disturbance
suffices for a lost answer followed by a retry, or a reset under a running
request (`OneDisturbance` in `MCSyncEngine`, which counts a rushed push as one:
disturbances owe nothing and are not taken back, so the behaviours with at most
one are all there); the scheduler
needs a failed pull, a refused push and one more. Two concurrent requests on a
store are the least that can race. Three rows let a page come between a folded
and an unread pending row; with batches of two, three rows make a full batch and one
that is not, and a fault or the other loop can come in the middle of a batch; `Explored` in `MCProjection` keeps the
third row to sound behaviours without reload and fault, and the overlap of two
loops to one row, or two without pull and rebuild. Two handlers and two
keys are the least that can race or repeat, and two effects of a key (`MaxEffects`)
the least that repeat; `MaxBase` 2 lets a scope or a grant change after it was
checked; `MCOffered` has one command of every
type. Five histories let the saga meet a new goal, a goal about to be achieved, a
fault, a project that is completed twice, and one that is linked after it was taken
up again; `Explored` in `MCReactions` leaves out threads that cross after the
fault, or while a project is completed twice. Two tabs, three rows and two opens let a tab come, write inside
another's transaction, and go. `MCBound` in `MCKeyService` explores scope
references with one session and the special events (failed write, backup,
passkey, change of passphrase) two at a time. Three uuids let an identity be
made, reset, and restored. `MaxHead`, `MaxBase`, `MaxFaults`, `MaxEventFaults`, `MaxResets`,
`MaxStarts`, `MaxManual`, `MaxEvents`, `MaxReloads`, `MaxRemote`, `MaxEffects`, `MaxWrites`,
`MaxOpens`, `MaxCloses`, `MaxTime`, `MaxVaults`, `MaxImports`, `MaxKdfs`,
`MaxRecords` and `MaxGrants` only bound how often something happens.

Deadlock is not checked where the system may stop: events published, bounds of
users and faults used up, a projection at rest.

Fairness. Server: a handler that can go on does so; PostgreSQL serves waiters
of a row lock in order (strong fairness of the two steps that wait for it); a
long poll ends at its deadline. Engine: started loops pull and push again, and
what is in flight goes on. Scheduler: timers fire, calls end, ready
continuations run. Projection: the runtime is started, its loops go on,
notifications arrive, and the engine looks for pending rows and calls
`onRebaseRequired` after a page. AppSession: services are created or fail to be,
and a request is answered or fails. Users, commands, readers, faults and resets
owe nothing. The other modules are checked for safety only: the publisher and
the saga retry only when something else happens, so their liveness depends on
users.

## Proofs

TLAPS proves the following for all values of the constants that satisfy the
named assumptions (`ServerConstants`, `EngineConstants`, ...), which TLC evaluates
in every run. They say that limits and bounds are numbers, that marks such as `None`
are not members of the sets they stand outside of, that databases and aggregates
are assigned, that the offered commands of a run are ones the value objects of the
domain accept (a name is not empty, a date is a number) and its starting history is
one that such commands led to, that the log `Reactions` starts from is what the
aggregates commit (`Sane`: the goal's versions count from 1; the first event of a
project, and no other, creates it; one key reads all of a project's events), and that the key service has finitely many sessions.
Nothing bounds the number of devices, tabs, events or requests. No theorem has another hypothesis, except
`ServerImplementsLog`, which is about production.

| Module | Theorem | States |
|---|---|---|
| `SyncServerProofs` | `TypeCorrect`, `LogIsDense`, `IdsAreStoredOnce`, `AppendsAlwaysFit`, `OwnersOnly` | `TypeOK`, `LogDense`, `IdsStoredOnce`, `AppendsFit`, `OwnerOnly` |
| | `StoredWasAuthorised`, `AnswersAlwaysHold` | `AuthorisedWhenChecked`, `AnswersHold` |
| | `ServerImplementsLog` | refinement: every step is a step of `SyncLog` or a stutter |
| `SyncEngineProofs` | `EngineTyped`, `DevicesAlwaysAgree` | `TypeOK`, `DevicesAgree` |
| | `PushedOnce`, `NothingIsSkipped` | the parts of `DevicesAgree` that need less: mappings and unique ids need nothing, no gap does not need `~taken` |
| | `EnginesUseServerLog` | refinement: what the devices do to the log is a step of `SyncLog` for one store, or a stutter; `ServerImplementsLog` is the other side of that contract |
| `SyncSchedulerProofs` | `Typed`, `BackoffHolds` | `TypeOK`; the action property `BackoffGates` |
| | `InFlightIsHeld` | `FlightsAreHeld`: a raised `inFlight` flag has exactly one holder (ADR-0008) |
| `LocalStateProofs` | `Typed`, `TabsAreServed`, `BatchesAreWhole`, `WritesReachWatchers` | of `EventStore`: `TypeOK`, `ServedByTheOwner`, `BatchesAreAtomic`, `WritesAreAnnounced` |
| | `RuntimeTyped`, `SettledAlwaysEffective`, `FlushAlwaysFresh` | of `Projection`: `ProjectionTypeOK`, `SettledIsEffective`; the action property `FlushFresh` |
| `CommandsProofs` | `CommandsTyped`, `CommandsTakeEffectOnce`, `LoadsAreReplays` | `TypeOK`, `ExactlyOnce`, `LoadIsReplay` |
| | `HistoriesStayLegal`, `ReadModelsAgree` | `HistoryLegal`, `ReadModelAgrees` |
| `ReactionsProofs` | `Typed`, `PublishesAtLeastOnce` | `TypeOK`, `PublishedBeforeSaved` |
| | `SagaAlwaysAgrees`, `DueIsAchieved` | `SagaAgreesWithLog`, `AchievedWhenDue` |
| `KeyServiceProofs` | `Typed`, `StepUpsAreFresh`, `LockedVaultsAreGone`, `KeysAlwaysSurvive` | `TypeOK`, `StepUpIsFresh`, `LockedIsGone`, `KeysSurvive` |
| `AppSessionProofs` | `Typed`, `WorkAlwaysReopens` | the module's `TypeOK`; `SessionsReopen` |

The inductive invariants and why they are needed:

- Server. `LogInv == TypeOK /\ AppendsFit /\ LogDense /\ IdsStoredOnce`. Density
  and uniqueness are not inductive on their own: the rows a transaction is about
  to commit are private. `AppendsFit` says of every open append that it holds the
  lock of its store, that its rows continue the committed log from the head it
  read, and that their ids are not stored; it is inductive because no other
  request can commit to a store whose lock is held. Only `dev/reset` shortens a
  log, and with it density fails (the rows of an append that commits during the
  reset remain), hence `Production`. `StoredWasAuthorised` carries through the
  checks that the events passed so far were in force at some moment of them, and that
  what an append has written are events of the batch that passed.
  `AnswersAlwaysHold` carries what a request has read so far as a fact about a
  log that only grows.
- Engine. Three layers. `EngineInv`: types, each id once in the log and in a
  batch, mappings that name the position of their event, pages that are pieces of
  the log, and that what a page has passed is stored or will be inserted. `GapInv`,
  for behaviours without a rushed push whose log fits the list of missing events:
  every position that a cursor, a sent push or a conflict names is stored in that
  database. `VersionInv`, if moreover no version was taken: in the log the versions
  of an aggregate are 1, 2, 3, ...; a database holds the log up to some position,
  as the log has it; its other rows lie above and follow each other in commit
  order; what a page in progress has found free is below them; and a sent or
  orphaned push that the server may still accept (its expected head is the log's
  length) carries the rows as they are now, none of them skipped. The last part is
  the heart: a request that was aborted may arrive after its retry, and after the
  rows it carries were rewritten, but then the head has moved.
- Scheduler. `FlightsAreHeld` counts the holders of each flag over all loops,
  `syncOnce` and the waiting push, including the loops of an earlier `start()`;
  `OneLoopPulls` (with one start only one loop pulls) gives the back-off.
- Event store. `OwnerInv`: a worker with a context, or with a hello in the middle
  of an open, has the file's access handles, a tab that is ready is served by such
  a worker, and a tab of the shared worker keeps it alive. `RowInv`: at most one
  rewriter is at work, a transaction is open for it, its rows are in that
  transaction and not in the file, and acknowledged batches are in the file.
- Projection. `ProjectionInv`, in `ProjectionInvariant`. At rest the snapshot is the
  fold of the rows in effective order; in between rows move in that order and the
  cursor counts rows that were pending by another number than those that were not.
  `Fits` relates a snapshot to a cursor: what was folded or passed over is exactly
  what the cursor counts as read, each row once, and, unless a rebuild is due
  (`Pardoned`), it is in order and everything unread follows it. `FoldInv` says of
  each place of the one busy loop which of memory, cache and saved position fit, and
  of a batch (`BatchFits`) that its rows are unread, that a number read with one is
  still its number, and that an unread row not among the first i follows row i. The
  last is the heart: with it the cursor passes the first row of the batch and no
  other, although a row of the batch may have been numbered, or rows may have come in
  front of it, since it was read. The environment enters as one relation (`Grown`):
  rows keep their numbers, new numbers are higher, the order of two rows does not
  turn, and a new row comes in front of another only with `ahead`. `AloneInv` and
  `LifeInv` give the busy loop to itself; `FlushInv` says that what a caller of
  `flush()` waits for is in the rest of the batch, or is still to be read by this
  pass or the next. `MCProjectionInvariant.cfg` checks the parts with TLC, with
  batches of two.
- Key service. `VaultInv`: a step-up session lasts from its proof, and no vault is
  loaded without a session (`SessionInv`); no session or loaded vault is of a
  generation that is still to come (`GenInv`); acknowledged keys are on disk unless
  a write was lost (`AckInv`); and without any harm core and disk agree, the
  records are the chain of the header's vault, backups load, and sessions of the
  current generation hold the vault's key (`Clean`).
- Application. `AppInv`: at every step of every flow, which of services, vault,
  master key, local storage and aggregate keys it has found or written already.
- Commands. `CommandInv`: whoever is about to append without having been overtaken
  knows a version that no effect of its key was made with, since the version of the
  rows it loaded is the one its sender knew and every earlier effect knew a smaller
  one; who is about to record a key has carried its command out. `SnapshotsHold`: the stored snapshot is the
  replay of the rows it counts, and what a handler nobody overtook is about to
  write is the replay of the rows with its events. That a fold over two parts is
  the fold over the whole needs induction over the length; it is done by the least
  counterexample, with the well-foundedness of the natural numbers. `LawfulInv`:
  the rows, and the rows followed by what a handler nobody overtook has decided,
  are a `Lawful` history: its replay exists from the first event on, has the
  domain's shape (milestones with distinct ids, within the project's dates), an
  archive is the last event, and achieving and taking back alternate. One lemma per
  aggregate shows that what a command decides in the state it sees keeps this; it
  is where a handler needs to be undisturbed, since a decision over an older state
  may break it. For such a history the read model's step on an event and the
  aggregate's step make the same visible change, so the folds agree by the same
  argument over prefixes.
- Reactions. `PublishInv`: every readable event between a stream's position and
  the end of its batch has been handled or is still in the batch. `SagaInv`, in
  `SagaInvariant`, says of the states in between what the two properties say of a
  state at rest. An event is outstanding (`PendP` for the row of its project,
  `PendG` for that of the goal) if a thread has it in its batch and has not saved
  that row, if its stream has not read it, or if a rebase is about to seed.
  `BatchInv`: a batch (the replay's from `seeded` on) is the end of what its thread has read, so that with an event
  the later ones of its aggregate are outstanding. `SaneInv`: what a row or a
  thread's copy says was in the log once. `CopyInv`: a copy not marked stale is
  what is stored. `AgreeInv`: each part of a row agrees with the log unless an event
  of that part is outstanding, and a counted completion is in the log, will be
  taken away by an outstanding event (`Clears`), or belongs to a project that
  relapsed. The last is the heart: whether a transition takes a completion away
  depends on the link that its handler will meet in the row, which outstanding
  events may still change (`Meets`). `DueInv`: a goal whose projects are all
  completed is achieved, or archived, or some thread still asks for it, and whoever
  stops asking has achieved it or set `refused` or `overtaken`. `VersionInv` gives
  the asking thread a version. At rest nothing is outstanding and nobody asks.
  `MCReactionsInvariant.cfg` checks the six parts with TLC.

Only model-checked:

- liveness (`Converges`, `EveryRequestAnswered`, `WaitingPushResumes`,
  `EventsPushed`, `Settles`, `FlowsEnd`): it rests on fairness, which this prover
  does not reason about;
- that the query of a projection has an answer for every set of unread rows
  (`FirstOf` is not empty), which takes induction over the rows; the runs read a
  batch in every state in which a loop is to;
- the counterexamples below.

## Findings

`app_restore`: the key vault in a backup holds the application's master key, but
the keys of the aggregates are random, are kept in IndexedDB `mo-local-keys` and
are in neither the key backup nor the database. After a reset, or on another
device, the restored events cannot be decrypted (`docs/invariants.md` INV-012 and
`docs/runbooks/backup-and-restore.md` say they can).

Further sentences of the documents that the code does not keep. Each has a
configuration that ends in a counterexample to one property; they are not runs of
the project because the passing runs already say what holds in spite of them.
`tlc -config <cfg> <module>` reproduces each.

| Configuration (module) | Property | Contradicts | Because |
|---|---|---|---|
| `MCSyncEngineRush.cfg` (`MCSyncEngine`) | `OnlyCaughtUpPushesAccepted` | rfc-20251228-livestore-replacement.md:1798 "a client must be at the server head before it can push domain events" | `lastKnownHead` is set before the page is applied (`SyncEngine.ts:376`) |
| `MCSyncEngineGap.cfg` (`MCSyncEngine`) | `ConflictLeavesNoGap` | rfc-20251228-livestore-replacement.md:1799 "includes the missing remote events (or a cursor to fetch them)" | the cursor moves to the head although `missing` is capped (`SyncEngine.ts:547`) |
| `MCSyncEngineTaken.cfg` (`MCSyncEngine`) | `SyncedRowsAreKept` | invariants.md:11 (INV-001) "Once an event has a `globalSequence`, ciphertext bytes + metadata are never rewritten" | a command may take a version between the look-up and the batch of a page, which keeps the rest of the page (`SyncEngine.ts:1016`); a reset then makes a synced row pending, and the rewriter shifts it |
| `MCSyncServerStale.cfg` (`MCSyncServer`) | `AuthorisedWhenStored` | invariants.md:32 (INV-022) on pushes with "stale authorization bases" | scope and grant are checked before, and outside, the transaction that stores the events (`sync.service.ts:64`) |
| `MCSyncSchedulerStorm.cfg` (`MCSyncScheduler`) | `NoPullStorm` | infrastructure-layer.md:133 "is guarded to avoid pull storms" | a second pull loop, or the loop besides a `syncOnce`, finds a pull in flight and does not wait (`SyncEngine.ts:690`) |
| `MCProjectionRestart.cfg` (`MCProjection`) | `RestartSafe` | rfc-20251128-local-first-poc.md:536 "can safely be restarted" | snapshots are written per event, the position per batch (`ProjectionRuntime.ts:190`) |
| `MCProjectionRefold.cfg` (`MCProjection`) | `RestartSafe` | the same sentence, without any restart | when the analytics cannot be updated, the snapshot has the event already and the position has not (`GoalProjectionProcessor.ts:155`); the next pass folds it again |
| `MCProjectionOverlap.cfg` (`MCProjection`) | `EventuallyConsistent` | rfc-20251228-livestore-replacement.md:1560 "The projection/indexing runtime is 'eventually consistent compute'" | `start()` does not use the task runner (`ProjectionRuntime.ts:88`): a loop whose batch was not full may set the cursor and the snapshot back behind the other loop's and end; the rows in between stay unread until something is written or flushed |
| `MCCommandsRace.cfg` (`MCCommands`) | `NoSilentOverwrite` | workflows.md:33 "If `knownVersion` mismatches, the handler fails with `ConcurrencyError` (no silent overwrites on-device)" | `save()` reads the version again and appends above it (`GoalRepository.ts:69`) |
| the same, with `EffectOnce` | `EffectOnce` | testing-strategy.md:63 "replays do not double-apply effects (eventId/idempotency keys)" | the key is looked up before the command and recorded after it (`GoalCommandHandler.ts:458`), and the sagas of two tabs send one key |
| the same, with `SnapshotsValid` | `SnapshotsValid` | PendingEventVersionRewriter.ts:91 "version shifts invalidate them" | a snapshot persisted after the rewriter's transaction and before the page's batch (`SyncEngine.ts:1016`) is not deleted and misses the remote event; also with one handler |
| `MCReactionsCrash.cfg` (`MCReactions`) | `BootstrapReconciles` | failure-modes.md:51 "On bootstrap, sagas should reconcile against repositories/read models and re-run idempotently" | the domain may refuse what bootstrap asks for, and bootstrap throws |
| `MCReactionsReopened.cfg` (`MCReactions`) | `AchievesWhenCompleted` | application-layer.md:103 "automatically achieves a goal when all linked projects are completed" | a project completed again before the saga's own `GoalUnachieved` is folded into the row finds the goal achieved there, and nothing asks later (`GoalAchievementSaga.ts:322`) |
| `MCReactionsRelinked.cfg` (`MCReactions`) | `CompletionsAreDerived` | application-layer.md:103 "tracks project completion" | the handlers of a new project and of a new link only add completions (`GoalAchievementSaga.ts:145`, `:172`); one counted for a project that was taken up before it was linked stays, and the goal is achieved with it |
| `MCEventStoreHello.cfg` (`MCEventStore`) | `SharedServesAll` | infrastructure-layer.md:30 "SharedWorker owns the DB and serves all tabs" | of two hellos during an open, the one that fails clears the worker's name (`owner.worker.ts:255`) |
| `MCKeyServicePresence.cfg` (`MCKeyService`) | `PresenceSurvivesPassphrase` | rfc-20260107-key-service-core.md:199 "PRF unlock remains valid" | the passkey's wrap is bound to the key derivation parameters a change of passphrase replaces (`key_service.rs:411`) |

Met while modelling, without a configuration of their own:

- Synchronisation: a pull may rewrite a row that a push has sent (`rushed` covers
  it); an event created or numbered during a long poll is not seen by the rebase
  decision, nor is anything if the pull throws after a page (`missed`); a pull whose event
  the push thread inserts between the two look-ups finds a synced row in its way and
  parks (`taken`); both loops test one shared status, so an error of one
  may park the other.
- Projections: when `start()` and the task runner overlap (`overlapped`), an event may
  be folded twice or lost from the snapshot; a rebuild asked for before `start()` that
  fails in the middle of a batch leaves a cache ahead of the position `start()` then
  reads (`torn`), and events are folded twice without any reload; an event
  whose key is missing is skipped for good (`skipped`); an event that cannot be
  read makes `start()` reject with its ready promise open; a task that throws
  drops the rerun that was asked for.
- Saga: a `ProjectGoalRemoved` delivered twice drops the project's row; handlers
  of two streams lose updates; a failed bootstrap subscribes its handlers again; in
  a store without master key bootstrap replays nothing and does not come back to it,
  and a rebase then leaves the saga without rows.
- Event store: the rows of an imported backup are announced to nobody, though the page
  watches the table by then (`AppProvider.tsx:308`); a failed import leaves a closed connection while hello is still
  answered; a failed open leaks its access handles; the answer to a mismatching
  hello is awaited by nobody, so the tab waits for its timeout.
- Application: overlapping onboarding and restore, or onboarding in two tabs,
  leave a session key that is not the vault's; a failed restore leaves the
  backup's user as store id, under which onboarding then creates new keys;
  `createVault` in a restore overwrites an existing vault before the import;
  services created after the page's clean-up are never closed.

## Not modelled

- Client-side sharing (outbox, verification, stores, scope aggregates): nothing
  in the application creates or calls it, so how its steps follow each other is
  not in the source.
- API access: registration and sessions are forwarded to Kratos, an external
  service; `SyncServer` takes the identity of a request as given.
- Several tabs' projection runtimes over one `projection_cache`, and several tabs'
  publishers and sagas over one set of positions and rows; the contents of the
  analytics and search caches.
- Cryptographic primitives (their correctness is about bytes and secrecy),
  serialisation of single events, value objects that only validate text, React
  components and view models, generated bindings, database migrations beyond the
  constraints they create, logging.
