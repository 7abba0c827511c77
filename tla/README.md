# A TLA+ verification of Antimatter

Antimatter is a development environment that runs a project's files, builds,
workflow rules, terminals and deployments on a workspace server and shows them
in a browser. This directory holds TLA+ models of its coordination logic,
configurations that check them with TLC, and theorems about them that TLAPS
checks. Paths below are relative to `src/`; `server/` stands for
`packages/ui/src/server/`.

- [Inventory](#inventory)
- [Modules](#modules)
- [Runs](#runs)
- [Proofs](#proofs)
- [Where the code and its documents disagree](#where-the-code-and-its-documents-disagree)
- [Not modelled](#not-modelled)
- [Plan](#plan)

## Inventory

### The Router and its workers

One Node.js process, the *Router* (`server/workspace-server.ts`), serves all
projects of a workspace host. For every project it keeps a
`ChildProcessManager` (`server/child-process-manager.ts`), which forks and
supervises the *worker* that runs the project (`server/project-worker.ts`).

| part | state | operations |
|---|---|---|
| Router | `children` (project to manager), `childInitPromises` (first spawns in progress), 100 ms respawn timers, `wsConnections`, `totalConnections`, `pendingOpsEvents` | `getOrCreateChild`, callbacks `onReady`/`onExit`/`onConnectionChange`, DELETE of a project context, the upgrade handler, `emitToOpsProject`, SIGTERM, `startup` with `reapOrphans` |
| ChildProcessManager | `state`, `child`, `crashCount`, `lastCrashTime`, `missedPings`, `pendingPong`, timers, the pending `spawn()` promise | `spawn`, `respawn`, `shutdown`, `kill`, `watchdogTick`, dead cooldown, exit and message handlers |
| Worker | `projectContext`, `lastParentContact`, virtual connections | `initialize`, IPC handlers, heartbeat check, shutdown, exits |

They interact through `fork`, IPC messages in both directions, exit events,
signals, and the unix socket the Router proxies requests to. Hard: exits race
with requests, timers, deletions and restarts; several callbacks of one manager
are armed at once; a killed process is replaced before its exit event is
handled; a Router crash leaves workers behind. Correct means: no running worker
is ever out of the Router's hands, first spawns coalesce, a project the Router
proxies to has a worker behind it, no project that died is forgotten, the
watchdog kills the stuck and only the stuck, sockets are announced to whichever
worker serves them, lifecycle events keep their order.

### Build system

`packages/build-system/src`: `BuildExecutor.executeBatch` resolves rules into
waves (`DependencyResolver`), runs each wave in slices of at most
`maxConcurrency`, and answers a rule from a cache of input hashes
(`CacheManager`). State: the cache files, the outputs, and per batch the sets of
failed and rebuilt rules. Callers: the build route and the agent's tool, each
with an executor of its own on the same directory. Hard: batches overlap, files
change during a batch, one rule of a slice fails while others run, dependents'
inputs do not change when a dependency is rebuilt. Correct means: dependencies
first, exact answers, and current outputs when nothing went wrong.
`BuildWatcher` turns debounced file events into triggers, with hold and release.

### Workflow engine

`WorkflowManager` (`server/services/workflow-manager.ts`) feeds a project's
events to the rules of a `WorkflowRuntime` (`packages/workflow/src/runtime.ts`),
which runs cycles until no event is pending or a limit is reached. The
`EventLog` (`server/services/event-log.ts`) gives events sequence numbers,
removes duplicates, keeps a ring, drains to its subscriber and compacts a file.
State: the ring, the file, the checkpoint, pending and held events, the loaded
rules, schedules. Hard: events arrive while a run is in progress, held, or
reloading; a crash between processing and saving a checkpoint; replay. Correct
means: every event is processed at least once and in order across restarts, a
change of the rules is eventually loaded, a schedule fires once per due time.

### Workspace and synchronisation

`ProjectContext` (`server/project-context.ts`) wires one project's services:
`FileChangeNotifier`, `S3SyncScheduler`, the initial download, terminals (PTYs),
connections, shutdown. `packages/workspace/src/s3-sync.ts` compares a manifest,
the local files and the objects in S3. Hard: partial failures, a restart after
half a sync, edits during a sync, the last sync of a shutdown. Correct means: no
edit is lost, nothing deleted comes back.

### Workspace instances

`WorkspaceEc2Service` and the container variant find or launch one instance per
project, attach its volume, hand out a token and stop idle instances. Hard:
two requests at once, an instance that is stopping, a stale token. Correct
means: one instance per project and volume.

### Browser client

`WorkspaceConnection` (`packages/ui/src/client/lib/workspace-connection.ts`)
keeps one reconnecting WebSocket; stores hold editors, terminals, builds and
activities; an automation handler executes commands relayed by the server, in
the tab that holds the lock. Hard: close events of an old socket after a new one
opened, overlapping connects, timeouts racing answers. Correct means: at most
one live socket, and it comes back. The editor's store
(`client/stores/editorStore.ts`) saves by a timer while the user types, files change
outside, and tabs and projects are closed and opened. Correct means: nothing that was
typed is lost without the user's doing.

### Deployments, environments, contexts

`DeploymentExecutor` runs targets and steps in sequence;
`EnvironmentManager`, the registry and the deployed-resource store keep records.
`packages/contexts` parses, derives and validates a project's context model, and
`ContextLifecycleStore` persists the life cycle of contexts. Mostly sequential;
the life cycle's transitions and the stores' concurrent writes are the parts
worth a model.

### Adapters

Lambda front end, routes and middleware, service interface, MCP server, agent
framework, file systems, subprocess runner, project model, infrastructure: I/O
and types around the parts above.

## Modules

| module | models | builds on |
|---|---|---|
| `WorkerSupervisor` | Router and managers: creation, readiness, respawn, teardown, restart | |
| `ConnectionRelay` | WebSockets relayed to workers over IPC | extends `WorkerSupervisor` |
| `OpsIngress` | lifecycle events on their way to the ops project | extends `WorkerSupervisor` |
| `WorkerWatchdog` | the clocks of one manager and its worker | |
| `BuildService` | abstract: what a batch of builds promises | |
| `BuildExecutor` | builds with dependencies and a cache | implements `BuildService` |
| `EventLog` | the event log of a worker: ring, file, drain, compaction | |
| `WorkflowManager` | processing, checkpoint, hold, reload, crash | extends `EventLog` |
| `S3Sync` | a project's files, their backup and the scheduler | |
| `InputChannel` | abstract: what a terminal promises about typed input | |
| `ClientSession` | a browser tab's connection, its store, its user | implements `InputChannel` |
| `WorkspaceInstances` | instances, volumes and routes of the workspaces | |
| `ContextLifecycle` | derivation, persistence and announcement of statuses | |
| `EditorStore` | a browser tab's open files, their timer, saves and reloads, and the files behind them | |
| `RouterProofs` | theorems: types, no lost worker, creation, readiness, recovery; events in order and to a worker; connections announced and forgotten | extends `ConnectionRelay` and `OpsIngress` |
| `WorkerWatchdogProofs` | theorems: the blocked are killed and no others, what the cooldown forgives | extends `WorkerWatchdog` |
| `BuildExecutorProofs` | theorems: dependencies first, the refinement, calm builds are current | extends `BuildExecutor` |
| `WorkflowManagerProofs` | theorems: queues and waiters are woken, no change is lost | extends `WorkflowManager` |
| `WorkspaceProofs` | theorems: types, what a sync may change in the backup, the manifest is true; one server, with its data | extends `S3Sync` and `WorkspaceInstances` |
| `ClientSessionProofs` | theorems: input order, the refinement, one session, what is shown is real | extends `ClientSession` |
| `ContextLifecycleProofs` | theorems: file, rules and statuses follow each other | extends `ContextLifecycle` |
| `EditorStoreProofs` | theorems: what is clean was stored, what is unsaved stays and is attended | extends `EditorStore` |
| `MC...` | instances of the above for TLC | |

Everywhere, one action is what the code does between two points where something
else can run: from one `await`, callback or timer to the next. What an action
stands for, line by line, is in `PROJECT.json` under `map`.

### WorkerSupervisor

The Router is a single event loop, so one action is one callback, run to
completion *together with the promise continuations it releases*: `HandleExit`
is the exit handler, the rejection of a pending `spawn()`, what `respawn()` does
with that rejection, and `onExit`. Between actions everything interleaves:
requests, messages, exits, timers, deletions, signals.

Managers and workers are numbered in order of creation and never reused, as
objects and processes are; `0` is `null`. A manager's `waiter` says which call
holds the `readyResolve`/`readyReject` pair (`create` for the first spawn,
`respawn`), `backoffs` how many `respawn()` calls sleep, `closing` whether a
`shutdown()` waits for `closingChild`. A worker is `init`, `up`, `failed` (its
`initialize()` threw, the process stays), `exited` (dead, the exit event still to
be handled) or `gone`. `readyMsg` is a *ready* message in the pipe.

Abstractions and assumptions:

- *Time.* A timer may fire at any moment after it is armed; whether a crash
  falls into the crash window is a free choice (`inWindow`). `WorkerWatchdog`
  has the durations. The backoff is at least a second, and the model assumes a
  process that got SIGKILL has been reaped and its exit event handled by then
  (`Reaped` guards `BackoffElapsed`).
- *Order.* Messages a worker sent before it died are read before its exit event
  (the guard `~readyMsg[w]` of `HandleExit`).
- *`fork()`* succeeds, or the bundle is missing (`BundleMissing`), which
  `spawn()` handles. The `error` event of a child process is not modelled.
- *DELETE* of a project that is already being shut down repeats the same waits:
  it collapses into the one flag `closing`.
- *Router crash.* `RouterDown` is any end of the Router, with its workers left
  running; `RouterStart` is systemd starting it again and `reapOrphans` before
  it listens.
- `saidDead` is a history variable: the last respawn ended with the `ChildDead`
  event.

### ConnectionRelay

Every action is an action of `WorkerSupervisor` plus what the same callback does
to the connections, or a step of a connection that leaves the supervision alone.
IPC is one queue per direction and worker; `via[c]` is the manager the upgrade
handler's closure captured, which stays the same when the project's manager is
replaced. After a respawn the Router announces the connections of the *project*
again to the manager that came back (`Reregister`). `ws-message` changes nothing
the module keeps and is left out.

### OpsIngress

An event is its position in the order of emission. `Emit(ready)` is
`emitToOpsProject`; `ready` is computed at the point of each callback where it
emits: `onReady` of the ops manager itself runs when the manager is ready
already, but before a first spawn is put into `children`. The module ends where
`sendIngressEvent` hands the message to the IPC channel: `sent` keeps each event
with the process it was written to, `None` when `send()` found no child and
dropped it. That happens after a late *ready* of a killed worker, between the
kill and the exit event; `EventsReachAWorker` says it happens at no other time.
`EventsKeepOrder` is about the Router's side of the channel only.

### WorkerWatchdog

One manager and one worker, time in ticks of ten seconds. The Router and the
worker's event loop are prompt: what is due or has arrived is handled before
time passes (`Idle` guards `Tick`), except that a `blocked` worker handles
neither messages nor timers until `Unblock`. The respawn for a missing bundle is
left to `WorkerSupervisor`.

### BuildExecutor

`deps` is fixed in the initial state. A rule's own input files are a version
number; what a command makes is the record of the version it read and of the
outputs below it, so "current" means equal to what building now would give. A
command reads and writes at one instant; failed commands leave no output. The
order of rules inside a wave is left open (the code follows the order of the
rule list), so a slice is any subset of the right size. Every `await` that lets
files change in between is a boundary between actions: loading the cache entry,
comparing the inputs, the command, saving. `CompareThrows` is an input file that
disappears between glob and snapshot: the batch is rejected and the rest of its
slice keeps running. A `Builds` slot is one executor; it is reused once nothing
of its last batch is running.

### BuildService

The abstract view of a batch: rules settle once each, in view of the results
directly below them; a batch is answered when all settled; a circular graph is
refused; a rejected batch may still see the commands it started settle. The
refinement hides waves, slices, the cache and the sources: `deps`, `outcome` and
`status` are those of `BuildExecutor` (`IsBuildService`). "Skipped exactly if
something below failed", through rules that were skipped themselves, follows from
the local rule of `Settle`.

### EventLog and WorkflowManager

An entry carries the number of the change it reports, `0` for one that is not a
file's change. The workflow state is the set of changes the rules were given, so
"lost" and "processed" can be said of a change across crashes. `EventLog` gives
operators, one per method; `WorkflowManager` has the variables' actions, since the
log's only subscriber is the manager, and node runs one thread: a microtask (a
call whose promise is resolved, a start that goes on) precedes timers and input
(`Quiet`).

A call of `processEvents` is a record. `waiting` are the calls behind
`reloadPromise`, `ready` those past it; `run` is the one whose rules run or whose
state is being written; `pending` the queue; `flushes` what is behind a zero
timeout. Three callers run `start()`: the worker's start, a client's
*workflow-reload*, the debounced reload (`Loaders`), each with a program counter.
`Crash` loses the memory at any point, also with the state file half written
(`Torn`), and starts the next worker, which loads the file and replays.

The state file has two writers, which may overlap: the run (`stage` "saving") and the
scheduler's ticker, which prunes schedules beside whatever runs (`saving`). A write is
done, or fails before or after it truncated the file (`Write`), and the manager goes on
either way, as `saveState` swallows the error. So does `processEvents` when the runtime
throws (`RulesThrow`): the state stays, the checkpoint of the call moves.

Abstractions: the rules are one step that ends or throws; a schedule or an emitted event
is an event that may come; whether a definition file loads, is broken or missing is
a free choice; one path of each kind, whose second report may fall into the
deduplication window; the drain timer may fire at any time. `calm` is a ghost that
goes false where events are *known* to get lost (the list is
[below](#where-the-code-and-its-documents-disagree)); everything else must keep
them (`NothingIsLost`).

### S3Sync

`local`, `s3` and `manifest` map every path to a content, which is its hash. A
sync goes through the stages of `syncToS3`: walk, upload (read the file again, put
it, or fail), delete, write the manifest, or fail to (`ManifestFails`: `sync()` logs the
error and the worker goes on). A request that fails was lost, or only its answer. The
download copies bytes, while the sync reads, hashes and puts every file as UTF-8 text
(`Read`): `Text` maps a content to what is left of it, which for a binary file is another
content. Walk, put and delete are one step per
file, in any order: the code uploads in parallel and orders files by directory
listing. `SyncBegins` is the interval of `S3SyncScheduler`; `sync()` returns at
once when one is in flight, also the last one of a shutdown (`Shutdown`). Every
worker starts with `initialSyncFromS3`, which downloads into an empty directory
only. A worker may crash in any step, the volume may be lost between workers.
Three ghosts say what may be wrong and why: `edited` has the files somebody wrote,
`skipped` those that the walk in progress could not read, `doubtful` those whose entry in
the manifest need not be right, because the file changed between the walk and the request
or because the manifest of that sync was not written.

### ClientSession and InputChannel

The singleton `WorkspaceConnection`, the terminal store that listens to its states,
and the route that REST calls take. Requests in flight and sockets have an
identity, as callbacks have closures; nothing in the code asks an event which
socket it belongs to, and the model does not either: any socket's close drops
`ws`. Timers whose handle was overwritten are counted in `strayTimers`. A user
who acts before the last operation settled is counted in `hurries`; several
properties are promises to patient users only (`Patient`), because the code keeps
them no further.

`InputChannel` is what the terminal promises about input: sent, kept while there
is room, or dropped; what waits goes out together, first, and in order. The
refinement maps `waiting` to `inputBuffer` (`IsInputChannel`).

### WorkspaceInstances

Lambda containers handle one request each; a request is a program counter with
what it found so far. Between any two calls to AWS everybody else may act: other
containers, the cloud (boot, halt, terminate), an administrator. Instances are
their tags; `newer` has the pairs of them whose first was launched later, by which the
search decides which duplicate stays. `disturbed` becomes true where the code cannot keep a
second server away: a start beside another start, a stop during a start, a refused
volume. `AskedFor` is what the two liveness properties presume of clients: that they ask
again and again. Both the per-project and the shared mode are in the module; the run uses
the shared one, as the deployed stacks do.

### ContextLifecycle

Derivation follows `deriveLifecycleStatuses` for a given tree: what is required,
what is below, what it depends on, and what was done before (regressions). The
store recomputes when its debounce timer fires, writes the file, and *then* tells
the rules what changed. Several writes can be in flight. Triggers: results (saved,
then announced), reloads that take the rules away and may fail, edits of the
contexts file that may break it. A client's *workflow-reload* (`ClientReloads`) loads
rules and results too, but announces nothing; the statuses stay as they are until
something else recomputes. It may come during the worker's own reload, which then puts
`old` rules back if it fails. Initialisation is one step. `untold`, `doubt` and
`blind` are ghosts for what the code gives up on: transitions cut off by a crash,
a file that overlapping or failed writes left open, statuses that a failed reload or a
client's left behind.

### EditorStore

A text is its author, its project and a number; a tab holds its text, the text it
was last saved or loaded as (`original`), `dirty` and the flag of a change outside.
`tabs` is keyed by path alone, as `openFiles` is. Requests to save, read and check are
answered in any order; a request names a project, the reload after an external change
names none, and `Served` says whether the server answers such a read (the Lambda
front end does not). `saves` numbers the saves ever sent; a save whose page is gone may
still be carried out (`awaited`). A server's write, a foreign write and a deletion put
a message into `news`, which a switch of project or a new page empties, since it comes
with the project's socket; the batches of `FileChangeNotifier` are messages one by one,
which is the same to the handler. The one timer fires at any time after it was armed,
so the model does not see that steady typing postpones it.

`acceptExternalVersion` (`AcceptExternal`) replaces a text, unsaved or not, by what is on
the disk; the store offers it without asking for a conflict, and no component calls it
yet. `stored` is a ghost. Left out: the status bar (`saveState`), which only displays; the
explorer's create, rename and move; opening a file through the automation. The
explorer's double-click opens a file; a second request to open the same file may be in
flight, as in the code, and then replaces what was typed in between (`TakenAway`).

## Runs

Passing runs:

| run | instance | distinct states | shows |
|---|---|---|---|
| `supervisor` | 1 project, 3 managers, 3 workers, 1 restart, budget 2, fair | 63 k | `NoLostWorker`, `CoalescedCreation`, `ReadyIsBacked`, `NoSilentDeath`, `DownIsResolved`, `ShutdownReturns` |
| `relay_safety` | 1 project, 1 connection, 2 managers, 3 workers, 1 restart | 415 k | `OpenIsAnnounced`, `ClosedIsForgotten` |
| `ops_ingress` | ops project and another, 2 managers, 3 workers, 1 restart | 271 k | `EventsKeepOrder`, `EventsReachAWorker` |
| `watchdog` | the code's durations in ticks of 10 s | 213 k | `BlockedIsKilled`, `OnlyBlockedIsKilled`, `CooldownOnlyWhenDead` |
| `build` | 3 rules, a dependency graph of each shape and a circular one, 2 builds, 2 batches, 1 edit | 2.6 M | `DependenciesFirst`, `CalmIsCurrent`, `IsBuildService` |
| `workflow` | ring of 3, 2 changes, 3 sequence numbers, 1 manual event or reload, 1 fault (a crash, a failed write, rules that throw), fair | 800 k | `NothingIsLost`, `QueueIsWoken`, `WaitersAreWoken`, `NothingIsStuck` |
| `sync` | 2 files, 3 contents, one of them binary, 2 edits, 1 fault, 2 stops, fair | 2.9 M | `ManifestIsTrue`, `OnlyEditsReachTheBackup`, `BackupConverges` |
| `session` | 2 projects, 2 calls, 3 sockets, 2 retries, 2 inputs, 2 hurries, fair | 152 k | `OneSession`, `ConnectedIsReal`, `RoutingFollows`, `IsInputChannel`, `GivesUpLate`, `WaitingEnds` |
| `instances` | 2 projects, 2 containers, 2 instances, 2 starts, 2 troubles, fair | 681 k | `OneServer`, `ServerHasItsData`, `DuplicatesGo`, `RouteReturns` |
| `lifecycle` | a context with two below, one depending on the other, 3 changes, 2 stops, 1 fault, fair | 910 k | `FileIsCurrent`, `RulesWereTold`, `StatusIsCurrent`, `StatusCatchesUp` |
| `editor` | 2 projects, 2 files, 2 texts, 1 trouble, 2 saves, 1 read at once | 1.8 M | `CleanIsStored`, `UnsavedSurvives`, `OnlyThenNeglected` |

A module's type invariant is a conjunct of one of its invariants, or proved
(`TypeCorrect`, `SyncTypes`, `EditorTypes`).

*Supervisor bounds.* What makes supervision hard happens within one project:
projects share only the Router's life, and their managers never touch each
other. One project suffices except where two projects meet (`ops_ingress`).
Three managers cover a manager that is replaced while it respawns and again
after a deletion; three workers cover a crash, a respawn and a replacement, with
one process still dying; the second start of the Router covers reaping. A budget of
two reaches "too many crashes" within three workers. The bounds on managers and
workers stop the system, so deadlock is not checked there.

*Watchdog bounds.* None: every counter saturates where it stops mattering, the
durations are the code's, so the run is the whole behaviour of one manager.
Deadlock is checked: time can always pass.

*Build bounds.* Graphs on three rules have every pattern the code distinguishes:
a chain (failure and force through a rule in between), a fork, a join (two
dependencies in one slice), a triangle (a dependency in an earlier wave than the
last). `maxConcurrency` 2 makes one wave of three rules need two slices. Two
batches with one edit between, before or during them are what incremental
invalidation needs. The two callers are interchangeable (symmetry).

*Workflow bounds.* Two changes are what order and queueing need: one in a run, one
queued. A ring of three does not overflow before the third number, so that the run
also sees what is lost *without* an overflow (a ring of two hides the way that the
proof of `NothingIsLost` brought up, see below). With more (four entries, four or
five numbers, three changes, one or two manual events, no crash: up to 33 M states)
TLC finds no violation of it either. One fault is a crash, a failed write of the state
file or an error of the rules, each alone. After a crash everything in memory is the same,
and a second one only finds the files the first one could find; a failed write followed
by a crash or a reload is left to the proofs, which take any number of faults. One manual
event covers each kind of it, an edit of an automation file, a schedule or its pruning, a
rule request or a reload by a client, beside the automatic ones. The run takes about
three minutes.

*Sync bounds.* Files interact only through the sync's stages and the emptiness of the
directory: two suffice, with three contents (an edit and an edit back, and a binary file
with its decoding). Two stops cover a broken download and the worker after it, one fault
each kind of failure alone.

*Session bounds.* Two calls and three sockets are an old and a new session plus
one that a timer adds; what exceeds them is not started, so a user who hurries
more than twice is not seen. Two retries stand for the code's fifteen. One input
in the buffer and two typed show overflow and overtaking.

*Instances bounds.* Two of everything: two containers race; two instances are a
keeper and a duplicate; two projects share them. Two starts and two troubles cover
a stop between them.

*Lifecycle bounds.* The tree has each relation once. Three changes are a result, a
reload around it, the worker's or a client's, and another result.

*Editor bounds.* Two files compete for the timer, two projects for a path. Two texts are
what a save races with: the one sent and one typed, or written outside, since. Two saves
in all are an old and a new one; one trouble is a switch, a new page or a failure. A
switch there and back, and failures beside it, are left to the proofs: all three
properties are theorems for any number of troubles. Files and projects are
interchangeable (symmetry).

*Deadlock* is checked where nothing is used up for good: `watchdog`, `sync`,
`session`, `instances`. Elsewhere bounds on managers, batches, sequence numbers or
changes stop the system by themselves.

*Fairness.* Everywhere it is what the event loop, the operating system, the browser
or AWS provide: messages and exit events arrive, armed timers fire, requests end
one way or the other, a process that exited is started again. Nothing is assumed
of users, edits, workers that crash, or networks that drop. In detail: in
`supervisor`, `InitTimeout` is what makes a worker that never becomes ready give
way, and with a bound on workers the last one cannot be replaced, hence the
disjunct `nWorkers = MaxWorkers`; in `workflow`, a timer is overtaken by microtasks
again and again but not for ever, hence strong fairness of drains, flushes and of the
run (its rules end or throw, its write ends: one condition, since it need not be the
rules of the *same* run that end). In `instances` nothing is assumed of clients: they ask
until the instance runs, at most 180 times, and a reconnect does not ask
(`workspace-connection.ts:103-116`, 339-345). So `DuplicatesGo` and `RouteReturns` promise
something only as long as a project is asked for (`AskedFor`), by whoever waits for it or
opens it.

Runs that end in a counterexample are listed
[below](#where-the-code-and-its-documents-disagree). Each property of a passing
run is broken by a mutant of the code (operators marked *Mutant* beside the
definition they replace): among them a kill without its signal, a respawn guard
that is never reset, a drain in the wrong order, a wave one dependency too early,
a queue that is replaced instead of extended, a failed upload recorded as done, a
buffer that is sent and kept, a search that spares duplicates, a write that fails
silently.

## Proofs

For every value of the constants, bounds included:

| theorem | module | property |
|---|---|---|
| `TypeCorrect` | `RouterProofs` | `TypeOK` |
| `NoWorkerIsLost` | `RouterProofs` | `NoLostWorker` |
| `CreationIsCoalesced` | `RouterProofs` | `CoalescedCreation` |
| `ReadyHasWorker` | `RouterProofs` | `ReadyIsBacked` |
| `NoRespawnIsLost` | `RouterProofs` | `NoSilentDeath` |
| `EventsAlwaysInOrder` | `RouterProofs` | `EventsKeepOrder` |
| `EventsAlwaysReachAWorker` | `RouterProofs` | `EventsReachAWorker` |
| `OpenIsAlwaysAnnounced` | `RouterProofs` | `OpenIsAnnounced` |
| `ClosedIsAlwaysForgotten` | `RouterProofs` | `ClosedIsForgotten` |
| `BlockedAreAlwaysKilled` | `WorkerWatchdogProofs` | `BlockedIsKilled` |
| `NoOthersAreKilled` | `WorkerWatchdogProofs` | `OnlyBlockedIsKilled` |
| `CooldownFindsThemDead` | `WorkerWatchdogProofs` | `CooldownOnlyWhenDead` |
| `CommandsWaitForDependencies` | `BuildExecutorProofs` | `DependenciesFirst` |
| `ExecutorIsService` | `BuildExecutorProofs` | `IsBuildService` |
| `CalmBuildsAreCurrent` | `BuildExecutorProofs` | `CalmIsCurrent` |
| `QueueIsAlwaysWoken` | `WorkflowManagerProofs` | `QueueIsWoken` |
| `WaitersAreAlwaysWoken` | `WorkflowManagerProofs` | `WaitersAreWoken` |
| `NothingIsEverLost` | `WorkflowManagerProofs` | `NothingIsLost` |
| `SyncTypes` | `WorkspaceProofs` | `SyncTypeOK` |
| `BackupFollowsEdits` | `WorkspaceProofs` | `OnlyEditsReachTheBackup` |
| `ManifestNeverLies` | `WorkspaceProofs` | `ManifestIsTrue` |
| `ServersStayAlone` | `WorkspaceProofs` | `OneServer` |
| `ServersHaveTheirData` | `WorkspaceProofs` | `ServerHasItsData` |
| `InputsKeepOrder` | `ClientSessionProofs` | `InputInOrder` |
| `TerminalIsChannel` | `ClientSessionProofs` | `IsInputChannel` |
| `PatientUserHasOneSession` | `ClientSessionProofs` | `OneSession` |
| `ConnectedMeansConnected` | `ClientSessionProofs` | `ConnectedIsReal` |
| `RouteFollowsConnection` | `ClientSessionProofs` | `RoutingFollows` |
| `GivingUpIsLate` | `ClientSessionProofs` | `GivesUpLate` |
| `FileFollowsStatuses` | `ContextLifecycleProofs` | `FileIsCurrent` |
| `RulesAreTold` | `ContextLifecycleProofs` | `RulesWereTold` |
| `StatusesAreCurrent` | `ContextLifecycleProofs` | `StatusIsCurrent` |
| `EditorTypes` | `EditorStoreProofs` | `EditorTypeOK` |
| `CleanWasStored` | `EditorStoreProofs` | `CleanIsStored` |
| `UnsavedIsKept` | `EditorStoreProofs` | `UnsavedSurvives` |
| `NeglectHasAReason` | `EditorStoreProofs` | `OnlyThenNeglected` |

### Supervision

All safety invariants of the run `supervisor` are proved.

The induction for `NoLostWorker` needs more than the invariant: that a live
worker is its manager's `child` is preserved by `Fork` only if the manager has
no child then, which holds because `spawn()` is entered in the states `idle`,
`spawning` and `dead` only and those have none; and the exit handler clears
`child` only rightly if no other process took the place of the one that exited.
`SlotInv` says both, and that the numbers of workers not yet forked are unused.
It rests on `TypeOK` and on `RecordsOK` (defined beside the proof): processes,
sleeping backoffs and `children` name managers that were created, and `children`
files each manager under its own project.

The other three add `MessagesOK`: a *ready* message comes from a worker that was
up, is read before that worker's exit event, and is read by no later Router.
Their conjunction `SupervisionInv` is inductive, and relative to it each of the
three properties is inductive itself. Where the arguments turn:

- `CoalescedCreation`: the entry in `childInitPromises` is removed by the *ready*
  of its own manager only, because a manager whose `waiter` is `create` is that
  entry.
- `ReadyIsBacked`: the *ready* of a worker killed meanwhile finds the manager
  without a child; the exit event is then still to come, since messages are read
  first.
- `NoSilentDeath`: an exit arms the timer unless another manager took the
  project over; the timer starts a backoff or says dead; the backoff forks or
  says dead; a timer that fires for one project takes nothing from another.

Each step lemma has one step per action, with `Fork`, `Kill` and the exit handler
as lemmas where several actions share them.

### Traffic

Relay and ingress compose with the supervisor, and a step of theirs is one of its
steps or leaves it alone; so their inductive invariants extend `SupervisionInv`.
`InOrder` states `EventsKeepOrder` position by position: the events that were sent and
those still buffered are, one after the other, all that were emitted. `RelayInv` adds
that a ready manager's spawn has returned and a worker not yet ready is awaited
(`ReadyOrAwaited`), that an open connection belongs to a registered manager
(`OpenIsServed`), that nobody is told a connection is closed which is not
(`InboxesOK`), and the two properties in terms of one inbox (`OpenTold`, `ClosedLast`):
what it says last of a connection is what is true.

### Watchdog

No clock is bounded by itself; how two of them run together is. `Silence` is the longest
time that a worker can have been silent in view of its watchdog: the intervals missed
and what has passed of this one. `Watched` says that a worker is not blocked, and was
not out of touch, for longer, and that a ping without an answer was missed because the
worker was blocked for all of that time; `PingsFit` that no pings wait but those. So the
watchdog's count *is* the time a worker was blocked, in both directions.

Two relations between the durations are assumed (`TimeoutsAssumption`), both true of the
code's constants: the watchdog restarts a worker (after 80 s at most) before the worker
gives up on its parent (120 s); and a backoff and a start (5 min 30 s at most) are over
before the cooldown (15 min). `Cooling` measures a crash by the backoff and the start
that followed it. That a backoff is a number in its range rests on
`PowersOfTwo`, which counts the subsets of an interval: an induction over the crashes is
out of reach.

### Builds

`BatchInv` says of every batch where it stands: it has settled the rules of the waves
before the current one, and of that one those no longer in `todo` or in flight
(`InWaves`; waves are sets of rules, and at most as many as their rules); and a rule
is started, and succeeds, after its dependencies have, and settles once (`InOrder`).
`DependenciesFirst` follows; so does the refinement (`ExecutorIsService`): initial
states map to initial states and every step to a step of `BuildService` or a stutter.
`CalmInv` adds the files: while calm, a rule whose entry is stale is forced, and a
forced rule that settled was rebuilt.

Waves are a recursive function on numbers. That it has a value which obeys its
equation (`RecursionDefines`) is proved of least counterexamples, a number for which
it fails and below which it does not (`LeastNumber`, from the library's `WFMin`), since
an induction theorem would need an operator as a parameter.

### Workflow queues

A queue that is not on hold has a run that will flush it, since `FlushPending` is
part of the step that ends a run and `Proceed` queues only beside one. For the
waiters the run's two invariants are not inductive: that a call waits behind a
promise which somebody resolves needs `PromiseIsKept`, that the promise exists only
while a reload runs or its timer is armed; the timer that fires during a reload
is the step where the second disjunct carries the proof. The sizes of ring, retained
part and all bounds stay arbitrary.

`NothingIsLost` says of a change reported in calm that it is in somebody's hand, in
the ring above the checkpoint that counts, or was given to the rules. A *reload* is
what makes it hard: it throws away what memory knows and reads a checkpoint from
disk. The invariant is `LossInv`: the log is sorted and dated, and what `since` answers
is the rest above a checkpoint (`LogInv`); and, while calm, no checkpoint lies in
the future (`CheckpointsArePast`), what a checkpoint that will last covers is kept
(`CoveredIsKept`), the ring has all that the rules have not seen (`RingIsEnough`), and no
call is dropped unless a reload is about to read what it held (`NoneDropped`). So a
stale reload finds in the ring all that nobody has in hand. The checkpoints that may
last are those in memory, in the file, in the write of the run and in that of the
scheduler (`Checkpoint`, `Lasting`); while calm the state persisted in memory is the
state (`StateOK`), so a write that fails leaves an older file but loses nothing until
somebody reads it, and reading another state than memory's ends calm. The attempt to prove
it showed one more way to lose an event, which is listed
[below](#where-the-code-and-its-documents-disagree); calm ends there now.

### Synchronisation

`OnlyEditsReachTheBackup` is a property of steps; its proof rests on an invariant
about every *clean* path, one nobody edited and no download broke off in
(`Faithful`): if the local file is there, the object is gone, or equal to it or to its
text; and manifest, walk and body say nothing else. The walk matters most: a path it has
*passed* was skipped, or was seen as it reads (`Passed`), so the stage that deletes, which
compares the manifest with what was seen, spares what was not skipped. `Pieces` says the
same of what a broken download left, `Blanked` and the stages' relation to the worker
keep one sync's data from another's.

`ManifestIsTrue` is about every path that is not in doubt. `Progress` says, stage by stage,
what the sync in progress has to do with the objects, so that the manifest written last is
right but where it says so; and `Honest` that the manifest on disk is right but for what
the sync in progress has already changed (`Requested`), which is what becomes doubtful
when that sync is cut off or its manifest is not written.

### Instances

A start decides by what it has found, several requests to AWS ago. `CloudInv` says what
it still knows at each place (`StartIsSafe`): nothing that it must not add to is stopping
when it begins to look; when it asks for another server or a stopped one, there are
stopped ones only; and where it launches, no rival exists and its volume is free. So
there is at most one server (`AtMostOneEach`), and each has its volume or is about to be
given it (`VolumeIsThere`). That holds while at most one start is under way
(`AtMostOneStart`), which is what `disturbed` is about; the types of requests, instances
and volumes (`RequestsFit`, `InstancesTypeOK`) hold whatever comes. Which instance a
search finds rests on `NewestExists` and `KeeperExists`: `LaunchOrder` is a strict total
order of the existing instances, finitely many, so one of them was launched last, the one
after which the fewest were.

### Client

`OrderInv`: an input is newer than everything sent or kept, and nothing is kept
while the terminal is connected. The last conjunct carries the proof: a step that
sends directly is not overtaking. Every step does one of four things to the
inputs (nothing, flush, reset, type), and one lemma says that of all actions;
from it follow both the invariant and, with the invariant, that each step is one of
the abstract channel.

For the promises to a patient user the invariant is `PatientInv`: while nobody
hurried, at most one operation is under way (`Alone`), and the request in flight
(`RequestFits`), the sockets (`SocketFits`) and the states of connection and store
(`StatesFit`) are the ones that operation can have; the closes counted are no fewer
than the attempts to reconnect, which is what `GivesUpLate` needs.

### Lifecycle file

`FileIsCurrent` needs to know who is writing: without doubt there is at most one
write in flight and it carries the current statuses (`Undisturbed`). `RulesWereTold`
(`ToldInv`) follows a transition from the status the store knows through the writes in
flight to what the rules heard. Neither expands the derivation, so both hold of any.

`StatusIsCurrent` does; `CurrentInv` follows the rules that a reload puts back
(`Standing`) and what a client's reload changes unannounced (`blind`). `done` is defined
by recursion over what is required and what is below, and the proof needs the equation
it obeys. It holds for trees without circles (`NoCircle`), an assumption of the module:
`lifecycle.ts:73` leaves circles to the validation before, and the model has none.

### Editor

All three properties of the run are proved. `CleanIsStored` needs that whatever a tab
may *become* was stored too (`AllStored`): the `original` of every tab, the text of every
save that was written, the answer of every read, every file. The types are part of the
induction, because a tab, a save and a timer must be told from `None`. The two
properties of steps go through the actions: for `UnsavedSurvives` each leaves the tab,
changes another, or is among those that may take the text; for `OnlyThenNeglected` a
step keeps whoever attends to the file (`AttendedOn`), or arms the timer, or sends a
save, and the one step that disarms it either sends the save or finds the file clean.

### Assumptions, and what is left to TLC

The proofs use the named assumptions on the constants (bounds are natural numbers,
`None` is no project and no record, contents differ from the two marks for "absent"
and "broken off", no tree has a circle, the account's instances are finitely many, and
the durations fit together as above) and no others. Each step lemma has one step
per action.

Every invariant and every action property that a run checks is a theorem.

Only model-checked: everything temporal under fairness (`DownIsResolved`,
`ShutdownReturns`, `NothingIsStuck`, `BackupConverges`, `WaitingEnds`,
`DuplicatesGo`, `RouteReturns`, `StatusCatchesUp`: TLAPS does not prove liveness
under fairness).

## Where the code and its documents disagree

One run of `PROJECT.json` ends in a counterexample:

| run | property | what happens |
|---|---|---|
| `supervisor_one_worker` | `OneWorkerPerProject` | a request during a respawn creates a second manager; both get a worker on the same socket path |

Eleven more are stated in the modules and refuted with a configuration of their
own (`tlc -config X.cfg M`), beside the runs of `PROJECT.json`:

| configuration | module | property | what happens |
|---|---|---|---|
| `SupervisorTornDown.cfg` | `MCWorkerSupervisor` | `TornDownIsGone` | a DELETE during a respawn's backoff removes the project, then the backoff forks a worker for it (`workspace-server.ts:567`, `docs/architecture.md:229`) |
| `SupervisorStartupCrash.cfg` | `MCWorkerSupervisor` | `StartupCrashIsRecovered` | a first spawn that fails leaves its rejected promise in `childInitPromises` for ever (`workspace-server.ts:313`, `child-process-manager.ts:5`) |
| `RelayTotal.cfg` | `MCConnectionRelay` | `TotalIsConnectionCount` | a WebSocket is counted by the Router and by the worker (`workspace-server.ts:144` and 668) |
| `WatchdogFiveMinutes.cfg` | `MCWorkerWatchdog` | `StartHasFiveMinutes` | a worker that starts for more than two minutes ends itself (`project-worker.ts:214`, `child-process-manager.ts:150`) |
| `BuildFailedCached.cfg` | `MCBuildExecutor` | `FailedIsNotCached` | a forced rebuild that fails leaves the older entry, which answers *cached* (`cache-manager.ts:119`, `build-executor.spec.ts:184`) |
| `InstancesShared.cfg` | `MCWorkspaceInstances` | `SharedServerIsOne` | two requests launch two shared servers (`workspace-ec2-service.ts:6`) |
| `SessionResurrected.cfg` | `MCClientSession` | `DisconnectedStays` | a status answer that comes after `disconnect()` connects again (`workspace-connection.ts:310`) |
| `WorkflowCheckpoint.cfg` | `MCWorkflowManager` | `CheckpointIsProcessed` | events queued in memory behind a run move the checkpoint, that run saves it, and a crash loses them (`workflow-manager.ts:203`, `event-log.ts:14`) |
| `EditorOtherProject.cfg` | `MCEditorStore` | `AutoSaveIsOwn` | a save is answered after the project was switched: the tab of the same path in the new project is marked unsaved, and the timer that is set again would write its text over the old project's file (`editorStore.ts:144`) |
| `EditorReload.cfg` | `MCEditorStore` | `CleanIsReloaded` | the reload after an external change names no project, and nobody serves such a read: the old text stays on show (`editorStore.ts:177`) |
| `LifecycleNoOp.cfg` | `MCContextLifecycle` | `NoOpIsSilent` | overlapping recomputations announce a transition that is none (`context-lifecycle-store.spec.ts:235`) |

Met while modelling, without a configuration of their own:

- `server/child-process-manager.ts:36` limits *consecutive* crashes; the code
  counts crashes less than a minute apart since the last *ready*, so slower
  crash loops never end (`docs/architecture.md:200` says within five minutes).
- `server/workspace-server.ts:280` reports "too many crashes" also when a
  respawn failed to start.
- `server/workspace-server.ts:120` buffers events until the ops project is
  ready; only the next event drains the buffer, and a late *ready* of a killed
  worker drains it into a manager without a child.
- `build-system/src/cache-manager.ts:21` keeps output hashes "for verification";
  nothing reads them.
- Workflow manager: events that arrive *during* a reload do not wait for it
  (`workflow-manager.ts:750-756`) and are dropped while `runtime` is null; a
  client's *workflow-reload* runs `start()` beside a save in progress and may load
  the file that is being written; `runRule` answers null during a run (658); the
  startup comparison of files (`workflow-manager.ts:15`) never runs, because
  `persistAndBroadcast` drops the manifest it needs. An event that is dropped during a
  reload has moved the checkpoint (`workflow-manager.ts:203`, 755); a run that began
  before the reload and saves after it (816) writes that checkpoint, and the reload's
  replay starts above it: the event is lost without any crash. When the runtime throws on
  a batch (a predicate that throws), `processEvents` answers null and leaves the state as
  it was (776-778), and the checkpoint moves past the batch all the same (202-203): its
  events are given to no rule, now or after a restart. A write of the state file that
  failed is only logged (1336-1340); a later reload then reads the older state over the
  newer one in memory. The scheduler's ticker writes the same file beside a run's write
  (497-499), and a reload between the two reads either, or neither.
- Event log: a different edit of a file within five seconds of one reported by REST
  is dropped as its duplicate (`event-log.ts:166`).
- Synchronisation: files are downloaded as bytes (`project-context.ts:959`) but read and
  put as UTF-8 text (`s3-sync.ts:215`, 375), so the first sync after a download, which
  has no manifest, replaces the backup of every binary file by its lossy decoding. A
  manifest whose write failed (273, logged by `project-context.ts:289`) stays the old
  one: a file edited, put, and edited back then has its other content in S3 until it is
  edited again; the same after a sync that was cut off. A failed deletion drops out of
  the manifest and the object stays (`s3-sync.ts:246`); a file edited between its hash
  and its upload, and edited back, leaves the other content in S3 until the next edit; a
  file that cannot be read counts as deleted, and so its backup is deleted (379, 246); a
  broken download is taken for complete by the next start (`project-context.ts:929`) and
  a truncated file is uploaded; a file deleted between its download and the first sync
  comes back.
- Client: a start request that fails leaves the connection at PENDING and the store
  at `error`; opening a project that is connected already leaves the store at
  `starting`; input typed while the socket closes is dropped.
- Editor: an external change of an unsaved file sets a flag that nothing reads, and
  the next save overwrites it (`editorStore.ts:196`, "let user decide"; nothing calls
  `acceptExternalVersion`); a failed save
  is not tried again until the next key; a file closed and opened again while it is
  saved is marked unsaved when it was read before the write, and the older text is
  saved again; changes reported by REST have the type `change`, which the handler
  ignores.
- Instances: a route that a request of another container throws out comes back only with
  the next start or status request, and a client that was told RUNNING, or reconnects,
  makes none (`workspace-connection.ts:103-116`, 339-345); two polls may each terminate
  the server the other keeps; an instance that is stopping leads to a second launch
  without its volume (`workspace-ec2-service.ts:276`).
- Lifecycle: a client's *workflow-reload* changes rules and results without a recompute
  (`project-context.ts:1430-1434`), so statuses may be stale until the next change;
  statuses derived during a reload see no rules, and announce regressions
  that are none; a broken contexts file forgets what was done before; a crash between
  write and announcement loses the transition.

## Not modelled

`PROJECT.json` lists every component with its status. Left out for good: text
transformations (parsing of the contexts DSL, code emission, diagnostics, test
output), thin adapters (routes, Lambda, MCP, service interface, subprocess
runner, file systems), rendering, infrastructure, test code, and the agent loop,
whose behaviour is the language model's. Code that nothing calls is left out too:
`syncFromS3`, `BuildWatcher`, the container variant of the workspace service. What
follows is the plan.

## Plan

Done: supervision, relay, ops ingress, watchdog, builds with their abstract
service, event log and workflow manager, synchronisation, client session with its
abstract channel, instances, context lifecycle, the editor's store; theorems about
all but the event log by itself. Next:

1. Proofs: what `EventLog` promises by itself (sequence numbers, the ring, compaction);
   the types of the build executor and the relay as theorems of their own.
2. The workflow runtime's cycles and their limit (`packages/workflow/src/runtime.ts`).
3. The project context model store; renaming and moving files that are open.
4. Commands relayed to a browser tab and the tabs' lock; the event logger's batches
   and the poller's cursor; the deployment executor.
5. An abstract set of project slots (empty, starting, serving) that
   `WorkerSupervisor` implements.
