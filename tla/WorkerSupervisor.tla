-------------------------- MODULE WorkerSupervisor --------------------------
(***************************************************************************)
(* The Router's supervision of project workers.                            *)
(*                                                                         *)
(* A ChildProcessManager (child-process-manager.ts) owns at most one       *)
(* `child` process at a time.  The Router (workspace-server.ts) keeps the  *)
(* managers in `children`, coalesces first spawns in `childInitPromises`,  *)
(* and respawns a worker from the manager's onExit callback: 100 ms later  *)
(* it looks the project's manager up again and calls respawn(), which      *)
(* checks the crash budget, sleeps the backoff and calls spawn().          *)
(*                                                                         *)
(* The Router is one event loop: a callback runs to completion together    *)
(* with the promise continuations it releases, so each action below is one *)
(* callback.  The worker processes and the operating system interleave     *)
(* with it freely.  Time is abstracted: a timer may fire at any moment     *)
(* after it is armed (WorkerWatchdog models the durations).  Two orders    *)
(* the platform provides are kept: a worker's IPC messages are read before *)
(* its exit event, and a process that got SIGKILL is reaped before a       *)
(* backoff of at least a second runs out (Reaped).                         *)
(***************************************************************************)
EXTENDS Naturals, FiniteSets

CONSTANTS
  Projects,     \* project ids that requests may name
  CrashBudget,  \* CRASH_BUDGET
  MaxManagers,  \* bound: managers ever created
  MaxWorkers,   \* bound: workers ever forked
  MaxRestarts   \* bound: restarts of the Router

ASSUME ProjectsAssumption == Projects # {}

ASSUME BoundsAssumption ==
  /\ CrashBudget \in Nat
  /\ MaxManagers \in Nat
  /\ MaxWorkers \in Nat
  /\ MaxRestarts \in Nat

VARIABLES
  router,       \* "up", "stopping" (SIGTERM handler running) or "down"
  restarts,     \* how often the Router was started again
  nManagers,    \* managers created so far; ids are 1..nManagers
  nWorkers,     \* workers forked so far; ids are 1..nWorkers
  children,     \* Map projectId -> manager, 0 when absent
  initPromise,  \* childInitPromises: the manager being created, 0 when absent
  exitTimers,   \* armed 100 ms timers of onExit, per project
  project,      \* manager -> its project
  state,        \* manager -> ChildProcessManager.state
  child,        \* manager -> this.child, 0 for null
  crashCount,   \* manager -> this.crashCount
  waiter,       \* manager -> the call whose readyResolve/readyReject it holds
  backoffs,     \* manager -> respawn() calls asleep in their backoff
  closing,      \* manager -> a shutdown() call in progress, and for whom
  closingChild, \* manager -> the worker whose exit that shutdown() awaits
  saidDead,     \* manager -> ChildDead was the last outcome of a respawn
  owner,        \* worker -> the manager that forked it
  proc,         \* worker -> status of the process
  readyMsg      \* worker -> a 'ready' message is in its IPC pipe

routerVars == <<router, restarts>>
mapVars == <<children, initPromise, exitTimers>>
managerVars == <<nManagers, project, state, child, crashCount, waiter,
                 backoffs, closing, closingChild, saidDead>>
workerVars == <<nWorkers, owner, proc, readyMsg>>
vars == <<routerVars, mapVars, managerVars, workerVars>>

Managers == 1..MaxManagers
Workers == 1..MaxWorkers
None == 0

RouterStates == {"up", "stopping", "down"}
ManagerStates == {"idle", "spawning", "initializing", "ready", "dead"}
Waiters == {"none", "create", "respawn"}

\* "init": the worker runs initialize(); "up": it listens and sent 'ready';
\* "failed": initialize() threw, the process lives on; "exited": it is dead
\* and its exit event not yet handled; "gone": handled (or the Router died).
ProcStates == {"none", "init", "up", "failed", "exited", "gone"}
LiveStates == {"init", "up", "failed"}
Live(w) == proc[w] \in LiveStates

Serving == router # "down"

\* Every process manager m lost was reaped, its exit event handled.
Reaped(m) == \A w \in Workers : owner[w] = m => proc[w] # "exited"

-----------------------------------------------------------------------------
Init ==
  /\ router = "up"
  /\ restarts = 0
  /\ nManagers = 0
  /\ nWorkers = 0
  /\ children = [p \in Projects |-> None]
  /\ initPromise = [p \in Projects |-> None]
  /\ exitTimers = [p \in Projects |-> 0]
  /\ project = [m \in Managers |-> CHOOSE p \in Projects : TRUE]
  /\ state = [m \in Managers |-> "idle"]
  /\ child = [m \in Managers |-> None]
  /\ crashCount = [m \in Managers |-> 0]
  /\ waiter = [m \in Managers |-> "none"]
  /\ backoffs = [m \in Managers |-> 0]
  /\ closing = [m \in Managers |-> "no"]
  /\ closingChild = [m \in Managers |-> None]
  /\ saidDead = [m \in Managers |-> FALSE]
  /\ owner = [w \in Workers |-> None]
  /\ proc = [w \in Workers |-> "none"]
  /\ readyMsg = [w \in Workers |-> FALSE]

-----------------------------------------------------------------------------
(* ChildProcessManager: pieces of its methods                              *)

\* spawn(), from fork() to the await: the manager becomes 'initializing' and
\* holds the resolve/reject pair of the caller `who`.
Fork(m, who) ==
  LET w == nWorkers + 1 IN
  /\ nWorkers < MaxWorkers
  /\ nWorkers' = w
  /\ owner' = [owner EXCEPT ![w] = m]
  /\ proc' = [proc EXCEPT ![w] = "init"]
  /\ state' = [state EXCEPT ![m] = "initializing"]
  /\ child' = [child EXCEPT ![m] = w]
  /\ waiter' = [waiter EXCEPT ![m] = who]
  /\ UNCHANGED readyMsg

\* spawn() throwing because the worker bundle is missing: the state is left
\* at 'spawning' and no process exists.
BundleMissing(m) ==
  /\ state' = [state EXCEPT ![m] = "spawning"]
  /\ UNCHANGED <<workerVars, child, waiter>>

\* Mutant: kill() forgets the child without signalling it.
KillWithoutSignal(m) ==
  /\ child' = [child EXCEPT ![m] = None]
  /\ state' = [state EXCEPT ![m] = "dead"]
  /\ UNCHANGED proc

\* kill(): SIGKILL, forget the child and be 'dead' at once; the exit event
\* comes later.
Kill(m) ==
  IF child[m] = None
  THEN UNCHANGED <<proc, child, state>>
  ELSE /\ proc' = [proc EXCEPT ![child[m]] =
                     IF @ \in LiveStates THEN "exited" ELSE @]
       /\ child' = [child EXCEPT ![m] = None]
       /\ state' = [state EXCEPT ![m] = "dead"]

\* A rejected spawn(): respawn() returns false and the Router emits
\* ChildDead; a rejected first spawn emits nothing.
ReportRejection(m) ==
  saidDead' = [saidDead EXCEPT ![m] = @ \/ waiter[m] = "respawn"]

\* Mutant: the exit handler forgets the child and keeps the state.
LoseChildKeepState(m) ==
  /\ child' = [child EXCEPT ![m] = None]
  /\ UNCHANGED state

\* The exit handler: dead, and no child.  It does not look which child exited.
LoseChild(m) ==
  /\ child' = [child EXCEPT ![m] = None]
  /\ state' = [state EXCEPT ![m] = "dead"]

-----------------------------------------------------------------------------
(* The Router                                                              *)

\* Mutant: no look at the pending promise.
NeedsManagerUncoalesced(p) ==
  ~(children[p] # None /\ state[children[p]] = "ready")

\* getOrCreateChild finds neither a ready manager nor a pending creation.
NeedsManager(p) ==
  /\ ~(children[p] # None /\ state[children[p]] = "ready")
  /\ initPromise[p] = None

\* Mutant: onExit looks at the state before the exit handler changed it.
AlreadyRespawningStale(m) ==
  LET inMap == children[project[m]] IN
  inMap # None /\ state[inMap] # "dead"

\* onExit: the project's registered manager is another one, and not dead.
AlreadyRespawning(m) ==
  LET inMap == children[project[m]] IN
  inMap # None /\ inMap # m /\ state[inMap] # "dead"

\* A 100 ms timer of onExit is armed for p.
TimerArmed(p) == exitTimers[p] > 0

\* Mutant: only the DELETE handler's shutdown() has a timer.
AwaitsExitDelete(m) == closing[m] = "delete"

\* A shutdown() of m waits for an exit, with its 10-second timer armed.
AwaitsExit(m) == closing[m] # "no"

\* getOrCreateChild(p) creates a manager and spawns its worker.  A project
\* whose manager is dead or respawning takes this path too.
CreateChild(p) ==
  LET m == nManagers + 1 IN
  /\ Serving
  /\ NeedsManager(p)
  /\ nManagers < MaxManagers
  /\ nManagers' = m
  /\ project' = [project EXCEPT ![m] = p]
  /\ initPromise' = [initPromise EXCEPT ![p] = m]
  /\ Fork(m, "create") \/ BundleMissing(m)
  /\ UNCHANGED <<routerVars, children, exitTimers, crashCount, backoffs,
                 closing, closingChild, saidDead>>

\* handleChildMessage('ready') and the continuations it releases.  The
\* message is acted on even if the process was killed meanwhile.  A first
\* spawn puts the manager into `children`, replacing any other.
HandleReady(w) ==
  LET m == owner[w]
      p == project[m] IN
  /\ Serving
  /\ readyMsg[w]
  /\ readyMsg' = [readyMsg EXCEPT ![w] = FALSE]
  /\ state' = [state EXCEPT ![m] = "ready"]
  /\ crashCount' = [crashCount EXCEPT ![m] = 0]
  /\ waiter' = [waiter EXCEPT ![m] = "none"]
  /\ saidDead' = [saidDead EXCEPT ![m] = FALSE]
  /\ IF waiter[m] = "create"
     THEN /\ children' = [children EXCEPT ![p] = m]
          /\ initPromise' = [initPromise EXCEPT ![p] = None]
     ELSE UNCHANGED <<children, initPromise>>
  /\ UNCHANGED <<routerVars, exitTimers, nManagers, project, child, backoffs,
                 closing, closingChild, nWorkers, owner, proc>>

\* The child's 'exit' handler, the Router's onExit, and the continuation of
\* a shutdown() that waited for this exit.  onExit arms the respawn timer
\* unless the project's manager is alive ("Already being respawned").
HandleExit(w, inWindow) ==
  LET m == owner[w]
      p == project[m] IN
  /\ Serving
  /\ proc[w] = "exited"
  /\ ~readyMsg[w]
  /\ proc' = [proc EXCEPT ![w] = "gone"]
  /\ LoseChild(m)
  /\ crashCount' = [crashCount EXCEPT ![m] = IF inWindow THEN @ + 1 ELSE 1]
  /\ waiter' = [waiter EXCEPT ![m] = "none"]
  /\ ReportRejection(m)
  /\ exitTimers' = [exitTimers EXCEPT ![p] =
       IF AlreadyRespawning(m) THEN @ ELSE @ + 1]
  /\ children' = [children EXCEPT ![p] =
       IF closingChild[m] = w /\ closing[m] = "delete" THEN None ELSE @]
  /\ IF closingChild[m] = w
     THEN /\ closing' = [closing EXCEPT ![m] = "no"]
          /\ closingChild' = [closingChild EXCEPT ![m] = None]
     ELSE UNCHANGED <<closing, closingChild>>
  /\ UNCHANGED <<routerVars, initPromise, nManagers, project, backoffs,
                 nWorkers, owner, readyMsg>>

\* The 5-minute timer of spawn(): reject, then kill.
InitTimeout(m) ==
  /\ Serving
  /\ state[m] = "initializing"
  /\ waiter[m] # "none"
  /\ Kill(m)
  /\ waiter' = [waiter EXCEPT ![m] = "none"]
  /\ ReportRejection(m)
  /\ UNCHANGED <<routerVars, mapVars, nManagers, project, crashCount,
                 backoffs, closing, closingChild, nWorkers, owner, readyMsg>>

\* watchdogTick() at the third missed pong.  When pongs go missing is the
\* subject of WorkerWatchdog.
WatchdogKill(m) ==
  /\ Serving
  /\ state[m] = "ready"
  /\ child[m] # None
  /\ Kill(m)
  /\ UNCHANGED <<routerVars, mapVars, nManagers, project, crashCount, waiter,
                 backoffs, closing, closingChild, saidDead,
                 nWorkers, owner, readyMsg>>

\* The body of onExit's 100 ms timer: look the manager up again and call
\* respawn(), whose budget check runs at once.
RespawnTimer(p) ==
  LET c == children[p] IN
  /\ Serving
  /\ TimerArmed(p)
  /\ exitTimers' = [exitTimers EXCEPT ![p] = @ - 1]
  /\ IF c = None
     THEN UNCHANGED <<backoffs, saidDead>>
     ELSE IF crashCount[c] >= CrashBudget
     THEN /\ saidDead' = [saidDead EXCEPT ![c] = TRUE]
          /\ UNCHANGED backoffs
     ELSE /\ backoffs' = [backoffs EXCEPT ![c] = @ + 1]
          /\ saidDead' = [saidDead EXCEPT ![c] = FALSE]
  /\ UNCHANGED <<routerVars, children, initPromise, nManagers, project, state,
                 child, crashCount, waiter, closing, closingChild, workerVars>>

\* respawn() after its backoff: spawn(), which does nothing for a manager
\* that is ready or initializing.
BackoffElapsed(m) ==
  /\ Serving
  /\ backoffs[m] > 0
  /\ Reaped(m)
  /\ backoffs' = [backoffs EXCEPT ![m] = @ - 1]
  /\ IF state[m] \in {"ready", "initializing"}
     THEN UNCHANGED <<state, child, waiter, saidDead, workerVars>>
     ELSE \/ Fork(m, "respawn") /\ UNCHANGED saidDead
          \/ /\ BundleMissing(m)
             /\ saidDead' = [saidDead EXCEPT ![m] = TRUE]
  /\ UNCHANGED <<routerVars, mapVars, nManagers, project, crashCount,
                 closing, closingChild>>

\* The cooldown timer, 15 minutes after the last crash: far longer than the
\* respawn timer, the backoffs and a worker's start (WorkerWatchdog's
\* CooldownOnlyWhenDead), so nothing is on its way when it fires.
DeadCooldown(m) ==
  /\ Serving
  /\ state[m] # "initializing"
  /\ crashCount[m] > 0
  /\ Reaped(m)
  /\ backoffs[m] = 0
  /\ exitTimers[project[m]] = 0
  /\ crashCount' = [crashCount EXCEPT ![m] = 0]
  /\ UNCHANGED <<routerVars, mapVars, nManagers, project, state, child, waiter,
                 backoffs, closing, closingChild, saidDead, workerVars>>

-----------------------------------------------------------------------------
(* Deliberate stops                                                        *)

\* DELETE /internal/project-context/:p.  Without a child shutdown() returns
\* at once and the entry goes; otherwise the handler waits for the exit.
DeleteContext(p) ==
  LET m == children[p] IN
  /\ Serving
  /\ m # None
  /\ IF child[m] = None
     THEN /\ children' = [children EXCEPT ![p] = None]
          /\ UNCHANGED <<closing, closingChild>>
     ELSE /\ closing' = [closing EXCEPT ![m] = "delete"]
          /\ closingChild' = [closingChild EXCEPT ![m] = child[m]]
          /\ UNCHANGED children
  /\ UNCHANGED <<routerVars, initPromise, exitTimers, nManagers, project,
                 state, child, crashCount, waiter, backoffs, saidDead,
                 workerVars>>

\* The 10-second timer of shutdown().
ShutdownTimeout(m) ==
  /\ Serving
  /\ AwaitsExit(m)
  /\ Kill(m)
  /\ closing' = [closing EXCEPT ![m] = "no"]
  /\ closingChild' = [closingChild EXCEPT ![m] = None]
  /\ children' = IF closing[m] = "delete"
                 THEN [children EXCEPT ![project[m]] = None]
                 ELSE children
  /\ UNCHANGED <<routerVars, initPromise, exitTimers, nManagers, project,
                 crashCount, waiter, backoffs, saidDead,
                 nWorkers, owner, readyMsg>>

\* SIGTERM to the Router: shutdown() of every manager in `children`.  The
\* server keeps accepting requests, and exits still arm respawns.
Sigterm ==
  LET stopped == {m \in Managers : child[m] # None /\ closing[m] = "no"
                                   /\ children[project[m]] = m} IN
  /\ router = "up"
  /\ router' = "stopping"
  /\ closing' = [m \in Managers |->
                   IF m \in stopped THEN "stop" ELSE closing[m]]
  /\ closingChild' = [m \in Managers |->
                   IF m \in stopped THEN child[m] ELSE closingChild[m]]
  /\ UNCHANGED <<restarts, mapVars, nManagers, project, state, child,
                 crashCount, waiter, backoffs, saidDead, workerVars>>

\* The Router's process ends: its SIGTERM handler is done, the handler's
\* 30-second timer fires, or it crashes.  Its state is lost, workers stay.
RouterDown ==
  /\ Serving
  /\ restarts < MaxRestarts
  /\ router' = "down"
  /\ children' = [p \in Projects |-> None]
  /\ initPromise' = [p \in Projects |-> None]
  /\ exitTimers' = [p \in Projects |-> 0]
  /\ state' = [m \in Managers |-> "idle"]
  /\ child' = [m \in Managers |-> None]
  /\ crashCount' = [m \in Managers |-> 0]
  /\ waiter' = [m \in Managers |-> "none"]
  /\ backoffs' = [m \in Managers |-> 0]
  /\ closing' = [m \in Managers |-> "no"]
  /\ closingChild' = [m \in Managers |-> None]
  /\ saidDead' = [m \in Managers |-> FALSE]
  /\ proc' = [w \in Workers |-> IF proc[w] = "exited" THEN "gone" ELSE proc[w]]
  /\ readyMsg' = [w \in Workers |-> FALSE]
  /\ UNCHANGED <<restarts, nManagers, project, nWorkers, owner>>

\* systemd starts the Router again: startup() runs reapOrphans() before the
\* server listens.
RouterStart ==
  /\ router = "down"
  /\ router' = "up"
  /\ restarts' = restarts + 1
  /\ proc' = [w \in Workers |-> IF Live(w) THEN "gone" ELSE proc[w]]
  /\ UNCHANGED <<mapVars, managerVars, nWorkers, owner, readyMsg>>

-----------------------------------------------------------------------------
(* The worker processes                                                    *)

\* initialize() completes: the worker listens on its socket and sends 'ready'
\* (to nobody when the Router is gone).
WorkerReady(w) ==
  /\ proc[w] = "init"
  /\ proc' = [proc EXCEPT ![w] = "up"]
  /\ readyMsg' = [readyMsg EXCEPT ![w] = Serving]
  /\ UNCHANGED <<routerVars, mapVars, managerVars, nWorkers, owner>>

\* initialize() throws: the handler reports a fatal error and the process
\* stays, never to become ready.
WorkerInitFails(w) ==
  /\ proc[w] = "init"
  /\ proc' = [proc EXCEPT ![w] = "failed"]
  /\ UNCHANGED <<routerVars, mapVars, managerVars, nWorkers, owner, readyMsg>>

\* The process ends: a crash, an uncaught exception, a shutdown message, a
\* signal, or the worker's own heartbeat check.
WorkerExit(w) ==
  /\ Live(w)
  /\ proc' = [proc EXCEPT ![w] = IF Serving THEN "exited" ELSE "gone"]
  /\ UNCHANGED <<routerVars, mapVars, managerVars, nWorkers, owner, readyMsg>>

-----------------------------------------------------------------------------
ProjectStep ==
  \E p \in Projects : CreateChild(p) \/ RespawnTimer(p) \/ DeleteContext(p)

ManagerStep ==
  \E m \in Managers :
    \/ InitTimeout(m)
    \/ WatchdogKill(m)
    \/ BackoffElapsed(m)
    \/ DeadCooldown(m)
    \/ ShutdownTimeout(m)

WorkerStep ==
  \E w \in Workers :
    \/ HandleReady(w)
    \/ \E inWindow \in BOOLEAN : HandleExit(w, inWindow)
    \/ WorkerReady(w)
    \/ WorkerInitFails(w)
    \/ WorkerExit(w)

Next == ProjectStep \/ ManagerStep \/ WorkerStep
        \/ Sigterm \/ RouterDown \/ RouterStart

Spec == Init /\ [][Next]_vars

(***************************************************************************)
(* Fairness.  The operating system delivers the messages and exit events   *)
(* of the workers, and armed timers fire.  Nothing obliges a worker to     *)
(* become ready, but spawn() gives up on one after 5 minutes.  Two timers  *)
(* of one manager or project never starve each other: each is weakly fair. *)
(***************************************************************************)
Fairness ==
  /\ \A w \in Workers :
       /\ WF_vars(HandleReady(w))
       /\ WF_vars(\E inWindow \in BOOLEAN : HandleExit(w, inWindow))
  /\ \A p \in Projects : WF_vars(RespawnTimer(p))
  /\ \A m \in Managers :
       /\ WF_vars(BackoffElapsed(m))
       /\ WF_vars(InitTimeout(m))
       /\ WF_vars(ShutdownTimeout(m))

FairSpec == Spec /\ Fairness

-----------------------------------------------------------------------------
(* Properties                                                              *)

TypeOK ==
  /\ router \in RouterStates
  /\ restarts \in Nat
  /\ nManagers \in 0..MaxManagers
  /\ nWorkers \in 0..MaxWorkers
  /\ children \in [Projects -> 0..MaxManagers]
  /\ initPromise \in [Projects -> 0..MaxManagers]
  /\ exitTimers \in [Projects -> Nat]
  /\ project \in [Managers -> Projects]
  /\ state \in [Managers -> ManagerStates]
  /\ child \in [Managers -> 0..MaxWorkers]
  /\ crashCount \in [Managers -> Nat]
  /\ waiter \in [Managers -> Waiters]
  /\ backoffs \in [Managers -> Nat]
  /\ closing \in [Managers -> {"no", "delete", "stop"}]
  /\ closingChild \in [Managers -> 0..MaxWorkers]
  /\ saidDead \in [Managers -> BOOLEAN]
  /\ owner \in [Workers -> 0..MaxManagers]
  /\ proc \in [Workers -> ProcStates]
  /\ readyMsg \in [Workers -> BOOLEAN]

\* While the Router serves, every live worker is the current child of the
\* manager that forked it: no manager loses track of a running worker, none
\* runs two, and no worker of an earlier Router survives into this one
\* (spawn, kill, the exit handler, reapOrphans).
NoLostWorker ==
  Serving => \A w \in Workers : Live(w) => owner[w] # None /\ child[owner[w]] = w

\* The inductive strengthening of NoLostWorker: how managers and processes
\* belong to each other.
SlotInv ==
  \* a manager's child is a process it forked and has not seen exit
  /\ \A m \in Managers : child[m] # None =>
       /\ owner[child[m]] = m
       /\ proc[child[m]] \in LiveStates \union {"exited"}
  \* spawn() is entered only by a manager that has no child
  /\ \A m \in Managers :
       state[m] \in {"idle", "spawning", "dead"} => child[m] = None
  \* a process whose exit event is to come has not been replaced yet
  /\ \A w \in Workers : proc[w] = "exited" =>
       owner[w] # None /\ child[owner[w]] \in {None, w}
  \* a process that was not forked yet is nothing
  /\ \A w \in Workers : w > nWorkers => proc[w] = "none"
  \* without the Router there are no managers
  /\ ~Serving => \A m \in Managers : child[m] = None
  /\ NoLostWorker

\* Promise coalescing: the first spawns in progress for a project are at most
\* one, and it is the one childInitPromises knows (getOrCreateChild).
CoalescedCreation ==
  \A m \in Managers :
    waiter[m] = "create" => initPromise[project[m]] = m

\* A manager the Router would proxy to has a worker that finished its
\* initialize(), or one whose death it has yet to learn of.  'ready' set by a
\* late message of a killed worker is corrected by that worker's exit event.
ReadyIsBacked ==
  \A m \in Managers : state[m] = "ready" =>
    IF child[m] = None THEN ~Reaped(m) ELSE proc[child[m]] \in {"up", "exited"}

\* Something will bring m's project back: its exit event is to come, the
\* respawn timer is armed, or a respawn() sleeps.
Recovering(m) ==
  \/ ~Reaped(m)
  \/ exitTimers[project[m]] > 0
  \/ backoffs[m] > 0

\* A project whose registered manager has no worker is being recovered, or
\* the Router said it is dead: no respawn is lost between the exit handler,
\* the 100 ms timer and the backoff.
NoSilentDeath ==
  \A p \in Projects : LET m == children[p] IN
    m # None /\ state[m] \notin {"initializing", "ready"}
      => Recovering(m) \/ saidDead[m]

\* Crash recovery: a registered project that is down comes back, is reported
\* dead, or is removed (unless the bound on workers was reached).
DownIsResolved ==
  \A p \in Projects : \A m \in Managers :
    (children[p] = m /\ state[m] \notin {"initializing", "ready"})
      ~> \/ children[p] # m
         \/ state[m] \in {"initializing", "ready"}
         \/ saidDead[m]
         \/ nWorkers = MaxWorkers

\* A DELETE that waits for the worker ends, whatever the worker does.
ShutdownReturns == \A m \in Managers : closing[m] # "no" ~> closing[m] = "no"

(* What the documentation says and the code does not do                    *)

\* docs/architecture.md: "Each project runs in a forked Node.js process";
\* the manager's header: "manages one child process per project".
OneWorkerPerProject ==
  Serving => \A v, w \in Workers :
    Live(v) /\ Live(w) /\ project[owner[v]] = project[owner[w]] => v = w

\* docs/architecture.md: "DELETE /internal/project-context/{projectId} - tear
\* down a child process": a project that is neither registered nor being
\* created has no worker.
TornDownIsGone ==
  Serving => \A w \in Workers : Live(w) =>
    LET p == project[owner[w]] IN children[p] # None \/ initPromise[p] # None

\* The manager "implements crash recovery with exponential backoff": a worker
\* that dies while its project is first started is recovered from as well.
StartupCrashIsRecovered ==
  \A p \in Projects :
    initPromise[p] # None ~> initPromise[p] = None \/ nWorkers = MaxWorkers
=============================================================================
