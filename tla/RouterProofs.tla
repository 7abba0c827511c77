---------------------------- MODULE RouterProofs ----------------------------
(***************************************************************************)
(* Proofs about the Router and its workers, for any set of projects and    *)
(* connections and any bounds.                                             *)
(*                                                                         *)
(* WorkerSupervisor: type correctness; a serving Router loses track of no  *)
(* worker; a project's creations are coalesced; a ready manager has a      *)
(* worker behind it; and no respawn gets lost.  Then what travels through  *)
(* the Router while workers come and go: platform events on their way to   *)
(* the ops project (OpsIngress) and the connections of a project's         *)
(* WebSockets (ConnectionRelay).  Both are compositions with               *)
(* WorkerSupervisor, and its inductive invariant is theirs.                *)
(***************************************************************************)
EXTENDS ConnectionRelay, OpsIngress, SequenceTheorems, FiniteSetTheorems, TLAPS

-----------------------------------------------------------------------------
(* WorkerSupervisor                                                        *)


\* The variables have their types in every initial state (Init).
LEMMA InitTypeOK == Init => TypeOK
  <1> SUFFICES ASSUME Init PROVE TypeOK
    OBVIOUS
  <1>1. (CHOOSE p \in Projects : TRUE) \in Projects
    BY ProjectsAssumption
  <1>2. QED
    BY <1>1, BoundsAssumption
    DEF Init, TypeOK, RouterStates, ManagerStates, Waiters, ProcStates,
        Managers, Workers, None

\* kill() keeps the types of what it changes.
LEMMA KillTypes ==
  ASSUME TypeOK, NEW m \in Managers, Kill(m)
  PROVE  /\ proc' \in [Workers -> ProcStates]
         /\ child' \in [Managers -> 0..MaxWorkers]
         /\ state' \in [Managers -> ManagerStates]
  <1>1. CASE child[m] = None
    BY <1>1 DEF Kill, TypeOK
  <1>2. CASE child[m] # None
    <2>1. \A w \in Workers : proc[w] \in ProcStates /\ "exited" \in ProcStates
      BY DEF TypeOK, ProcStates
    <2>2. proc' \in [Workers -> ProcStates]
      BY <1>2, <2>1 DEF Kill, TypeOK
    <2>3. child' \in [Managers -> 0..MaxWorkers]
      BY <1>2, BoundsAssumption DEF Kill, TypeOK, None
    <2>4. state' \in [Managers -> ManagerStates]
      BY <1>2 DEF Kill, TypeOK, ManagerStates
    <2>5. QED
      BY <2>2, <2>3, <2>4
  <1>3. QED
    BY <1>1, <1>2

\* spawn() keeps the types, whether it forks or finds no bundle.
LEMMA SpawnTypes ==
  ASSUME TypeOK, NEW m \in Managers, NEW who \in Waiters,
         Fork(m, who) \/ BundleMissing(m)
  PROVE  /\ nWorkers' \in 0..MaxWorkers
         /\ owner' \in [Workers -> 0..MaxManagers]
         /\ proc' \in [Workers -> ProcStates]
         /\ readyMsg' \in [Workers -> BOOLEAN]
         /\ state' \in [Managers -> ManagerStates]
         /\ child' \in [Managers -> 0..MaxWorkers]
         /\ waiter' \in [Managers -> Waiters]
  <1> DEFINE w == nWorkers + 1
  <1>1. CASE Fork(m, who)
    <2>1. w \in 0..MaxWorkers
      BY <1>1, BoundsAssumption DEF Fork, TypeOK
    <2>2. m \in 0..MaxManagers
      BY DEF Managers
    <2>3. owner' \in [Workers -> 0..MaxManagers]
      BY <1>1, <2>2 DEF Fork, TypeOK
    <2>4. proc' \in [Workers -> ProcStates]
      BY <1>1 DEF Fork, TypeOK, ProcStates
    <2>5. state' \in [Managers -> ManagerStates]
      BY <1>1 DEF Fork, TypeOK, ManagerStates
    <2>6. child' \in [Managers -> 0..MaxWorkers]
      BY <1>1, <2>1 DEF Fork, TypeOK
    <2>7. waiter' \in [Managers -> Waiters]
      BY <1>1 DEF Fork, TypeOK
    <2>8. QED
      BY <1>1, <2>1, <2>3, <2>4, <2>5, <2>6, <2>7 DEF Fork, TypeOK
  <1>2. CASE BundleMissing(m)
    BY <1>2 DEF BundleMissing, TypeOK, ManagerStates, workerVars
  <1>3. QED
    BY <1>1, <1>2

\* Every callback of the Router and every step of a worker keeps the types.
LEMMA NextTypeOK == TypeOK /\ [Next]_vars => TypeOK'
  <1> SUFFICES ASSUME TypeOK, [Next]_vars PROVE TypeOK'
    OBVIOUS
  <1> USE BoundsAssumption
  <1>1. ASSUME NEW p \in Projects, CreateChild(p) PROVE TypeOK'
    <2>1. nManagers + 1 \in Managers
      BY <1>1 DEF CreateChild, TypeOK, Managers
    <2>2. "create" \in Waiters
      BY DEF Waiters
    <2>3. Fork(nManagers + 1, "create") \/ BundleMissing(nManagers + 1)
      BY <1>1 DEF CreateChild
    <2> DEFINE m == nManagers + 1
    <2>4. /\ nWorkers' \in 0..MaxWorkers
          /\ owner' \in [Workers -> 0..MaxManagers]
          /\ proc' \in [Workers -> ProcStates]
          /\ readyMsg' \in [Workers -> BOOLEAN]
          /\ state' \in [Managers -> ManagerStates]
          /\ child' \in [Managers -> 0..MaxWorkers]
          /\ waiter' \in [Managers -> Waiters]
      BY <2>1, <2>2, <2>3, SpawnTypes
    <2>5. m \in 0..MaxManagers
      BY <2>1 DEF Managers
    <2>6. initPromise' \in [Projects -> 0..MaxManagers]
      BY <1>1, <2>5 DEF CreateChild, TypeOK
    <2>7. project' \in [Managers -> Projects]
      BY <1>1 DEF CreateChild, TypeOK
    <2>8. nManagers' \in 0..MaxManagers
      BY <1>1, <2>5 DEF CreateChild
    <2>9. QED
      BY <1>1, <2>4, <2>6, <2>7, <2>8 DEF CreateChild, TypeOK, routerVars
  <1>2. ASSUME NEW p \in Projects, RespawnTimer(p) PROVE TypeOK'
    <2>1. exitTimers' \in [Projects -> Nat]
      BY <1>2 DEF RespawnTimer, TimerArmed, TypeOK
    <2>2. backoffs' \in [Managers -> Nat]
      BY <1>2 DEF RespawnTimer, TypeOK
    <2>3. saidDead' \in [Managers -> BOOLEAN]
      BY <1>2 DEF RespawnTimer, TypeOK
    <2>4. QED
      BY <1>2, <2>1, <2>2, <2>3
      DEF RespawnTimer, TypeOK, routerVars, workerVars
  <1>3. ASSUME NEW p \in Projects, DeleteContext(p) PROVE TypeOK'
    <2>1. children' \in [Projects -> 0..MaxManagers]
      BY <1>3 DEF DeleteContext, TypeOK, None
    <2>2. closing' \in [Managers -> {"no", "delete", "stop"}]
      BY <1>3 DEF DeleteContext, TypeOK
    <2>3. children[p] # None => children[p] \in Managers
      BY DEF TypeOK, Managers, None
    <2>4. closingChild' \in [Managers -> 0..MaxWorkers]
      BY <1>3, <2>3 DEF DeleteContext, TypeOK
    <2>5. QED
      BY <1>3, <2>1, <2>2, <2>4
      DEF DeleteContext, TypeOK, routerVars, workerVars
  <1>4. ASSUME NEW m \in Managers, InitTimeout(m) PROVE TypeOK'
    <2>1. Kill(m)
      BY <1>4 DEF InitTimeout
    <2>2. QED
      BY <1>4, <2>1, KillTypes
      DEF InitTimeout, ReportRejection, TypeOK, routerVars, mapVars, Waiters
  <1>5. ASSUME NEW m \in Managers, WatchdogKill(m) PROVE TypeOK'
    <2>1. Kill(m)
      BY <1>5 DEF WatchdogKill
    <2>2. QED
      BY <1>5, <2>1, KillTypes
      DEF WatchdogKill, TypeOK, routerVars, mapVars
  <1>6. ASSUME NEW m \in Managers, BackoffElapsed(m) PROVE TypeOK'
    <2>1. CASE state[m] \in {"ready", "initializing"}
      BY <1>6, <2>1
      DEF BackoffElapsed, TypeOK, routerVars, mapVars, workerVars
    <2>2. CASE state[m] \notin {"ready", "initializing"}
      <3>1. "respawn" \in Waiters
        BY DEF Waiters
      <3>2. Fork(m, "respawn") \/ BundleMissing(m)
        BY <1>6, <2>2 DEF BackoffElapsed
      <3>3. saidDead' \in [Managers -> BOOLEAN]
        BY <1>6, <2>2 DEF BackoffElapsed, TypeOK
      <3>4. backoffs' \in [Managers -> Nat]
        BY <1>6 DEF BackoffElapsed, TypeOK
      <3>5. QED
        BY <1>6, <3>1, <3>2, <3>3, <3>4, SpawnTypes
        DEF BackoffElapsed, TypeOK, routerVars, mapVars
    <2>3. QED
      BY <2>1, <2>2
  <1>7. ASSUME NEW m \in Managers, DeadCooldown(m) PROVE TypeOK'
    BY <1>7
    DEF DeadCooldown, TypeOK, routerVars, mapVars, workerVars
  <1>8. ASSUME NEW m \in Managers, ShutdownTimeout(m) PROVE TypeOK'
    <2>1. Kill(m)
      BY <1>8 DEF ShutdownTimeout
    <2>2. QED
      BY <1>8, <2>1, KillTypes
      DEF ShutdownTimeout, TypeOK, routerVars, None
  <1>9. ASSUME NEW w \in Workers, HandleReady(w) PROVE TypeOK'
    <2>1. owner[w] \in 0..MaxManagers
      BY DEF TypeOK
    <2>2. /\ children' \in [Projects -> 0..MaxManagers]
          /\ initPromise' \in [Projects -> 0..MaxManagers]
      BY <1>9, <2>1 DEF HandleReady, TypeOK, None
    <2>3. state' \in [Managers -> ManagerStates]
      BY <1>9 DEF HandleReady, TypeOK, ManagerStates
    <2>4. crashCount' \in [Managers -> Nat]
      BY <1>9 DEF HandleReady, TypeOK
    <2>5. waiter' \in [Managers -> Waiters]
      BY <1>9 DEF HandleReady, TypeOK, Waiters
    <2>6. saidDead' \in [Managers -> BOOLEAN]
      BY <1>9 DEF HandleReady, TypeOK
    <2>7. readyMsg' \in [Workers -> BOOLEAN]
      BY <1>9 DEF HandleReady, TypeOK
    <2>8. QED
      BY <1>9, <2>2, <2>3, <2>4, <2>5, <2>6, <2>7
      DEF HandleReady, TypeOK, routerVars
  <1>10. ASSUME NEW w \in Workers, NEW inWindow \in BOOLEAN,
                HandleExit(w, inWindow)
         PROVE TypeOK'
    <2> DEFINE m == owner[w]
               p == project[owner[w]]
    <2>1. /\ state' = [state EXCEPT ![m] = "dead"]
          /\ child' = [child EXCEPT ![m] = 0]
          /\ waiter' = [waiter EXCEPT ![m] = "none"]
          /\ proc' = [proc EXCEPT ![w] = "gone"]
      BY <1>10, Zenon DEF HandleExit, LoseChild, None
    <2>2. /\ state' \in [Managers -> ManagerStates]
          /\ child' \in [Managers -> 0..MaxWorkers]
          /\ waiter' \in [Managers -> Waiters]
          /\ proc' \in [Workers -> ProcStates]
      <3>1. 0 \in 0..MaxWorkers
        OBVIOUS
      <3>2. state' \in [Managers -> ManagerStates]
        BY <2>1 DEF TypeOK, ManagerStates
      <3>3. child' \in [Managers -> 0..MaxWorkers]
        BY <2>1, <3>1 DEF TypeOK
      <3>4. waiter' \in [Managers -> Waiters]
        BY <2>1 DEF TypeOK, Waiters
      <3>5. proc' \in [Workers -> ProcStates]
        BY <2>1 DEF TypeOK, ProcStates
      <3>6. QED
        BY <3>2, <3>3, <3>4, <3>5
    <2>3. saidDead' \in [Managers -> BOOLEAN]
      <3>1. saidDead' =
              [saidDead EXCEPT ![m] = saidDead[m] \/ waiter[m] = "respawn"]
        BY <1>10, Zenon DEF HandleExit, ReportRejection
      <3>2. saidDead \in [Managers -> BOOLEAN]
        BY DEF TypeOK
      <3>3. \A n \in Managers : saidDead[n] \in BOOLEAN
        BY <3>2
      <3>4. saidDead' = [n \in Managers |->
              IF n = m THEN saidDead[m] \/ waiter[m] = "respawn" ELSE saidDead[n]]
        BY <3>1, <3>2, Zenon
      <3>5. \A n \in Managers :
              (IF n = m THEN saidDead[m] \/ waiter[m] = "respawn" ELSE saidDead[n])
                \in BOOLEAN
        BY <3>3, Zenon
      <3> HIDE DEF m
      <3>6. QED
        BY <3>4, <3>5, Zenon
    <2>4. crashCount' \in [Managers -> Nat]
      <3>1. crashCount' = [crashCount EXCEPT ![m] =
              IF inWindow THEN crashCount[m] + 1 ELSE 1]
        BY <1>10, Zenon DEF HandleExit
      <3>2. \/ crashCount' = [crashCount EXCEPT ![m] = crashCount[m] + 1]
            \/ crashCount' = [crashCount EXCEPT ![m] = 1]
        BY <3>1, Zenon
      <3>3. QED
        BY <3>2 DEF TypeOK
    <2>5. children' \in [Projects -> 0..MaxManagers]
      <3>1. \/ children' = [children EXCEPT ![p] = 0]
            \/ children' = [children EXCEPT ![p] = children[p]]
        <4>1. CASE closingChild[m] = w /\ closing[m] = "delete"
          BY <1>10, <4>1, Zenon DEF HandleExit, None
        <4>2. CASE ~(closingChild[m] = w /\ closing[m] = "delete")
          BY <1>10, <4>2, Zenon DEF HandleExit
        <4>3. QED
          BY <4>1, <4>2
      <3>2. QED
        BY <3>1 DEF TypeOK
    <2>6. exitTimers' \in [Projects -> Nat]
      <3>1. \/ exitTimers' = [exitTimers EXCEPT ![p] = exitTimers[p]]
            \/ exitTimers' = [exitTimers EXCEPT ![p] = exitTimers[p] + 1]
        <4>1. CASE AlreadyRespawning(m)
          BY <1>10, <4>1, Zenon DEF HandleExit
        <4>2. CASE ~AlreadyRespawning(m)
          BY <1>10, <4>2, Zenon DEF HandleExit
        <4>3. QED
          BY <4>1, <4>2
      <3>2. QED
        BY <3>1 DEF TypeOK
    <2>7. /\ closing' \in [Managers -> {"no", "delete", "stop"}]
          /\ closingChild' \in [Managers -> 0..MaxWorkers]
      <3>1. CASE closingChild[m] = w
        <4>1. /\ closing' = [closing EXCEPT ![m] = "no"]
              /\ closingChild' = [closingChild EXCEPT ![m] = 0]
          BY <1>10, <3>1, Zenon DEF HandleExit, None
        <4>2. closing' \in [Managers -> {"no", "delete", "stop"}]
          BY <4>1 DEF TypeOK
        <4>3. 0 \in 0..MaxWorkers
          OBVIOUS
        <4>4. closingChild' \in [Managers -> 0..MaxWorkers]
          BY <4>1, <4>3 DEF TypeOK
        <4>5. QED
          BY <4>2, <4>4
      <3>2. CASE closingChild[m] # w
        <4>1. /\ closing' = closing
              /\ closingChild' = closingChild
          BY <1>10, <3>2, Zenon DEF HandleExit
        <4>2. QED
          BY <4>1 DEF TypeOK
      <3>3. QED
        BY <3>1, <3>2
    <2>8. /\ UNCHANGED <<initPromise, nManagers, project, backoffs, nWorkers,
                         owner, readyMsg>>
          /\ UNCHANGED <<router, restarts>>
      BY <1>10, Zenon DEF HandleExit, routerVars
    <2>9. QED
      BY <2>2, <2>3, <2>4, <2>5, <2>6, <2>7, <2>8 DEF TypeOK
  <1>11. ASSUME NEW w \in Workers,
                WorkerReady(w) \/ WorkerInitFails(w) \/ WorkerExit(w)
         PROVE TypeOK'
    BY <1>11
    DEF WorkerReady, WorkerInitFails, WorkerExit, TypeOK, Serving, ProcStates,
        routerVars, mapVars, managerVars
  <1>12. CASE Sigterm
    BY <1>12
    DEF Sigterm, TypeOK, RouterStates, mapVars, workerVars, Managers
  <1>13. CASE RouterDown
    BY <1>13
    DEF RouterDown, TypeOK, RouterStates, ManagerStates, Waiters, ProcStates, None
  <1>14. CASE RouterStart
    BY <1>14
    DEF RouterStart, TypeOK, RouterStates, ProcStates, mapVars, managerVars
  <1>15. CASE UNCHANGED vars
    BY <1>15
    DEF TypeOK, vars, routerVars, mapVars, managerVars, workerVars
  <1>16. QED
    BY <1>1, <1>2, <1>3, <1>4, <1>5, <1>6, <1>7, <1>8, <1>9, <1>10, <1>11,
       <1>12, <1>13, <1>14, <1>15
    DEF Next, ProjectStep, ManagerStep, WorkerStep

\* The variables of the supervision have their types in every reachable
\* state, for every set of projects and all bounds.
THEOREM TypeCorrect == Spec => []TypeOK
  <1>1. Init => TypeOK
    BY InitTypeOK
  <1>2. TypeOK /\ [Next]_vars => TypeOK'
    BY NextTypeOK
  <1>3. QED
    BY <1>1, <1>2, PTL DEF Spec

-----------------------------------------------------------------------------
(* No worker is lost.  NoLostWorker is not inductive: a manager whose       *)
(* child's exit event is outstanding must not fork, or that event would     *)
(* make it forget the new worker.  SlotInv says so.                         *)

\* The Router's records name managers that were created, and `children` files
\* each manager under its own project.
RecordsOK ==
  /\ \A w \in Workers : owner[w] <= nManagers
  /\ \A m \in Managers : backoffs[m] > 0 => m <= nManagers
  /\ \A p \in Projects :
       children[p] <= nManagers /\ (children[p] # None => project[children[p]] = p)

slotVars == <<router, nWorkers, state, child, owner, proc>>

\* What leaves processes and managers' slots alone keeps SlotInv.
LEMMA FrameSlotInv == SlotInv /\ UNCHANGED slotVars => SlotInv'
  BY DEF slotVars, SlotInv, NoLostWorker, Serving, Live

\* kill() leaves the slot empty and a process whose exit event is to come.
LEMMA KillSlotInv ==
  ASSUME TypeOK, SlotInv, NEW m \in Managers, Kill(m),
         UNCHANGED <<router, nWorkers, owner>>
  PROVE  SlotInv'
  <1>1. CASE child[m] = None
    BY <1>1, FrameSlotInv DEF Kill, slotVars
  <1>2. CASE child[m] # None
    <2> DEFINE c == child[m]
    <2>1. c \in Workers /\ owner[c] = m /\ proc[c] \in LiveStates \union {"exited"}
      BY <1>2 DEF SlotInv, TypeOK, Workers, None
    <2>2. /\ proc' = [proc EXCEPT ![c] = "exited"]
          /\ child' = [child EXCEPT ![m] = None]
          /\ state' = [state EXCEPT ![m] = "dead"]
      BY <1>2, <2>1 DEF Kill, LiveStates
    <2>3. QED
      BY <2>1, <2>2
      DEF SlotInv, NoLostWorker, Serving, Live, LiveStates, TypeOK, None,
          Managers, Workers
  <1>3. QED
    BY <1>1, <1>2

\* A manager with an empty slot and no exit event outstanding may fork.
LEMMA ForkSlotInv ==
  ASSUME TypeOK, SlotInv, NEW m \in Managers, NEW who, Fork(m, who),
         child[m] = None, Reaped(m), Serving,
         router' = router
  PROVE  SlotInv'
  <1> DEFINE w == nWorkers + 1
  <1>1. /\ w \in Workers
        /\ proc[w] = "none"
        /\ nWorkers' = w
        /\ owner' = [owner EXCEPT ![w] = m]
        /\ proc' = [proc EXCEPT ![w] = "init"]
        /\ state' = [state EXCEPT ![m] = "initializing"]
        /\ child' = [child EXCEPT ![m] = w]
    BY BoundsAssumption DEF Fork, SlotInv, TypeOK, Workers
  <1>2. \A n \in Managers : child[n] # w
    BY <1>1 DEF SlotInv, LiveStates, None, Workers
  <1>3. \A v \in Workers : Live(v) \/ proc[v] = "exited" => owner[v] # m
    BY DEF SlotInv, NoLostWorker, Reaped, Workers, None
  <1>4. QED
    BY <1>1, <1>2, <1>3
    DEF SlotInv, NoLostWorker, Serving, Live, LiveStates, TypeOK, None,
        Managers, Workers

\* Every callback of the Router and every step of a worker keeps SlotInv.
LEMMA NextSlotInv == TypeOK /\ RecordsOK /\ SlotInv /\ [Next]_vars => SlotInv'
  <1> SUFFICES ASSUME TypeOK, RecordsOK, SlotInv, [Next]_vars PROVE SlotInv'
    OBVIOUS
  <1>1. ASSUME NEW p \in Projects, CreateChild(p) PROVE SlotInv'
    <2> DEFINE m == nManagers + 1
    <2>1. /\ m \in Managers
          /\ nManagers' = m
          /\ router' = router
          /\ Serving
          /\ Fork(m, "create") \/ BundleMissing(m)
      <3>1. m \in Managers
        BY <1>1, BoundsAssumption DEF CreateChild, TypeOK, Managers
      <3>2. QED
        BY <1>1, <3>1 DEF CreateChild, routerVars
    <2>2. \A w \in Workers : owner[w] # m
      BY DEF RecordsOK, TypeOK
    <2>3. child[m] = None
      BY <2>1, <2>2 DEF SlotInv, TypeOK, Workers, None
    <2>4. CASE Fork(m, "create")
      <3>1. Reaped(m)
        BY <2>2 DEF Reaped
      <3>2. QED
        BY <2>1, <2>3, <2>4, <3>1, ForkSlotInv
    <2>5. CASE BundleMissing(m)
      <3>1. /\ state' = [state EXCEPT ![m] = "spawning"]
            /\ UNCHANGED <<child, nWorkers, owner, proc>>
        BY <2>5 DEF BundleMissing, workerVars
      <3>2. QED
        BY <2>1, <2>3, <3>1
        DEF SlotInv, NoLostWorker, Serving, Live, TypeOK
    <2>6. QED
      BY <2>1, <2>4, <2>5
  <1>2. ASSUME NEW p \in Projects, RespawnTimer(p) PROVE SlotInv'
    BY <1>2, FrameSlotInv DEF RespawnTimer, slotVars, routerVars, workerVars
  <1>3. ASSUME NEW p \in Projects, DeleteContext(p) PROVE SlotInv'
    BY <1>3, FrameSlotInv DEF DeleteContext, slotVars, routerVars, workerVars
  <1>4. ASSUME NEW m \in Managers,
               InitTimeout(m) \/ WatchdogKill(m) \/ ShutdownTimeout(m)
        PROVE SlotInv'
    <2>1. Kill(m) /\ UNCHANGED <<router, nWorkers, owner>>
      BY <1>4 DEF InitTimeout, WatchdogKill, ShutdownTimeout, routerVars
    <2>2. QED
      BY <2>1, KillSlotInv
  <1>5. ASSUME NEW m \in Managers, BackoffElapsed(m) PROVE SlotInv'
    <2>1. Serving /\ Reaped(m) /\ UNCHANGED <<router, nManagers>>
      BY <1>5 DEF BackoffElapsed, routerVars
    <2>2. CASE state[m] \in {"ready", "initializing"}
      BY <1>5, <2>1, <2>2, FrameSlotInv
      DEF BackoffElapsed, slotVars, workerVars
    <2>3. CASE state[m] \notin {"ready", "initializing"}
      <3>1. child[m] = None
        BY <2>3 DEF SlotInv, TypeOK, ManagerStates
      <3>2. CASE Fork(m, "respawn")
        BY <2>1, <3>1, <3>2, ForkSlotInv
      <3>3. CASE BundleMissing(m)
        <4>1. /\ state' = [state EXCEPT ![m] = "spawning"]
              /\ UNCHANGED <<child, nWorkers, owner, proc>>
          BY <3>3 DEF BundleMissing, workerVars
        <4>2. QED
          BY <2>1, <3>1, <4>1
          DEF SlotInv, NoLostWorker, Serving, Live, TypeOK
      <3>4. QED
        BY <1>5, <2>3, <3>2, <3>3 DEF BackoffElapsed
    <2>4. QED
      BY <2>2, <2>3
  <1>6. ASSUME NEW m \in Managers, DeadCooldown(m) PROVE SlotInv'
    BY <1>6, FrameSlotInv DEF DeadCooldown, slotVars, routerVars, workerVars
  <1>7. ASSUME NEW w \in Workers, HandleReady(w) PROVE SlotInv'
    <2>1. /\ state' = [state EXCEPT ![owner[w]] = "ready"]
          /\ UNCHANGED <<router, nWorkers, child, owner, proc>>
      BY <1>7 DEF HandleReady, routerVars
    <2>2. QED
      BY <2>1 DEF SlotInv, NoLostWorker, Serving, Live, TypeOK
  <1>8. ASSUME NEW w \in Workers, NEW inWindow \in BOOLEAN,
               HandleExit(w, inWindow)
        PROVE SlotInv'
    <2> DEFINE m == owner[w]
    <2>1. /\ Serving
          /\ proc[w] = "exited"
          /\ state' = [state EXCEPT ![m] = "dead"]
          /\ child' = [child EXCEPT ![m] = None]
          /\ proc' = [proc EXCEPT ![w] = "gone"]
          /\ UNCHANGED <<router, restarts, nWorkers, owner>>
      BY <1>8, Zenon DEF HandleExit, LoseChild, routerVars
    <2>2. m \in Managers /\ child[m] \in {None, w}
      BY <2>1 DEF SlotInv, TypeOK, Managers, None
    <2>3. QED
      BY <2>1, <2>2
      DEF SlotInv, NoLostWorker, Serving, Live, LiveStates, TypeOK, None, Workers
  <1>9. ASSUME NEW w \in Workers, WorkerReady(w) \/ WorkerInitFails(w)
        PROVE SlotInv'
    <2>1. /\ proc[w] = "init"
          /\ \/ proc' = [proc EXCEPT ![w] = "up"]
             \/ proc' = [proc EXCEPT ![w] = "failed"]
          /\ UNCHANGED <<router, nWorkers, state, child, owner>>
      BY <1>9 DEF WorkerReady, WorkerInitFails, routerVars, managerVars
    <2>2. CASE proc' = [proc EXCEPT ![w] = "up"]
      BY <2>1, <2>2
      DEF SlotInv, NoLostWorker, Serving, Live, LiveStates, TypeOK, Workers
    <2>3. CASE proc' = [proc EXCEPT ![w] = "failed"]
      BY <2>1, <2>3
      DEF SlotInv, NoLostWorker, Serving, Live, LiveStates, TypeOK, Workers
    <2>4. QED
      BY <2>1, <2>2, <2>3
  <1>10. ASSUME NEW w \in Workers, WorkerExit(w) PROVE SlotInv'
    <2>1. UNCHANGED <<router, nWorkers, state, child, owner>> /\ Live(w)
      BY <1>10 DEF WorkerExit, routerVars, managerVars
    <2>2. CASE Serving
      <3>1. proc' = [proc EXCEPT ![w] = "exited"]
        BY <1>10, <2>2 DEF WorkerExit
      <3>2. QED
        BY <2>1, <2>2, <3>1
        DEF SlotInv, NoLostWorker, Serving, Live, LiveStates, TypeOK
    <2>3. CASE ~Serving
      <3>1. proc' = [proc EXCEPT ![w] = "gone"]
        BY <1>10, <2>3 DEF WorkerExit
      <3>2. QED
        BY <2>1, <2>3, <3>1
        DEF SlotInv, NoLostWorker, Serving, Live, LiveStates, TypeOK
    <2>4. QED
      BY <2>2, <2>3
  <1>11. CASE Sigterm
    BY <1>11
    DEF Sigterm, SlotInv, NoLostWorker, Serving, Live, workerVars
  <1>12. CASE RouterDown
    BY <1>12
    DEF RouterDown, SlotInv, NoLostWorker, Serving, Live, LiveStates, TypeOK, None
  <1>13. CASE RouterStart
    BY <1>13
    DEF RouterStart, SlotInv, NoLostWorker, Serving, Live, LiveStates, TypeOK,
        managerVars, None, Workers
  <1>14. CASE UNCHANGED vars
    BY <1>14, FrameSlotInv
    DEF vars, slotVars, routerVars, managerVars, workerVars
  <1>15. QED
    BY <1>1, <1>2, <1>3, <1>4, <1>5, <1>6, <1>7, <1>8, <1>9, <1>10, <1>11,
       <1>12, <1>13, <1>14
    DEF Next, ProjectStep, ManagerStep, WorkerStep

\* The Router's records stay current in every step.
LEMMA NextRecordsOK == TypeOK /\ RecordsOK /\ [Next]_vars => RecordsOK'
  <1> SUFFICES ASSUME TypeOK, RecordsOK, [Next]_vars PROVE RecordsOK'
    OBVIOUS
  <1>1. ASSUME NEW p \in Projects, CreateChild(p) PROVE RecordsOK'
    <2> DEFINE m == nManagers + 1
    <2>1. /\ nManagers' = m
          /\ project' = [project EXCEPT ![m] = p]
          /\ UNCHANGED <<children, backoffs>>
      BY <1>1 DEF CreateChild
    <2>2. owner' = owner \/ owner' = [owner EXCEPT ![nWorkers + 1] = m]
      BY <1>1 DEF CreateChild, Fork, BundleMissing, workerVars
    <2>3. \A w \in Workers : owner'[w] <= nManagers'
      BY <2>1, <2>2 DEF RecordsOK, TypeOK
    <2>4. \A n \in Managers : backoffs'[n] > 0 => n <= nManagers'
      BY <2>1 DEF RecordsOK, TypeOK, Managers
    <2>5. ASSUME NEW q \in Projects
          PROVE  /\ children'[q] <= nManagers'
                 /\ children'[q] # None => project'[children'[q]] = q
      <3>1. children'[q] = children[q] /\ children[q] # m
        BY <2>1 DEF RecordsOK, TypeOK
      <3>2. children[q] <= nManagers'
        BY <2>1 DEF RecordsOK, TypeOK
      <3>3. children[q] # None => project'[children[q]] = project[children[q]]
        BY <2>1, <3>1 DEF TypeOK, Managers, None
      <3>4. QED
        BY <3>1, <3>2, <3>3 DEF RecordsOK
    <2>6. QED
      BY <2>3, <2>4, <2>5 DEF RecordsOK
  <1>2. ASSUME NEW p \in Projects, RespawnTimer(p) PROVE RecordsOK'
    <2>1. UNCHANGED <<nManagers, project, children, owner>>
      BY <1>2 DEF RespawnTimer, workerVars
    <2>2. \/ backoffs' = backoffs
          \/ backoffs' = [backoffs EXCEPT ![children[p]] = backoffs[children[p]] + 1]
      BY <1>2 DEF RespawnTimer
    <2>3. QED
      BY <2>1, <2>2 DEF RecordsOK, TypeOK
  <1>3. ASSUME NEW p \in Projects, DeleteContext(p) PROVE RecordsOK'
    <2>1. UNCHANGED <<nManagers, project, backoffs, owner>>
      BY <1>3 DEF DeleteContext, workerVars
    <2>2. children' = children \/ children' = [children EXCEPT ![p] = None]
      BY <1>3 DEF DeleteContext
    <2>3. QED
      BY <2>1, <2>2 DEF RecordsOK, TypeOK, None
  <1>4. ASSUME NEW m \in Managers,
               InitTimeout(m) \/ WatchdogKill(m) \/ DeadCooldown(m)
        PROVE RecordsOK'
    BY <1>4
    DEF InitTimeout, WatchdogKill, DeadCooldown, RecordsOK, mapVars, workerVars
  <1>5. ASSUME NEW m \in Managers, ShutdownTimeout(m) PROVE RecordsOK'
    <2>1. UNCHANGED <<nManagers, project, backoffs, owner>>
      BY <1>5 DEF ShutdownTimeout
    <2>2. \/ children' = children
          \/ children' = [children EXCEPT ![project[m]] = None]
      BY <1>5 DEF ShutdownTimeout
    <2>3. QED
      BY <2>1, <2>2 DEF RecordsOK, TypeOK, None
  <1>6. ASSUME NEW m \in Managers, BackoffElapsed(m) PROVE RecordsOK'
    <2>1. /\ UNCHANGED <<nManagers, project, children>>
          /\ backoffs[m] > 0
          /\ backoffs' = [backoffs EXCEPT ![m] = backoffs[m] - 1]
      BY <1>6 DEF BackoffElapsed, mapVars
    <2>2. owner' = owner \/ owner' = [owner EXCEPT ![nWorkers + 1] = m]
      BY <1>6 DEF BackoffElapsed, Fork, BundleMissing, workerVars
    <2>3. QED
      BY <2>1, <2>2 DEF RecordsOK, TypeOK
  <1>7. ASSUME NEW w \in Workers, HandleReady(w) PROVE RecordsOK'
    <2>1. UNCHANGED <<nManagers, project, backoffs, owner>>
      BY <1>7 DEF HandleReady
    <2>2. \/ children' = children
          \/ children' = [children EXCEPT ![project[owner[w]]] = owner[w]]
      BY <1>7 DEF HandleReady
    <2>3. QED
      BY <2>1, <2>2 DEF RecordsOK, TypeOK
  <1>8. ASSUME NEW w \in Workers, NEW inWindow \in BOOLEAN,
               HandleExit(w, inWindow)
        PROVE RecordsOK'
    <2> DEFINE p == project[owner[w]]
    <2>1. UNCHANGED <<nManagers, project, backoffs, owner>>
      BY <1>8, Zenon DEF HandleExit
    <2>2. \/ children' = [children EXCEPT ![p] = None]
          \/ children' = [children EXCEPT ![p] = children[p]]
      BY <1>8, Zenon DEF HandleExit
    <2>3. QED
      BY <2>1, <2>2 DEF RecordsOK, TypeOK, None
  <1>9. ASSUME NEW w \in Workers,
               WorkerReady(w) \/ WorkerInitFails(w) \/ WorkerExit(w)
        PROVE RecordsOK'
    BY <1>9
    DEF WorkerReady, WorkerInitFails, WorkerExit, RecordsOK, mapVars, managerVars
  <1>10. CASE Sigterm \/ RouterStart \/ UNCHANGED vars
    BY <1>10
    DEF Sigterm, RouterStart, vars, RecordsOK, mapVars, managerVars, workerVars
  <1>11. CASE RouterDown
    BY <1>11 DEF RouterDown, RecordsOK, TypeOK, None
  <1>12. QED
    BY <1>1, <1>2, <1>3, <1>4, <1>5, <1>6, <1>7, <1>8, <1>9, <1>10, <1>11
    DEF Next, ProjectStep, ManagerStep, WorkerStep

\* The invariants hold initially.
LEMMA InitSlots == Init => RecordsOK /\ SlotInv
  BY BoundsAssumption
  DEF Init, RecordsOK, SlotInv, NoLostWorker, Serving, Live, LiveStates, None,
      Managers, Workers

\* While the Router serves, every live worker is the current child of the
\* manager that forked it, whatever crashes, timeouts, kills, deletions and
\* restarts came before.
THEOREM NoWorkerIsLost == Spec => []NoLostWorker
  <1> DEFINE Inv == TypeOK /\ RecordsOK /\ SlotInv
  <1>1. Init => Inv
    BY InitTypeOK, InitSlots
  <1>2. Inv /\ [Next]_vars => Inv'
    BY NextTypeOK, NextRecordsOK, NextSlotInv
  <1>3. Inv => NoLostWorker
    BY DEF SlotInv
  <1>4. QED
    BY <1>1, <1>2, <1>3, PTL DEF Spec

-----------------------------------------------------------------------------
(* Recovery: creation, readiness and respawns                              *)


\* A 'ready' message in a pipe comes from a worker that was up, and is read
\* before that worker's exit event; a Router that ended reads none.
MessagesOK ==
  \A w \in Workers : readyMsg[w] => Serving /\ proc[w] \in {"up", "exited"}

\* A worker whose message or exit event is to come has an owner.
LEMMA OwnerKnown ==
  ASSUME TypeOK, SlotInv, MessagesOK, NEW w \in Workers,
         readyMsg[w] \/ (Serving /\ proc[w] = "exited")
  PROVE  owner[w] \in Managers /\ child[owner[w]] \in {None, w}
  BY DEF MessagesOK, SlotInv, NoLostWorker, Live, LiveStates, TypeOK, Managers,
         None

\* kill() makes a running child an exited process and nothing else.
LEMMA KillProc ==
  ASSUME TypeOK, SlotInv, NEW m \in Managers, Kill(m)
  PROVE  \/ child[m] = None /\ UNCHANGED <<proc, child, state>>
         \/ /\ child[m] \in Workers
            /\ owner[child[m]] = m
            /\ proc[child[m]] \in LiveStates \union {"exited"}
            /\ proc' = [proc EXCEPT ![child[m]] = "exited"]
            /\ child' = [child EXCEPT ![m] = None]
            /\ state' = [state EXCEPT ![m] = "dead"]
  <1>1. CASE child[m] = None
    BY <1>1 DEF Kill
  <1>2. CASE child[m] # None
    <2>1. /\ child[m] \in Workers
          /\ owner[child[m]] = m
          /\ proc[child[m]] \in LiveStates \union {"exited"}
      BY <1>2 DEF SlotInv, TypeOK, Workers, None
    <2>2. QED
      BY <1>2, <2>1 DEF Kill, LiveStates
  <1>3. QED
    BY <1>1, <1>2

\* fork() takes a process number that was never used.
LEMMA ForkFresh ==
  ASSUME TypeOK, SlotInv, NEW m \in Managers, NEW who, Fork(m, who)
  PROVE  /\ nWorkers + 1 \in Workers
         /\ proc[nWorkers + 1] = "none"
         /\ \A n \in Managers : child[n] # nWorkers + 1
  <1>1. nWorkers + 1 \in Workers /\ proc[nWorkers + 1] = "none"
    BY BoundsAssumption DEF Fork, SlotInv, TypeOK, Workers
  <1>2. QED
    BY <1>1 DEF SlotInv, LiveStates, None, Workers

\* Every step keeps MessagesOK.
LEMMA NextMessagesOK ==
  TypeOK /\ SlotInv /\ MessagesOK /\ [Next]_vars => MessagesOK'
  <1> SUFFICES ASSUME TypeOK, SlotInv, MessagesOK, [Next]_vars
               PROVE  MessagesOK'
    OBVIOUS
  <1>1. ASSUME NEW m \in Managers, NEW who, Fork(m, who), UNCHANGED router
        PROVE MessagesOK'
    BY <1>1, ForkFresh DEF Fork, MessagesOK, TypeOK, Serving
  <1>2. ASSUME NEW m \in Managers, Kill(m), UNCHANGED <<router, readyMsg>>
        PROVE MessagesOK'
    BY <1>2, KillProc DEF MessagesOK, TypeOK, Serving
  <1>3. ASSUME UNCHANGED <<proc, readyMsg, router>> PROVE MessagesOK'
    BY <1>3 DEF MessagesOK, Serving
  <1>4. ASSUME NEW p \in Projects, CreateChild(p) PROVE MessagesOK'
    <2>1. nManagers + 1 \in Managers /\ UNCHANGED router
      BY <1>4, BoundsAssumption DEF CreateChild, TypeOK, Managers, routerVars
    <2>2. Fork(nManagers + 1, "create") \/ UNCHANGED <<proc, readyMsg, router>>
      BY <1>4, <2>1 DEF CreateChild, BundleMissing, workerVars
    <2>3. QED
      BY <1>1, <1>3, <2>1, <2>2
  <1>5. ASSUME NEW p \in Projects, RespawnTimer(p) \/ DeleteContext(p)
        PROVE MessagesOK'
    BY <1>3, <1>5 DEF RespawnTimer, DeleteContext, routerVars, workerVars
  <1>6. ASSUME NEW m \in Managers,
               InitTimeout(m) \/ WatchdogKill(m) \/ ShutdownTimeout(m)
        PROVE MessagesOK'
    BY <1>2, <1>6 DEF InitTimeout, WatchdogKill, ShutdownTimeout, routerVars
  <1>7. ASSUME NEW m \in Managers, BackoffElapsed(m) PROVE MessagesOK'
    <2>1. Fork(m, "respawn") \/ UNCHANGED <<proc, readyMsg>>
      BY <1>7 DEF BackoffElapsed, BundleMissing, workerVars
    <2>2. QED
      BY <1>1, <1>3, <1>7, <2>1 DEF BackoffElapsed, routerVars
  <1>8. ASSUME NEW m \in Managers, DeadCooldown(m) PROVE MessagesOK'
    BY <1>3, <1>8 DEF DeadCooldown, routerVars, workerVars
  <1>9. ASSUME NEW w \in Workers, HandleReady(w) PROVE MessagesOK'
    <2>1. /\ readyMsg' = [readyMsg EXCEPT ![w] = FALSE]
          /\ UNCHANGED <<router, proc>>
      BY <1>9, Zenon DEF HandleReady, routerVars
    <2>2. QED
      BY <2>1 DEF MessagesOK, TypeOK, Serving
  <1>10. ASSUME NEW w \in Workers, NEW inWindow \in BOOLEAN,
                HandleExit(w, inWindow)
         PROVE MessagesOK'
    <2>1. /\ ~readyMsg[w]
          /\ proc' = [proc EXCEPT ![w] = "gone"]
          /\ UNCHANGED <<router, restarts, readyMsg>>
      BY <1>10, Zenon DEF HandleExit, routerVars
    <2>2. QED
      BY <2>1 DEF MessagesOK, TypeOK, Serving
  <1>11. ASSUME NEW w \in Workers,
                WorkerReady(w) \/ WorkerInitFails(w) \/ WorkerExit(w)
         PROVE MessagesOK'
    BY <1>11
    DEF WorkerReady, WorkerInitFails, WorkerExit, MessagesOK, TypeOK, Serving,
        Live, LiveStates, routerVars
  <1>12. CASE Sigterm
    BY <1>12 DEF Sigterm, MessagesOK, Serving, workerVars
  <1>13. CASE RouterDown
    BY <1>13 DEF RouterDown, MessagesOK
  <1>14. CASE RouterStart
    BY <1>14 DEF RouterStart, MessagesOK, Serving
  <1>15. CASE UNCHANGED vars
    BY <1>3, <1>15 DEF vars, routerVars, workerVars
  <1>16. QED
    BY <1>4, <1>5, <1>6, <1>7, <1>8, <1>9, <1>10, <1>11, <1>12, <1>13, <1>14,
       <1>15
    DEF Next, ProjectStep, ManagerStep, WorkerStep

-----------------------------------------------------------------------------
(* Creations are coalesced                                                 *)

\* Every step keeps CoalescedCreation: a pending creation is replaced in
\* childInitPromises by nobody, because getOrCreateChild creates only when
\* there is none and only the creation's own 'ready' removes it.
LEMMA NextCoalesced ==
  TypeOK /\ SlotInv /\ MessagesOK /\ CoalescedCreation /\ [Next]_vars
    => CoalescedCreation'
  <1> SUFFICES ASSUME TypeOK, SlotInv, MessagesOK, CoalescedCreation,
                      [Next]_vars
               PROVE  CoalescedCreation'
    OBVIOUS
  <1>1. ASSUME UNCHANGED <<project, initPromise>>,
               \A n \in Managers : waiter'[n] = "create" => waiter[n] = "create"
        PROVE CoalescedCreation'
    BY <1>1 DEF CoalescedCreation
  <1>2. ASSUME NEW p \in Projects, CreateChild(p) PROVE CoalescedCreation'
    <2> DEFINE m == nManagers + 1
    <2>1. /\ m \in Managers
          /\ initPromise[p] = None
          /\ project' = [project EXCEPT ![m] = p]
          /\ initPromise' = [initPromise EXCEPT ![p] = m]
          /\ waiter' = waiter \/ waiter' = [waiter EXCEPT ![m] = "create"]
      BY <1>2, BoundsAssumption
      DEF CreateChild, NeedsManager, Fork, BundleMissing, TypeOK, Managers
    <2>2. ASSUME NEW n \in Managers, waiter'[n] = "create"
          PROVE initPromise'[project'[n]] = n
      <3>1. CASE n = m
        BY <2>1, <3>1 DEF TypeOK
      <3>2. CASE n # m
        <4>1. waiter[n] = "create" /\ project'[n] = project[n]
          BY <2>1, <2>2, <3>2 DEF TypeOK
        <4>2. initPromise[project[n]] = n /\ project[n] # p
          BY <2>1, <4>1 DEF CoalescedCreation, Managers, None
        <4>3. QED
          BY <2>1, <4>1, <4>2 DEF TypeOK
      <3>3. QED
        BY <3>1, <3>2
    <2>3. QED
      BY <2>2 DEF CoalescedCreation
  <1>3. ASSUME NEW p \in Projects, RespawnTimer(p) \/ DeleteContext(p)
        PROVE CoalescedCreation'
    BY <1>3, <1>1 DEF RespawnTimer, DeleteContext
  <1>4. ASSUME NEW m \in Managers, InitTimeout(m) PROVE CoalescedCreation'
    <2>1. /\ UNCHANGED <<project, initPromise>>
          /\ waiter' = [waiter EXCEPT ![m] = "none"]
      BY <1>4 DEF InitTimeout, mapVars
    <2>2. QED
      BY <1>1, <2>1 DEF TypeOK
  <1>5. ASSUME NEW m \in Managers,
               WatchdogKill(m) \/ ShutdownTimeout(m) \/ DeadCooldown(m)
        PROVE CoalescedCreation'
    BY <1>1, <1>5 DEF WatchdogKill, ShutdownTimeout, DeadCooldown, mapVars
  <1>6. ASSUME NEW m \in Managers, BackoffElapsed(m) PROVE CoalescedCreation'
    <2>1. /\ UNCHANGED <<project, initPromise>>
          /\ waiter' = waiter \/ waiter' = [waiter EXCEPT ![m] = "respawn"]
      BY <1>6 DEF BackoffElapsed, Fork, BundleMissing, mapVars
    <2>2. QED
      BY <1>1, <2>1 DEF TypeOK
  <1>7. ASSUME NEW w \in Workers, HandleReady(w) PROVE CoalescedCreation'
    <2> DEFINE m == owner[w]
    <2>1. m \in Managers
      BY <1>7, OwnerKnown DEF HandleReady
    <2>2. /\ project' = project
          /\ waiter' = [waiter EXCEPT ![m] = "none"]
          /\ \/ initPromise' = initPromise
             \/ /\ waiter[m] = "create"
                /\ initPromise' = [initPromise EXCEPT ![project[m]] = None]
      BY <1>7, Zenon DEF HandleReady
    <2>3. ASSUME NEW n \in Managers, waiter'[n] = "create"
          PROVE initPromise'[project'[n]] = n
      <3>1. n # m /\ waiter[n] = "create" /\ initPromise[project[n]] = n
        BY <2>1, <2>2, <2>3 DEF TypeOK, CoalescedCreation
      <3>2. waiter[m] = "create" => project[n] # project[m]
        BY <2>1, <3>1 DEF CoalescedCreation
      <3>3. QED
        BY <2>1, <2>2, <3>1, <3>2 DEF TypeOK
    <2>4. QED
      BY <2>3 DEF CoalescedCreation
  <1>8. ASSUME NEW w \in Workers, NEW inWindow \in BOOLEAN,
               HandleExit(w, inWindow)
        PROVE CoalescedCreation'
    <2>1. /\ UNCHANGED <<project, initPromise>>
          /\ waiter' = [waiter EXCEPT ![owner[w]] = "none"]
      BY <1>8, Zenon DEF HandleExit
    <2>2. QED
      BY <1>1, <2>1 DEF TypeOK
  <1>9. ASSUME NEW w \in Workers,
               WorkerReady(w) \/ WorkerInitFails(w) \/ WorkerExit(w)
        PROVE CoalescedCreation'
    BY <1>1, <1>9
    DEF WorkerReady, WorkerInitFails, WorkerExit, mapVars, managerVars
  <1>10. CASE Sigterm \/ RouterStart \/ UNCHANGED vars
    BY <1>1, <1>10
    DEF Sigterm, RouterStart, vars, mapVars, managerVars
  <1>11. CASE RouterDown
    BY <1>11 DEF RouterDown, CoalescedCreation
  <1>12. QED
    BY <1>2, <1>3, <1>4, <1>5, <1>6, <1>7, <1>8, <1>9, <1>10, <1>11
    DEF Next, ProjectStep, ManagerStep, WorkerStep

-----------------------------------------------------------------------------
(* A ready manager has a worker behind it                                  *)

\* Every step keeps ReadyIsBacked.  The 'ready' of a worker that was killed
\* meanwhile is the difficult case: its exit event is still to come.
LEMMA NextReadyBacked ==
  TypeOK /\ SlotInv /\ MessagesOK /\ ReadyIsBacked /\ [Next]_vars
    => ReadyIsBacked'
  <1> SUFFICES ASSUME TypeOK, SlotInv, MessagesOK, ReadyIsBacked, [Next]_vars
               PROVE  ReadyIsBacked'
    OBVIOUS
  <1>1. ASSUME UNCHANGED <<child, owner, proc>>,
               \A n \in Managers : state'[n] = "ready" => state[n] = "ready"
        PROVE ReadyIsBacked'
    BY <1>1 DEF ReadyIsBacked, Reaped
  <1>2. ASSUME NEW m \in Managers, NEW who, Fork(m, who)
        PROVE ReadyIsBacked'
    <2> DEFINE w == nWorkers + 1
    <2>1. /\ w \in Workers
          /\ proc[w] = "none"
          /\ \A n \in Managers : child[n] # w
      BY <1>2, ForkFresh
    <2>2. /\ owner' = [owner EXCEPT ![w] = m]
          /\ proc' = [proc EXCEPT ![w] = "init"]
          /\ state' = [state EXCEPT ![m] = "initializing"]
          /\ child' = [child EXCEPT ![m] = w]
      BY <1>2 DEF Fork
    <2>3. ASSUME NEW n \in Managers, state'[n] = "ready"
          PROVE IF child'[n] = None THEN ~Reaped(n)'
                ELSE proc'[child'[n]] \in {"up", "exited"}
      <3>1. n # m /\ state[n] = "ready" /\ child'[n] = child[n]
        BY <2>2, <2>3 DEF TypeOK
      <3>2. ~Reaped(n) => ~Reaped(n)'
        BY <2>1, <2>2, <3>1 DEF Reaped, TypeOK
      <3>3. child[n] # None => proc'[child[n]] = proc[child[n]]
        BY <2>1, <2>2 DEF TypeOK, Workers, None
      <3>4. QED
        BY <3>1, <3>2, <3>3 DEF ReadyIsBacked
    <2>4. QED
      BY <2>3 DEF ReadyIsBacked
  <1>3. ASSUME NEW m \in Managers, Kill(m), owner' = owner
        PROVE ReadyIsBacked'
    <2>1. CASE child[m] = None /\ UNCHANGED <<proc, child, state>>
      BY <1>1, <1>3, <2>1
    <2>2. CASE /\ child[m] \in Workers
               /\ owner[child[m]] = m
               /\ proc' = [proc EXCEPT ![child[m]] = "exited"]
               /\ child' = [child EXCEPT ![m] = None]
               /\ state' = [state EXCEPT ![m] = "dead"]
      BY <1>3, <2>2 DEF ReadyIsBacked, Reaped, TypeOK, Managers, Workers, None
    <2>3. QED
      BY <1>3, <2>1, <2>2, KillProc
  <1>4. ASSUME NEW m \in Managers, BundleMissing(m) PROVE ReadyIsBacked'
    <2>1. /\ UNCHANGED <<child, owner, proc>>
          /\ state' = [state EXCEPT ![m] = "spawning"]
      BY <1>4 DEF BundleMissing, workerVars
    <2>2. QED
      BY <1>1, <2>1 DEF TypeOK
  <1>5. ASSUME NEW p \in Projects, CreateChild(p) PROVE ReadyIsBacked'
    <2>1. nManagers + 1 \in Managers
      BY <1>5, BoundsAssumption DEF CreateChild, TypeOK, Managers
    <2>2. QED
      BY <1>2, <1>4, <1>5, <2>1 DEF CreateChild
  <1>6. ASSUME NEW p \in Projects, RespawnTimer(p) \/ DeleteContext(p)
        PROVE ReadyIsBacked'
    BY <1>1, <1>6 DEF RespawnTimer, DeleteContext, workerVars
  <1>7. ASSUME NEW m \in Managers,
               InitTimeout(m) \/ WatchdogKill(m) \/ ShutdownTimeout(m)
        PROVE ReadyIsBacked'
    BY <1>3, <1>7 DEF InitTimeout, WatchdogKill, ShutdownTimeout
  <1>8. ASSUME NEW m \in Managers, BackoffElapsed(m) PROVE ReadyIsBacked'
    <2>1. \/ Fork(m, "respawn")
          \/ BundleMissing(m)
          \/ UNCHANGED <<state, child, owner, proc>>
      BY <1>8 DEF BackoffElapsed, workerVars
    <2>2. QED
      BY <1>1, <1>2, <1>4, <2>1
  <1>9. ASSUME NEW m \in Managers, DeadCooldown(m) PROVE ReadyIsBacked'
    BY <1>1, <1>9 DEF DeadCooldown, workerVars
  <1>10. ASSUME NEW w \in Workers, HandleReady(w) PROVE ReadyIsBacked'
    <2> DEFINE m == owner[w]
    <2>1. /\ m \in Managers
          /\ child[m] \in {None, w}
          /\ proc[w] \in {"up", "exited"}
      BY <1>10, OwnerKnown DEF HandleReady, MessagesOK
    <2>2. /\ state' = [state EXCEPT ![m] = "ready"]
          /\ UNCHANGED <<child, owner, proc>>
      BY <1>10, Zenon DEF HandleReady
    <2>3. child[m] = None => proc[w] = "exited"
      BY <1>10, <2>1
      DEF HandleReady, SlotInv, NoLostWorker, Live, LiveStates, None, Workers
    <2>4. QED
      BY <2>1, <2>2, <2>3 DEF ReadyIsBacked, Reaped, TypeOK
  <1>11. ASSUME NEW w \in Workers, NEW inWindow \in BOOLEAN,
                HandleExit(w, inWindow)
         PROVE ReadyIsBacked'
    <2> DEFINE m == owner[w]
    <2>1. /\ Serving
          /\ proc[w] = "exited"
          /\ state' = [state EXCEPT ![m] = "dead"]
          /\ child' = [child EXCEPT ![m] = None]
          /\ proc' = [proc EXCEPT ![w] = "gone"]
          /\ owner' = owner
      BY <1>11, Zenon DEF HandleExit, LoseChild
    <2>2. m \in Managers
      BY <2>1, OwnerKnown
    <2>3. ASSUME NEW n \in Managers, state'[n] = "ready"
          PROVE IF child'[n] = None THEN ~Reaped(n)'
                ELSE proc'[child'[n]] \in {"up", "exited"}
      <3>1. n # m /\ state[n] = "ready" /\ child'[n] = child[n]
        BY <2>1, <2>2, <2>3 DEF TypeOK
      <3>2. ~Reaped(n) => ~Reaped(n)'
        BY <2>1, <3>1 DEF Reaped, TypeOK
      <3>3. child[n] # None => child[n] # w
        BY <3>1 DEF SlotInv
      <3>4. child[n] # None => proc'[child[n]] = proc[child[n]]
        BY <2>1, <3>3 DEF TypeOK, Workers, None
      <3>5. QED
        BY <3>1, <3>2, <3>4 DEF ReadyIsBacked
    <2>4. QED
      BY <2>3 DEF ReadyIsBacked
  <1>12. ASSUME NEW w \in Workers,
                WorkerReady(w) \/ WorkerInitFails(w) \/ WorkerExit(w)
         PROVE ReadyIsBacked'
    <2>1. UNCHANGED <<state, child, owner>>
      BY <1>12 DEF WorkerReady, WorkerInitFails, WorkerExit, managerVars
    <2>2. proc[w] # "exited"
      BY <1>12
      DEF WorkerReady, WorkerInitFails, WorkerExit, Live, LiveStates
    <2>3. \A v \in Workers : v # w => proc'[v] = proc[v]
      BY <1>12 DEF WorkerReady, WorkerInitFails, WorkerExit, TypeOK
    <2>4. ASSUME proc[w] = "up", \E n \in Managers : child[n] = w
          PROVE proc'[w] = "exited"
      <3>1. Serving
        BY <2>4 DEF SlotInv, None, Workers
      <3>2. QED
        BY <1>12, <2>4, <3>1
        DEF WorkerReady, WorkerInitFails, WorkerExit, TypeOK
    <2>5. ASSUME NEW n \in Managers, state[n] = "ready"
          PROVE IF child[n] = None THEN ~Reaped(n)'
                ELSE proc'[child[n]] \in {"up", "exited"}
      <3>1. CASE child[n] = None
        BY <2>1, <2>2, <2>3, <2>5, <3>1 DEF ReadyIsBacked, Reaped
      <3>2. CASE child[n] # None
        <4>1. child[n] \in Workers /\ proc[child[n]] \in {"up", "exited"}
          BY <2>5, <3>2 DEF ReadyIsBacked, TypeOK, Workers, None
        <4>2. QED
          BY <2>2, <2>3, <2>4, <3>2, <4>1
      <3>3. QED
        BY <3>1, <3>2
    <2>6. QED
      BY <2>1, <2>5 DEF ReadyIsBacked
  <1>13. CASE Sigterm
    BY <1>1, <1>13 DEF Sigterm, workerVars
  <1>14. CASE RouterDown
    BY <1>14 DEF RouterDown, ReadyIsBacked
  <1>15. CASE RouterStart
    <2>1. /\ UNCHANGED <<state, child, owner>>
          /\ \A w \in Workers : proc[w] = "exited" => proc'[w] = "exited"
      BY <1>15 DEF RouterStart, managerVars, Live, LiveStates
    <2>2. \A n \in Managers : child[n] = None
      BY <1>15 DEF RouterStart, SlotInv, Serving
    <2>3. QED
      BY <2>1, <2>2 DEF ReadyIsBacked, Reaped
  <1>16. CASE UNCHANGED vars
    BY <1>1, <1>16 DEF vars, managerVars, workerVars
  <1>17. QED
    BY <1>5, <1>6, <1>7, <1>8, <1>9, <1>10, <1>11, <1>12, <1>13, <1>14, <1>15,
       <1>16
    DEF Next, ProjectStep, ManagerStep, WorkerStep

-----------------------------------------------------------------------------
(* No respawn is lost                                                      *)

\* A killed child's exit event is still to come.
LEMMA KillRecovering ==
  ASSUME TypeOK, SlotInv, NEW m \in Managers, Kill(m),
         UNCHANGED <<owner, exitTimers, project, backoffs>>
  PROVE  /\ \A n \in Managers : Recovering(n) => Recovering(n)'
         /\ \A n \in Managers : state'[n] = state[n] \/ Recovering(n)'
  <1>1. CASE child[m] = None /\ UNCHANGED <<proc, child, state>>
    BY <1>1 DEF Recovering, Reaped
  <1>2. CASE /\ child[m] \in Workers
             /\ owner[child[m]] = m
             /\ proc' = [proc EXCEPT ![child[m]] = "exited"]
             /\ state' = [state EXCEPT ![m] = "dead"]
    <2>1. \A w \in Workers : proc[w] = "exited" => proc'[w] = "exited"
      BY <1>2 DEF TypeOK
    <2>2. Recovering(m)'
      BY <1>2 DEF Recovering, Reaped, TypeOK
    <2>3. QED
      BY <1>2, <2>1, <2>2 DEF Recovering, Reaped, TypeOK
  <1>3. QED
    BY <1>1, <1>2, KillProc

\* Every step keeps NoSilentDeath.
LEMMA NextNoSilentDeath ==
  TypeOK /\ RecordsOK /\ SlotInv /\ MessagesOK /\ NoSilentDeath /\ [Next]_vars
    => NoSilentDeath'
  <1> SUFFICES ASSUME TypeOK, RecordsOK, SlotInv, MessagesOK, NoSilentDeath,
                      [Next]_vars
               PROVE  NoSilentDeath'
    OBVIOUS
  <1>1. \A p \in Projects : children[p] # None =>
          children[p] \in Managers /\ project[children[p]] = p
    BY DEF RecordsOK, TypeOK, Managers, None
  \* steps that leave the registered managers and their recovery alone
  <1>2. ASSUME UNCHANGED <<project, children, exitTimers, backoffs, state,
                           saidDead, owner>>,
               \A w \in Workers : proc[w] = "exited" => proc'[w] = "exited"
        PROVE NoSilentDeath'
    BY <1>2 DEF NoSilentDeath, Recovering, Reaped
  <1>3. ASSUME NEW m \in Managers, Fork(m, "create") \/ BundleMissing(m),
               NEW p \in Projects, CreateChild(p), m = nManagers + 1
        PROVE NoSilentDeath'
    <2>1. /\ project' = [project EXCEPT ![m] = p]
          /\ UNCHANGED <<children, exitTimers, backoffs, saidDead>>
      BY <1>3 DEF CreateChild
    <2>2. \A n \in Managers : n # m => state'[n] = state[n] /\ project'[n] = project[n]
      BY <1>3, <2>1 DEF Fork, BundleMissing, TypeOK
    <2>3. \A w \in Workers : proc[w] = "exited" =>
            proc'[w] = "exited" /\ owner'[w] = owner[w]
      <3>1. CASE Fork(m, "create")
        BY <3>1, ForkFresh DEF Fork, TypeOK
      <3>2. CASE BundleMissing(m)
        BY <3>2 DEF BundleMissing, workerVars
      <3>3. QED
        BY <1>3, <3>1, <3>2
    <2>4. \A q \in Projects : children[q] # m
      BY <1>3 DEF RecordsOK, TypeOK
    <2>5. \A n \in Managers : n # m /\ Recovering(n) => Recovering(n)'
      BY <2>1, <2>2, <2>3 DEF Recovering, Reaped
    <2>6. QED
      BY <1>1, <2>1, <2>2, <2>4, <2>5 DEF NoSilentDeath
  <1>4. ASSUME NEW p \in Projects, CreateChild(p) PROVE NoSilentDeath'
    <2>1. nManagers + 1 \in Managers
      BY <1>4, BoundsAssumption DEF CreateChild, TypeOK, Managers
    <2>2. QED
      BY <1>3, <1>4, <2>1 DEF CreateChild
  <1>5. ASSUME NEW p \in Projects, RespawnTimer(p) PROVE NoSilentDeath'
    <2> DEFINE c == children[p]
    <2>1. /\ exitTimers' = [exitTimers EXCEPT ![p] = exitTimers[p] - 1]
          /\ UNCHANGED <<children, project, state, owner, proc>>
      BY <1>5 DEF RespawnTimer, workerVars
    <2>2. \/ c = None /\ UNCHANGED <<backoffs, saidDead>>
          \/ /\ c # None
             /\ saidDead' = [saidDead EXCEPT ![c] = TRUE]
             /\ UNCHANGED backoffs
          \/ /\ c # None
             /\ backoffs' = [backoffs EXCEPT ![c] = backoffs[c] + 1]
             /\ saidDead' = [saidDead EXCEPT ![c] = FALSE]
      BY <1>5 DEF RespawnTimer
    <2>3. ASSUME NEW q \in Projects, children[q] # None
          PROVE /\ Recovering(children[q]) =>
                     Recovering(children[q])' \/ saidDead'[children[q]]
                /\ saidDead[children[q]] =>
                     Recovering(children[q])' \/ saidDead'[children[q]]
      <3> DEFINE m == children[q]
      <3>1. m \in Managers /\ project[m] = q
        BY <1>1, <2>3
      <3>2. CASE q = p
        BY <2>1, <2>2, <2>3, <3>1, <3>2 DEF Recovering, TypeOK
      <3>3. CASE q # p
        <4>1. m # c
          BY <1>1, <3>1, <3>3 DEF Managers, None
        <4>2. backoffs'[m] = backoffs[m] /\ saidDead'[m] = saidDead[m]
          BY <2>2, <3>1, <4>1 DEF TypeOK
        <4>3. exitTimers'[project'[m]] = exitTimers[project[m]]
          BY <2>1, <3>1, <3>3 DEF TypeOK
        <4>4. Recovering(m)' <=> Recovering(m)
          BY <2>1, <4>2, <4>3 DEF Recovering, Reaped
        <4>5. QED
          BY <4>2, <4>4
      <3>4. QED
        BY <3>2, <3>3
    <2>4. QED
      BY <2>1, <2>3 DEF NoSilentDeath
  <1>6. ASSUME NEW p \in Projects, DeleteContext(p) PROVE NoSilentDeath'
    <2>1. /\ UNCHANGED <<exitTimers, project, state, backoffs, saidDead, owner,
                         proc>>
          /\ children' = children \/ children' = [children EXCEPT ![p] = None]
      BY <1>6 DEF DeleteContext, workerVars
    <2>2. \A n : Recovering(n)' <=> Recovering(n)
      BY <2>1 DEF Recovering, Reaped
    <2>3. \A q \in Projects : children'[q] # None => children'[q] = children[q]
      BY <2>1 DEF TypeOK
    <2>4. QED
      BY <2>1, <2>2, <2>3 DEF NoSilentDeath
  <1>7. ASSUME NEW m \in Managers,
               InitTimeout(m) \/ WatchdogKill(m) \/ ShutdownTimeout(m)
        PROVE NoSilentDeath'
    <2>1. Kill(m) /\ UNCHANGED <<owner, exitTimers, project, backoffs>>
      BY <1>7 DEF InitTimeout, WatchdogKill, ShutdownTimeout, mapVars
    <2>2. /\ \A n \in Managers : Recovering(n) => Recovering(n)'
          /\ \A n \in Managers : state'[n] = state[n] \/ Recovering(n)'
      BY <2>1, KillRecovering
    <2>3. \A n \in Managers : saidDead[n] => saidDead'[n]
      BY <1>7
      DEF InitTimeout, WatchdogKill, ShutdownTimeout, ReportRejection, TypeOK
    <2>4. \A q \in Projects : children'[q] # None => children'[q] = children[q]
      BY <1>7
      DEF InitTimeout, WatchdogKill, ShutdownTimeout, mapVars, TypeOK
    <2>5. QED
      BY <1>1, <2>2, <2>3, <2>4 DEF NoSilentDeath
  <1>8. ASSUME NEW m \in Managers, BackoffElapsed(m) PROVE NoSilentDeath'
    <2>1. /\ backoffs' = [backoffs EXCEPT ![m] = backoffs[m] - 1]
          /\ UNCHANGED <<children, exitTimers, project>>
      BY <1>8 DEF BackoffElapsed, mapVars
    <2>2. \A w \in Workers : proc[w] = "exited" =>
            proc'[w] = "exited" /\ owner'[w] = owner[w]
      <3>1. CASE Fork(m, "respawn")
        BY <3>1, ForkFresh DEF Fork, TypeOK
      <3>2. CASE UNCHANGED <<owner, proc>>
        BY <3>2
      <3>3. QED
        BY <1>8, <3>1, <3>2 DEF BackoffElapsed, BundleMissing, workerVars
    <2>3. ASSUME NEW n \in Managers, n # m
          PROVE /\ state'[n] = state[n]
                /\ saidDead'[n] = saidDead[n]
                /\ Recovering(n) => Recovering(n)'
      <3>1. state'[n] = state[n]
        BY <1>8, <2>3 DEF BackoffElapsed, Fork, BundleMissing, TypeOK
      <3>2. saidDead'[n] = saidDead[n]
        BY <1>8, <2>3 DEF BackoffElapsed, TypeOK
      <3>3. Recovering(n) => Recovering(n)'
        BY <2>1, <2>2, <2>3 DEF Recovering, Reaped, TypeOK
      <3>4. QED
        BY <3>1, <3>2, <3>3
    <2>4. state'[m] \in {"initializing", "ready"} \/ saidDead'[m]
      <3>1. CASE state[m] \in {"ready", "initializing"}
        BY <1>8, <3>1 DEF BackoffElapsed
      <3>2. CASE Fork(m, "respawn")
        BY <3>2 DEF Fork, TypeOK
      <3>3. CASE saidDead' = [saidDead EXCEPT ![m] = TRUE]
        BY <3>3 DEF TypeOK
      <3>4. QED
        BY <1>8, <3>1, <3>2, <3>3 DEF BackoffElapsed
    <2>5. QED
      BY <1>1, <2>1, <2>3, <2>4 DEF NoSilentDeath
  <1>9. ASSUME NEW m \in Managers, DeadCooldown(m) PROVE NoSilentDeath'
    BY <1>2, <1>9 DEF DeadCooldown, mapVars, workerVars
  <1>10. ASSUME NEW w \in Workers, HandleReady(w) PROVE NoSilentDeath'
    <2> DEFINE m == owner[w]
    <2>1. m \in Managers
      BY <1>10, OwnerKnown DEF HandleReady
    <2>2. /\ state' = [state EXCEPT ![m] = "ready"]
          /\ saidDead' = [saidDead EXCEPT ![m] = FALSE]
          /\ UNCHANGED <<exitTimers, project, backoffs, owner, proc>>
          /\ \/ children' = children
             \/ children' = [children EXCEPT ![project[m]] = m]
      BY <1>10, Zenon DEF HandleReady
    <2>3. state'[m] = "ready"
      BY <2>1, <2>2 DEF TypeOK
    <2>4. \A q \in Projects : children'[q] \in {children[q], m}
      BY <2>2 DEF TypeOK
    <2>5. \A n \in Managers : n # m =>
            /\ state'[n] = state[n]
            /\ saidDead'[n] = saidDead[n]
            /\ Recovering(n)' <=> Recovering(n)
      BY <2>2 DEF Recovering, Reaped, TypeOK
    <2>6. QED
      BY <1>1, <2>3, <2>4, <2>5 DEF NoSilentDeath
  <1>11. ASSUME NEW w \in Workers, NEW inWindow \in BOOLEAN,
                HandleExit(w, inWindow)
         PROVE NoSilentDeath'
    <2> DEFINE m == owner[w]
               p == project[m]
    <2>1. /\ Serving
          /\ proc[w] = "exited"
          /\ state' = [state EXCEPT ![m] = "dead"]
          /\ proc' = [proc EXCEPT ![w] = "gone"]
          /\ UNCHANGED <<project, backoffs, owner>>
      BY <1>11, Zenon DEF HandleExit, LoseChild
    <2>2. m \in Managers
      BY <2>1, OwnerKnown
    <2>3. \/ children' = [children EXCEPT ![p] = None]
          \/ children' = [children EXCEPT ![p] = children[p]]
      BY <1>11, Zenon DEF HandleExit
    <2>4. \/ /\ children[p] # m
             /\ exitTimers' = [exitTimers EXCEPT ![p] = exitTimers[p]]
          \/ exitTimers' = [exitTimers EXCEPT ![p] = exitTimers[p] + 1]
      <3>1. CASE AlreadyRespawning(m)
        BY <1>11, <3>1, Zenon DEF HandleExit, AlreadyRespawning
      <3>2. CASE ~AlreadyRespawning(m)
        BY <1>11, <3>2, Zenon DEF HandleExit
      <3>3. QED
        BY <3>1, <3>2
    <2>5. saidDead' = [saidDead EXCEPT ![m] =
                         saidDead[m] \/ waiter[m] = "respawn"]
      BY <1>11, Zenon DEF HandleExit, ReportRejection
    <2>6. ASSUME NEW n \in Managers, n # m
          PROVE /\ state'[n] = state[n]
                /\ saidDead'[n] = saidDead[n]
                /\ Recovering(n) => Recovering(n)'
      <3>1. state'[n] = state[n]
        BY <2>1, <2>6 DEF TypeOK
      <3>2. saidDead'[n] = saidDead[n]
        BY <2>5, <2>6 DEF TypeOK
      <3>3. ~Reaped(n) => ~Reaped(n)'
        BY <2>1, <2>6 DEF Reaped, TypeOK
      <3>4. exitTimers[project[n]] > 0 => exitTimers'[project[n]] > 0
        BY <2>4 DEF TypeOK
      <3>5. QED
        BY <2>1, <3>1, <3>2, <3>3, <3>4 DEF Recovering
    <2>7. ASSUME NEW n \in Managers, n = m, children[project[n]] = n
          PROVE Recovering(n)'
      <3>1. project[n] \in Projects
        BY DEF TypeOK
      <3>2. exitTimers'[project[n]] > 0
        BY <2>4, <2>7, <3>1 DEF TypeOK
      <3>3. QED
        BY <2>1, <3>2 DEF Recovering
    <2>8. ASSUME NEW q \in Projects, children'[q] # None
          PROVE children'[q] = children[q]
      BY <2>3, <2>8 DEF TypeOK
    <2>9. ASSUME NEW q \in Projects, NEW n \in Managers, children[q] = n,
                 state'[n] \notin {"initializing", "ready"}
          PROVE Recovering(n)' \/ saidDead'[n]
      <3>1. project[n] = q
        BY <1>1, <2>9 DEF Managers, None
      <3>2. CASE n = m
        BY <2>7, <2>9, <3>1, <3>2
      <3>3. CASE n # m
        <4>1. Recovering(n) \/ saidDead[n]
          BY <2>6, <2>9, <3>3 DEF NoSilentDeath, Managers, None
        <4>2. QED
          BY <2>6, <3>3, <4>1
      <3>4. QED
        BY <3>2, <3>3
    <2>10. QED
      BY <1>1, <2>8, <2>9 DEF NoSilentDeath
  <1>12. ASSUME NEW w \in Workers,
                WorkerReady(w) \/ WorkerInitFails(w) \/ WorkerExit(w)
         PROVE NoSilentDeath'
    <2>1. UNCHANGED <<project, children, exitTimers, backoffs, state, saidDead,
                      owner>>
      BY <1>12
      DEF WorkerReady, WorkerInitFails, WorkerExit, mapVars, managerVars
    <2>2. \A v \in Workers : proc[v] = "exited" => proc'[v] = "exited"
      BY <1>12
      DEF WorkerReady, WorkerInitFails, WorkerExit, Live, LiveStates, TypeOK
    <2>3. QED
      BY <1>2, <2>1, <2>2
  <1>13. CASE Sigterm
    BY <1>2, <1>13 DEF Sigterm, mapVars, workerVars
  <1>14. CASE RouterDown
    BY <1>14 DEF RouterDown, NoSilentDeath
  <1>15. CASE RouterStart
    <2>1. UNCHANGED <<project, children, exitTimers, backoffs, state, saidDead,
                      owner>>
      BY <1>15 DEF RouterStart, mapVars, managerVars
    <2>2. \A v \in Workers : proc[v] = "exited" => proc'[v] = "exited"
      BY <1>15 DEF RouterStart, Live, LiveStates
    <2>3. QED
      BY <1>2, <2>1, <2>2
  <1>16. CASE UNCHANGED vars
    BY <1>2, <1>16 DEF vars, mapVars, managerVars, workerVars
  <1>17. QED
    BY <1>4, <1>5, <1>6, <1>7, <1>8, <1>9, <1>10, <1>11, <1>12, <1>13, <1>14,
       <1>15, <1>16
    DEF Next, ProjectStep, ManagerStep, WorkerStep

-----------------------------------------------------------------------------
(* The theorems                                                            *)

\* The invariant they share: the variables' types, the Router's records, the
\* slots and the messages.
SupervisionInv == TypeOK /\ RecordsOK /\ SlotInv /\ MessagesOK

\* It holds initially and every step keeps it.
LEMMA SupervisionInductive ==
  /\ Init => SupervisionInv
  /\ SupervisionInv /\ [Next]_vars => SupervisionInv'
  <1>1. Init => MessagesOK
    BY DEF Init, MessagesOK
  <1>2. QED
    BY <1>1, InitTypeOK, InitSlots, NextTypeOK, NextRecordsOK, NextSlotInv,
       NextMessagesOK
    DEF SupervisionInv

\* However requests, crashes and timeouts interleave, a project never has two
\* first spawns waiting at once, and childInitPromises knows the one it has.
THEOREM CreationIsCoalesced == Spec => []CoalescedCreation
  <1>1. Init => CoalescedCreation
    BY DEF Init, CoalescedCreation
  <1>2. SupervisionInv /\ CoalescedCreation /\ [Next]_vars => CoalescedCreation'
    BY NextCoalesced DEF SupervisionInv
  <1>3. QED
    BY <1>1, <1>2, SupervisionInductive, PTL DEF Spec

\* A manager the Router would proxy to has a worker that came up, or an exit
\* event on its way that will say otherwise.
THEOREM ReadyHasWorker == Spec => []ReadyIsBacked
  <1>1. Init => ReadyIsBacked
    BY DEF Init, ReadyIsBacked
  <1>2. SupervisionInv /\ ReadyIsBacked /\ [Next]_vars => ReadyIsBacked'
    BY NextReadyBacked DEF SupervisionInv
  <1>3. QED
    BY <1>1, <1>2, SupervisionInductive, PTL DEF Spec

\* No respawn gets lost: a registered project without a worker has an exit
\* event, a timer or a backoff that will bring it back, or was reported dead.
THEOREM NoRespawnIsLost == Spec => []NoSilentDeath
  <1>1. Init => NoSilentDeath
    BY DEF Init, NoSilentDeath
  <1>2. SupervisionInv /\ NoSilentDeath /\ [Next]_vars => NoSilentDeath'
    BY NextNoSilentDeath DEF SupervisionInv
  <1>3. QED
    BY <1>1, <1>2, SupervisionInductive, PTL DEF Spec

-----------------------------------------------------------------------------
(* OpsIngress                                                              *)

\* A step of the composition is a step of the supervision.
LEMMA OpsStepSupervises == [OpsNext]_opsAll => [Next]_vars
  BY DEF OpsNext, OpsCreate, OpsHandleReady, OpsHandleExit, OpsRouterDown, OpsSilent, opsAll,
         Next, ProjectStep, ManagerStep, WorkerStep

\* EventsKeepOrder, position by position.
InOrder ==
  /\ emitted \in Nat
  /\ opsBuffer \in Seq(Nat)
  /\ sent \in Seq([event : Nat, to : 0..MaxWorkers])
  /\ Len(sent) + Len(opsBuffer) = emitted
  /\ \A i \in 1..Len(sent) : sent[i].event = i
  /\ \A i \in 1..Len(opsBuffer) : opsBuffer[i] = Len(sent) + i

LEMMA InOrderMeans == InOrder => EventsKeepOrder
  <1> SUFFICES ASSUME InOrder PROVE EventsKeepOrder
    OBVIOUS
  <1> DEFINE events == [i \in 1..Len(sent) |-> sent[i].event]
             all == [i \in 1..emitted |-> i]
  <1>1. events \in Seq(Nat) /\ Len(events) = Len(sent)
    BY DEF InOrder
  <1>2. all \in Seq(Nat) /\ Len(all) = emitted
    BY DEF InOrder
  <1>3. events \o opsBuffer \in Seq(Nat) /\ Len(events \o opsBuffer) = emitted
    BY <1>1 DEF InOrder
  <1>4. ASSUME NEW i \in 1..emitted PROVE (events \o opsBuffer)[i] = all[i]
    <2>1. CASE i <= Len(sent)
      BY <1>1, <2>1 DEF InOrder
    <2>2. CASE i > Len(sent)
      <3>1. (events \o opsBuffer)[i] = opsBuffer[i - Len(sent)] /\ i - Len(sent) \in 1..Len(opsBuffer)
        BY <1>1, <2>2 DEF InOrder
      <3> QED BY <3>1 DEF InOrder
    <2> QED BY <2>1, <2>2 DEF InOrder
  <1> QED BY <1>2, <1>3, <1>4, SeqEqual DEF EventsKeepOrder

LEMMA SendToWhat ==
  ASSUME NEW events \in Seq(Nat)
  PROVE  /\ SendTo(events) \in Seq([event : Nat, to : {child[OpsManager]}])
         /\ Len(SendTo(events)) = Len(events)
         /\ \A i \in 1..Len(events) : SendTo(events)[i].event = events[i]
  <1> DEFINE to == child[OpsManager]
             now == [i \in 1..Len(events) |-> [event |-> events[i], to |-> to]]
  <1>1. SendTo(events) = now
    BY DEF SendTo
  <1> HIDE DEF to
  <1>2. now \in [1..Len(events) -> [event : Nat, to : {to}]] /\ Len(events) \in Nat
    OBVIOUS
  <1>3. now \in Seq([event : Nat, to : {to}]) /\ Len(now) = Len(events)
    BY <1>2
  <1>4. \A i \in 1..Len(events) : now[i].event = events[i]
    OBVIOUS
  <1> QED BY <1>1, <1>3, <1>4 DEF to

\* An event that is emitted takes the last place, sent or buffered.
LEMMA EmitKeepsOrder ==
  ASSUME TypeOK, InOrder, NEW ready, Emit(ready), ready => OpsManager \in Managers
  PROVE  InOrder'
  <1>1. CASE ready /\ sent' = sent \o SendTo(Drained(emitted + 1)) /\ opsBuffer' = <<>>
    <2> DEFINE more == Append(opsBuffer, emitted + 1)
               now == SendTo(more)
    <2>1. more \in Seq(Nat) /\ Len(more) = Len(opsBuffer) + 1
      BY DEF InOrder
    <2>2. ASSUME NEW i \in 1..Len(more) PROVE more[i] = Len(sent) + i
      <3>1. opsBuffer \in Seq(Nat) /\ emitted + 1 \in Nat
        BY DEF InOrder
      <3>2. /\ \A j \in 1..Len(opsBuffer) : more[j] = opsBuffer[j]
            /\ more[Len(opsBuffer) + 1] = emitted + 1
        BY <3>1, AppendProperties
      <3> HIDE DEF more
      <3>3. i \in 1..Len(opsBuffer) \/ i = Len(opsBuffer) + 1
        BY <2>1, <3>1
      <3>4. CASE i \in 1..Len(opsBuffer)
        BY <3>2, <3>4 DEF InOrder
      <3>5. CASE i = Len(opsBuffer) + 1
        <4>1. Len(sent) \in Nat /\ Len(opsBuffer) \in Nat /\ Len(sent) + Len(opsBuffer) = emitted
          BY DEF InOrder
        <4> QED BY <3>2, <3>5, <4>1
      <3> QED BY <3>3, <3>4, <3>5
    <2>3. child[OpsManager] \in 0..MaxWorkers
      BY <1>1 DEF TypeOK
    <2> HIDE DEF more
    <2>4. /\ now \in Seq([event : Nat, to : {child[OpsManager]}])
          /\ Len(now) = Len(more)
          /\ \A i \in 1..Len(more) : now[i].event = more[i]
      BY <2>1, SendToWhat
    <2> HIDE DEF now
    <2>5. sent' = sent \o now /\ emitted' = emitted + 1
      BY <1>1 DEF Drained, Emit, now, more
    <2>6. ASSUME NEW i \in 1..Len(sent') PROVE sent'[i].event = i
      <3>1. CASE i <= Len(sent)
        BY <2>4, <2>5, <3>1 DEF InOrder
      <3>2. CASE i > Len(sent)
        <4>1. sent'[i] = now[i - Len(sent)] /\ i - Len(sent) \in 1..Len(more)
          BY <2>4, <2>5, <3>2 DEF InOrder
        <4>2. sent'[i].event = more[i - Len(sent)] /\ more[i - Len(sent)] = Len(sent) + (i - Len(sent))
          BY <2>2, <2>4, <4>1
        <4> QED BY <4>2 DEF InOrder
      <3> QED BY <3>1, <3>2, <2>4, <2>5 DEF InOrder
    <2> DEFINE Sends == [event : Nat, to : 0..MaxWorkers]
    <2>7. now \in Seq(Sends) /\ sent \in Seq(Sends)
      <3>1. [event : Nat, to : {child[OpsManager]}] \subseteq Sends
        BY <2>3
      <3>2. sent \in Seq(Sends)
        BY DEF InOrder
      <3> HIDE DEF Sends
      <3> QED BY <2>4, <3>1, <3>2, SeqMonotonic
    <2>8. sent' \in Seq(Sends) /\ Len(sent') = Len(sent) + Len(now)
      BY <2>5, <2>7, ConcatProperties
    <2>9. opsBuffer' \in Seq(Nat) /\ Len(opsBuffer') = 0
      BY <1>1
    <2>10. emitted' \in Nat /\ Len(sent') + Len(opsBuffer') = emitted'
      BY <2>1, <2>4, <2>5, <2>7, <2>8, <2>9 DEF InOrder
    <2> QED BY <2>6, <2>8, <2>9, <2>10 DEF InOrder
  <1>2. CASE opsBuffer' = Append(opsBuffer, emitted + 1) /\ sent' = sent
    BY <1>2 DEF Emit, InOrder
  <1> QED BY <1>1, <1>2 DEF Emit

LEMMA OpsInductive ==
  /\ OpsInit => InOrder
  /\ SupervisionInv /\ InOrder /\ [OpsNext]_opsAll => InOrder'
  <1>1. OpsInit => InOrder
    <2>1. OpsInit => /\ emitted \in Nat /\ Len(sent) = 0 /\ Len(opsBuffer) = 0 /\ emitted = 0
                     /\ sent = <<>> /\ opsBuffer = <<>>
      BY DEF OpsInit
    <2>2. /\ opsBuffer = <<>> => opsBuffer \in Seq(Nat)
          /\ sent = <<>> => sent \in Seq([event : Nat, to : 0..MaxWorkers])
      BY EmptySeq
    <2> QED BY <2>1, <2>2 DEF InOrder
  <1> SUFFICES ASSUME SupervisionInv, InOrder, [OpsNext]_opsAll PROVE InOrder'
    BY <1>1
  <1>2. TypeOK /\ OpsReady => OpsManager \in Managers
    BY OpsProjectAssumption DEF TypeOK, OpsReady, OpsManager, None, Managers
  <1>3. ASSUME NEW p \in Projects, OpsCreate(p) PROVE InOrder'
    BY <1>2, <1>3, EmitKeepsOrder DEF OpsCreate, SupervisionInv
  <1>4. ASSUME NEW w \in Workers, OpsHandleReady(w) PROVE InOrder'
    <2>1. owner[w] \in Managers
      BY <1>4, OwnerKnown DEF OpsHandleReady, HandleReady, SupervisionInv
    <2> QED BY <1>2, <1>4, <2>1, EmitKeepsOrder DEF OpsHandleReady, SupervisionInv
  <1>5. ASSUME NEW w \in Workers, NEW inWindow \in BOOLEAN, OpsHandleExit(w, inWindow) PROVE InOrder'
    BY <1>2, <1>5, EmitKeepsOrder DEF OpsHandleExit, SupervisionInv
  <1>6. ASSUME OpsRouterDown PROVE InOrder'
    BY <1>6 DEF OpsRouterDown, InOrder
  <1>7. CASE UNCHANGED opsVars
    BY <1>7 DEF opsVars, InOrder
  <1> QED BY <1>3, <1>4, <1>5, <1>6, <1>7 DEF OpsNext, OpsSilent, opsAll

\* No platform event is forgotten, repeated or reordered on the Router's side of the
\* channel, however the ops project's worker comes, crashes and is respawned.
THEOREM EventsAlwaysInOrder == OpsSpec => []EventsKeepOrder
  <1>1. OpsInit => SupervisionInv
    BY SupervisionInductive DEF OpsInit
  <1>2. SupervisionInv /\ [OpsNext]_opsAll => SupervisionInv'
    BY SupervisionInductive, OpsStepSupervises
  <1> QED
    BY <1>1, <1>2, OpsInductive, InOrderMeans, PTL DEF OpsSpec

\* What an event goes to: the child, or nothing while a killed worker is not reaped.
LEMMA ReadyHasChild ==
  ASSUME SupervisionInv, ReadyIsBacked, OpsReady, child[OpsManager] = None
  PROVE  ~Reaped(OpsManager)
  <1>1. OpsManager \in Managers
    BY OpsProjectAssumption DEF SupervisionInv, TypeOK, OpsReady, OpsManager, None, Managers
  <1> QED BY <1>1 DEF ReadyIsBacked, OpsReady

LEMMA EmitReaches ==
  ASSUME InOrder, NEW ready, Emit(ready), ready /\ child[OpsManager] = None => ~Reaped(OpsManager),
         NEW i \in Len(sent)+1..Len(sent'), sent'[i].to = None
  PROVE  ~Reaped(OpsManager)
  <1> DEFINE now == SendTo(Drained(emitted + 1))
  <1>1. ready /\ sent' = sent \o now
    BY DEF Emit, InOrder
  <1>2. now \in Seq([event : Nat, to : {child[OpsManager]}])
    <2>1. Drained(emitted + 1) \in Seq(Nat)
      BY DEF Drained, InOrder
    <2> QED BY <2>1, SendToWhat
  <1> HIDE DEF now
  <1>3. sent \in Seq([event : Nat, to : 0..MaxWorkers])
    BY DEF InOrder
  <1>4. i - Len(sent) \in 1..Len(now) /\ sent'[i] = now[i - Len(sent)]
    BY <1>1, <1>2, <1>3
  <1>5. now[i - Len(sent)] \in [event : Nat, to : {child[OpsManager]}]
    BY <1>2, <1>4, ElementOfSeq
  <1>6. sent'[i].to = child[OpsManager]
    BY <1>4, <1>5
  <1> QED BY <1>1, <1>6

\* An event that the Router sends is dropped only in the moment between the kill of the ops
\* project's worker and its exit event; without a worker it is buffered.
THEOREM EventsAlwaysReachAWorker == OpsSpec => EventsReachAWorker
  <1> DEFINE Reaches == \A i \in Len(sent)+1..Len(sent') : sent'[i].to = None => ~Reaped(OpsManager)
  <1>1. OpsInit => SupervisionInv /\ ReadyIsBacked
    BY SupervisionInductive DEF OpsInit, Init, ReadyIsBacked
  <1>2. SupervisionInv /\ ReadyIsBacked /\ [OpsNext]_opsAll => (SupervisionInv /\ ReadyIsBacked)'
    BY SupervisionInductive, OpsStepSupervises, NextReadyBacked DEF SupervisionInv
  <1>3. ASSUME SupervisionInv, ReadyIsBacked, InOrder, [OpsNext]_opsAll PROVE Reaches
    <2>1. ASSUME NEW p \in Projects, OpsCreate(p) PROVE Reaches
      BY <1>3, <2>1, ReadyHasChild, EmitReaches DEF OpsCreate
    <2>2. ASSUME NEW w \in Workers, OpsHandleReady(w) PROVE Reaches
      <3>1. /\ owner[w] \in Managers
            /\ Live(w) => child[owner[w]] = w
            /\ proc[w] = "exited" \/ Live(w)
        BY <1>3, <2>2, OwnerKnown
        DEF OpsHandleReady, HandleReady, SupervisionInv, SlotInv, NoLostWorker, MessagesOK, Live, LiveStates
      <3>2. OpsManager = owner[w] /\ child[OpsManager] = None => ~Reaped(OpsManager)
        BY <3>1 DEF Reaped, Workers, None
      <3> QED BY <1>3, <2>2, <3>2, ReadyHasChild, EmitReaches DEF OpsHandleReady
    <2>3. ASSUME NEW w \in Workers, NEW inWindow \in BOOLEAN, OpsHandleExit(w, inWindow) PROVE Reaches
      BY <1>3, <2>3, ReadyHasChild, EmitReaches DEF OpsHandleExit
    <2>4. ASSUME OpsRouterDown PROVE Reaches
      BY <1>3, <2>4 DEF OpsRouterDown, InOrder
    <2>5. CASE UNCHANGED opsVars
      BY <1>3, <2>5 DEF opsVars, InOrder
    <2> QED BY <1>3, <2>1, <2>2, <2>3, <2>4, <2>5 DEF OpsNext, OpsSilent, opsAll
  <1>4. SupervisionInv /\ ReadyIsBacked /\ InOrder /\ [OpsNext]_opsAll => [Reaches]_opsAll
    BY <1>3
  <1> QED
    BY <1>1, <1>2, <1>4, OpsInductive, PTL DEF OpsSpec, EventsReachAWorker

-----------------------------------------------------------------------------
(* ConnectionRelay: a worker's inbox q and its virtualConnections v        *)

\* The worker knows of connection c, or will when it has read its inbox.
Told(q, v, c) == c \in v \/ \E i \in 1..Len(q) : q[i] = Connect(c)

\* What it will hear last of c, if it hears of it, is that c is closed.
LastWord(q, v, c) ==
  Told(q, v, c) => \E i \in 1..Len(q) : q[i] = Disconnect(c)
                                       /\ \A j \in i+1..Len(q) : q[j] # Connect(c)

\* virtualConnections after a message.
After(msg, v) == IF msg.type = "ws-connect" THEN v \union {msg.conn} ELSE v \ {msg.conn}

LEMMA MessageFacts ==
  /\ \A c, d \in Conns :
       /\ Connect(c) # Disconnect(d)
       /\ Connect(c) = Connect(d) => c = d
       /\ Disconnect(c) = Disconnect(d) => c = d
  /\ \A c \in Conns : Connect(c) \in Messages /\ Disconnect(c) \in Messages
  /\ \A msg \in Messages : \E c \in Conns : msg = Connect(c) \/ msg = Disconnect(c)
  BY DEF Connect, Disconnect, Messages

LEMMA AfterMessage ==
  ASSUME NEW c, NEW v
  PROVE  /\ After(Connect(c), v) = v \union {c}
         /\ After(Disconnect(c), v) = v \ {c}
  BY DEF Connect, Disconnect, After

\* More messages take nothing away.
LEMMA ToldGrows ==
  ASSUME NEW q \in Seq(Messages), NEW more \in Seq(Messages), NEW v, NEW c, Told(q, v, c)
  PROVE  Told(q \o more, v, c)
  BY DEF Told

LEMMA ToldNow ==
  ASSUME NEW q \in Seq(Messages), NEW more \in Seq(Messages), NEW v, NEW c,
         NEW i \in 1..Len(more), more[i] = Connect(c)
  PROVE  Told(q \o more, v, c)
  <1>1. (q \o more)[Len(q) + i] = Connect(c) /\ Len(q) + i \in 1..Len(q \o more)
    OBVIOUS
  <1> QED BY <1>1 DEF Told

LEMMA LastWordGrows ==
  ASSUME NEW q \in Seq(Messages), NEW more \in Seq(Messages), NEW v, NEW c, LastWord(q, v, c),
         \A i \in 1..Len(more) : more[i] # Connect(c)
  PROVE  LastWord(q \o more, v, c)
  <1>1. /\ \A i \in 1..Len(q) : (q \o more)[i] = q[i]
        /\ \A i \in Len(q)+1..Len(q \o more) : (q \o more)[i] # Connect(c)
        /\ Len(q \o more) = Len(q) + Len(more) /\ Len(q) \in Nat /\ Len(more) \in Nat
    <2>1. \A i \in Len(q)+1..Len(q \o more) :
             (q \o more)[i] = more[i - Len(q)] /\ i - Len(q) \in 1..Len(more)
      OBVIOUS
    <2> QED BY <2>1
  <1>2. SUFFICES ASSUME Told(q \o more, v, c)
                 PROVE  \E i \in 1..Len(q \o more) : (q \o more)[i] = Disconnect(c)
                          /\ \A j \in i+1..Len(q \o more) : (q \o more)[j] # Connect(c)
    BY DEF LastWord
  <1>3. Told(q, v, c)
    <2>1. CASE c \in v
      BY <2>1 DEF Told
    <2>2. ASSUME NEW i \in 1..Len(q \o more), (q \o more)[i] = Connect(c) PROVE Told(q, v, c)
      <3>1. i \in 1..Len(q)
        BY <1>1, <2>2
      <3> QED BY <1>1, <2>2, <3>1 DEF Told
    <2> QED BY <1>2, <2>1, <2>2 DEF Told
  <1>4. PICK i \in 1..Len(q) : q[i] = Disconnect(c) /\ \A j \in i+1..Len(q) : q[j] # Connect(c)
    BY <1>3 DEF LastWord
  <1>5. i \in 1..Len(q \o more) /\ (q \o more)[i] = Disconnect(c)
    BY <1>1, <1>4
  <1>6. ASSUME NEW j \in i+1..Len(q \o more) PROVE (q \o more)[j] # Connect(c)
    <2>1. CASE j <= Len(q)
      BY <1>1, <1>4, <2>1
    <2>2. CASE j > Len(q)
      BY <1>1, <2>2
    <2> QED BY <1>1, <2>1, <2>2
  <1> QED BY <1>5, <1>6

LEMMA LastWordSaid ==
  ASSUME NEW q \in Seq(Messages), NEW v, NEW c \in Conns
  PROVE  LastWord(q \o <<Disconnect(c)>>, v, c)
  <1> DEFINE n == q \o <<Disconnect(c)>>
  <1>1. Len(n) = Len(q) + 1 /\ n[Len(n)] = Disconnect(c) /\ Len(q) \in Nat
    BY MessageFacts
  <1> HIDE DEF n
  <1>2. Len(n) \in 1..Len(n) /\ Len(n)+1..Len(n) = {}
    BY <1>1
  <1> QED BY <1>1, <1>2 DEF LastWord, n

\* Reading the first message changes neither.
LEMMA ReadingKeeps ==
  ASSUME NEW q \in Seq(Messages), q # <<>>, NEW v, NEW c \in Conns
  PROVE  /\ Told(q, v, c) /\ (\A i \in 1..Len(q) : q[i] # Disconnect(c))
             => Told(Tail(q), After(Head(q), v), c)
         /\ LastWord(q, v, c) => LastWord(Tail(q), After(Head(q), v), c)
  <1> DEFINE t == Tail(q)
             u == After(Head(q), v)
  <1>1. /\ Len(q) \in Nat \ {0} /\ Len(t) = Len(q) - 1
        /\ \A i \in 1..Len(t) : t[i] = q[i + 1]
        /\ \A i \in 2..Len(q) : q[i] = t[i - 1]
        /\ Head(q) = q[1] /\ q[1] \in Messages
    OBVIOUS
  <1>2. PICK d \in Conns : q[1] = Connect(d) \/ q[1] = Disconnect(d)
    BY <1>1, MessageFacts
  <1>3. /\ q[1] = Connect(d) => u = v \union {d}
        /\ q[1] = Disconnect(d) => u = v \ {d}
    BY <1>1, AfterMessage
  <1> HIDE DEF t, u
  <1>4. ASSUME Told(q, v, c), q[1] # Disconnect(c) PROVE Told(t, u, c)
    <2>1. CASE c \in v
      BY <1>2, <1>3, <1>4, <2>1 DEF Told
    <2>2. CASE q[1] = Connect(c)
      <3>1. c = d /\ q[1] = Connect(d)
        BY <1>2, <2>2, MessageFacts
      <3> QED BY <1>3, <3>1 DEF Told
    <2>3. ASSUME NEW i \in 2..Len(q), q[i] = Connect(c) PROVE Told(t, u, c)
      <3>1. i - 1 \in 1..Len(t) /\ t[i - 1] = Connect(c)
        BY <1>1, <2>3
      <3> QED BY <3>1 DEF Told
    <2> QED BY <1>1, <1>4, <2>1, <2>2, <2>3 DEF Told
  <1>5. ASSUME LastWord(q, v, c), Told(t, u, c)
        PROVE  \E i \in 1..Len(t) : t[i] = Disconnect(c) /\ \A j \in i+1..Len(t) : t[j] # Connect(c)
    <2>1. Told(q, v, c)
      <3>1. CASE c \in u
        BY <1>1, <1>2, <1>3, <3>1, MessageFacts DEF Told
      <3>2. ASSUME NEW i \in 1..Len(t), t[i] = Connect(c) PROVE Told(q, v, c)
        <4>1. i + 1 \in 1..Len(q) /\ q[i + 1] = Connect(c)
          BY <1>1, <3>2
        <4> QED BY <4>1 DEF Told
      <3> QED BY <1>5, <3>1, <3>2 DEF Told
    <2>2. PICK i \in 1..Len(q) : q[i] = Disconnect(c) /\ \A j \in i+1..Len(q) : q[j] # Connect(c)
      BY <1>5, <2>1 DEF LastWord
    <2>3. CASE i = 1
      <3>1. c \notin u
        <4>1. c = d /\ q[1] = Disconnect(d)
          BY <1>2, <2>2, <2>3, MessageFacts
        <4> QED BY <1>3, <4>1
      <3>2. ASSUME NEW j \in 1..Len(t) PROVE t[j] # Connect(c)
        <4>1. j + 1 \in i+1..Len(q) /\ t[j] = q[j + 1]
          BY <1>1, <2>3
        <4> QED BY <2>2, <4>1
      <3> QED BY <1>5, <3>1, <3>2 DEF Told
    <2>4. CASE i # 1
      <3>1. i - 1 \in 1..Len(t) /\ t[i - 1] = Disconnect(c)
        BY <1>1, <2>2, <2>4
      <3>2. ASSUME NEW j \in (i-1)+1..Len(t) PROVE t[j] # Connect(c)
        <4>1. j + 1 \in i+1..Len(q) /\ t[j] = q[j + 1]
          BY <1>1, <2>4
        <4> QED BY <2>2, <4>1
      <3> QED BY <3>1, <3>2
    <2> QED BY <2>3, <2>4
  <1>6. (\A i \in 1..Len(q) : q[i] # Disconnect(c)) => q[1] # Disconnect(c)
    BY <1>1
  <1> QED BY <1>4, <1>5, <1>6 DEF LastWord, t, u
\* SetToSeq lists the members of a finite set.
LEMMA SetToSeqLists ==
  ASSUME NEW S, IsFiniteSet(S)
  PROVE  /\ SetToSeq(S) \in [1..Cardinality(S) -> S] /\ Cardinality(S) \in Nat
         /\ \A x \in S : \E i \in 1..Cardinality(S) : SetToSeq(S)[i] = x
  <1> DEFINE n == Cardinality(S)
             f == SetToSeq(S)
  <1>1. n \in Nat /\ ExistsBijection(1..n, S)
    BY FS_CardinalityType
  <1>2. PICK g \in Bijection(1..n, S) : TRUE
    BY <1>1 DEF ExistsBijection
  <1>3. g \in [1..n -> S] /\ IsInjective(g)
    BY <1>2 DEF Bijection, Injection
  <1>4. f \in [1..n -> S] /\ IsInjective(f)
    BY <1>3 DEF SetToSeq
  <1>5. IsFiniteSet(1..n) /\ Cardinality(1..n) = n
    BY <1>1, FS_Interval
  <1> HIDE DEF f
  <1>6. f \in Surjection(1..n, S)
    BY <1>4, <1>5, FS_Injection DEF Injection
  <1> QED BY <1>1, <1>4, <1>6 DEF Surjection, f

\* What a ready worker is sent: every open connection of its project, and only those.
Announced(m) == [i \in 1..Cardinality(ConnsOf(project[m])) |->
                   Connect(SetToSeq(ConnsOf(project[m]))[i])]

LEMMA AnnouncedIsOpen ==
  ASSUME IsFiniteSet(used), wsConns \subseteq used, used \subseteq Conns, NEW m
  PROVE  /\ Announced(m) \in Seq(Messages)
         /\ \A i \in 1..Len(Announced(m)) : \E c \in wsConns : Announced(m)[i] = Connect(c)
         /\ \A c \in ConnsOf(project[m]) : \E i \in 1..Len(Announced(m)) : Announced(m)[i] = Connect(c)
  <1> DEFINE S == ConnsOf(project[m])
             n == Cardinality(S)
  <1>1. S \subseteq wsConns
    BY DEF ConnsOf
  <1>2. IsFiniteSet(S)
    BY <1>1, FS_Subset
  <1> HIDE DEF S
  <1>3. /\ SetToSeq(S) \in [1..n -> S] /\ n \in Nat
        /\ \A x \in S : \E i \in 1..n : SetToSeq(S)[i] = x
    BY <1>2, SetToSeqLists
  <1> DEFINE q == [i \in 1..n |-> Connect(SetToSeq(S)[i])]
  <1>4. q = Announced(m)
    BY DEF Announced, S
  <1>5. \A i \in 1..n : q[i] = Connect(SetToSeq(S)[i]) /\ SetToSeq(S)[i] \in wsConns /\ q[i] \in Messages
    BY <1>1, <1>3, MessageFacts
  <1>6. q \in Seq(Messages) /\ Len(q) = n
    BY <1>3, <1>5
  <1> HIDE DEF q
  <1>7. \A c \in S : \E i \in 1..Len(q) : q[i] = Connect(c)
    BY <1>3, <1>5, <1>6
  <1> QED BY <1>4, <1>5, <1>6, <1>7 DEF S

-----------------------------------------------------------------------------
(* ConnectionRelay: what the supervision does to a connection              *)

\* A step of the composition is a step of the supervision.
LEMMA RelayStepSupervises == [RelayNext]_relayAll => [Next]_vars
  BY DEF RelayNext, ConnStep, SupervisionOnly, RelayReady, RelayExit, RelayBackoffElapsed,
         RelayDown, RelayStart, WsOpen, WsClose, WorkerHandles, HandleConnectionChange,
         relayAll, Next, ProjectStep, ManagerStep, WorkerStep

\* A manager whose worker is alive has had it before, or just forked it.
LEMMA ConnectedBefore ==
  ASSUME SupervisionInv, [Next]_vars, NEW m \in Managers, Connected(m)'
  PROVE  \/ child'[m] = child[m] /\ Connected(m)
         \/ /\ child'[m] \in Workers /\ proc[child'[m]] = "none"
            /\ state'[m] = "initializing"
  <1> USE DEF SupervisionInv
  <1>0. child'[m] = child[m] /\ child[m] # None => child[m] \in Workers
    BY BoundsAssumption DEF TypeOK, Workers, None
  <1>1. ASSUME NEW n \in Managers, NEW who, Fork(n, who)
        PROVE  \/ child'[m] = child[m] /\ Connected(m)
               \/ /\ child'[m] \in Workers /\ proc[child'[m]] = "none"
                  /\ state'[m] = "initializing"
    <2>1. nWorkers + 1 \in Workers /\ proc[nWorkers + 1] = "none" /\ child[m] # nWorkers + 1
      BY <1>1, ForkFresh
    <2>2. CASE n = m
      BY <1>1, <2>1, <2>2 DEF Fork, TypeOK
    <2>3. CASE n # m
      BY <1>1, <2>1, <2>3 DEF Fork, TypeOK, Connected, Live
    <2> QED BY <2>2, <2>3
  <1>2. ASSUME NEW n \in Managers, Kill(n) PROVE child'[m] = child[m] /\ Connected(m)
    <2>1. CASE child[n] = None
      BY <1>2, <2>1 DEF Kill, Connected, Live
    <2>2. CASE child[n] # None
      <3>1. /\ child[n] \in Workers
            /\ proc' = [proc EXCEPT ![child[n]] = "exited"]
            /\ child' = [child EXCEPT ![n] = None]
        BY <1>2, <2>2, KillProc
      <3>2. n # m
        BY <3>1 DEF Connected, TypeOK
      <3> QED BY <1>0, <3>1, <3>2 DEF Connected, Live, LiveStates, TypeOK
    <2> QED BY <2>1, <2>2
  <1>3. ASSUME UNCHANGED <<child, proc>> PROVE child'[m] = child[m] /\ Connected(m)
    BY <1>3 DEF Connected, Live
  <1>4. ASSUME NEW p \in Projects, CreateChild(p)
        PROVE  nManagers + 1 \in Managers /\ (Fork(nManagers + 1, "create") \/ UNCHANGED <<child, proc>>)
    BY <1>4, BoundsAssumption DEF CreateChild, TypeOK, Managers, BundleMissing, workerVars
  <1>5. ASSUME NEW p \in Projects, RespawnTimer(p) \/ DeleteContext(p) PROVE UNCHANGED <<child, proc>>
    BY <1>5 DEF RespawnTimer, DeleteContext, workerVars
  <1>6. ASSUME NEW n \in Managers, InitTimeout(n) \/ WatchdogKill(n) \/ ShutdownTimeout(n)
        PROVE  Kill(n)
    BY <1>6 DEF InitTimeout, WatchdogKill, ShutdownTimeout
  <1>7. ASSUME NEW n \in Managers, BackoffElapsed(n) PROVE Fork(n, "respawn") \/ UNCHANGED <<child, proc>>
    BY <1>7 DEF BackoffElapsed, BundleMissing, workerVars
  <1>8. ASSUME NEW n \in Managers, DeadCooldown(n) PROVE UNCHANGED <<child, proc>>
    BY <1>8 DEF DeadCooldown, workerVars
  <1>9. ASSUME NEW w \in Workers, HandleReady(w) PROVE UNCHANGED <<child, proc>>
    BY <1>9 DEF HandleReady
  <1>10. ASSUME NEW w \in Workers, NEW inWindow \in BOOLEAN, HandleExit(w, inWindow)
         PROVE  child'[m] = child[m] /\ Connected(m)
    <2>1. owner[w] \in Managers
      BY <1>10, OwnerKnown DEF HandleExit
    <2>2. /\ child' = [child EXCEPT ![owner[w]] = None]
          /\ proc' = [proc EXCEPT ![w] = "gone"]
      BY <1>10, Zenon DEF HandleExit, LoseChild
    <2> QED BY <2>1, <2>2 DEF Connected, Live, LiveStates, TypeOK, None
  <1>11. ASSUME NEW w \in Workers, WorkerReady(w) \/ WorkerInitFails(w) \/ WorkerExit(w)
         PROVE  child'[m] = child[m] /\ Connected(m)
    BY <1>0, <1>11 DEF WorkerReady, WorkerInitFails, WorkerExit, Connected, Live, LiveStates, TypeOK, managerVars
  <1>12. CASE Sigterm
    BY <1>3, <1>12 DEF Sigterm, workerVars
  <1>13. CASE RouterDown
    BY <1>13 DEF RouterDown, Connected
  <1>14. CASE RouterStart
    BY <1>0, <1>14 DEF RouterStart, Connected, Live, LiveStates, TypeOK, managerVars
  <1>15. CASE UNCHANGED vars
    BY <1>3, <1>15 DEF vars, managerVars, workerVars
  <1> QED
    BY <1>1, <1>2, <1>3, <1>4, <1>5, <1>6, <1>7, <1>8, <1>9, <1>10, <1>11, <1>12, <1>13, <1>14, <1>15
    DEF Next, ProjectStep, ManagerStep, WorkerStep
-----------------------------------------------------------------------------
(* ConnectionRelay: its inductive invariant                                *)

\* A ready manager's spawn() has returned; a worker that is yet to be ready is awaited.
ReadyOrAwaited ==
  \A m \in Managers :
    /\ state[m] = "ready" => waiter[m] = "none"
    /\ child[m] # None /\ (proc[child[m]] = "init" \/ readyMsg[child[m]]) => waiter[m] # "none"

\* An open connection belongs to a manager that was registered.
OpenIsServed ==
  /\ ~Serving => wsConns = {}
  /\ \A c \in wsConns : via[c] \in 1..nManagers /\ waiter[via[c]] # "create"

\* A process that was never forked has been sent nothing, and no worker is told that a
\* connection is closed which is not.
InboxesOK ==
  /\ IsFiniteSet(used)
  /\ \A w \in Workers : proc[w] = "none" => inbox[w] = <<>> /\ virtualConns[w] = {}
  /\ \A w \in Workers, c \in wsConns : \A i \in 1..Len(inbox[w]) : inbox[w][i] # Disconnect(c)
  /\ \A w \in Workers, c \in Conns \ used : \A i \in 1..Len(inbox[w]) : inbox[w][i] # Disconnect(c)

\* OpenIsAnnounced.
OpenTold ==
  \A c \in wsConns : state[via[c]] = "ready" /\ Connected(via[c])
    => Told(inbox[child[via[c]]], virtualConns[child[via[c]]], c)

\* ClosedIsForgotten.
ClosedLast ==
  \A c \in used \ wsConns : via[c] # None /\ Connected(via[c])
    => LastWord(inbox[child[via[c]]], virtualConns[child[via[c]]], c)

RelayInv ==
  /\ SupervisionInv /\ ReadyOrAwaited
  /\ RelayTypeOK /\ OpenIsServed /\ InboxesOK
  /\ OpenTold /\ ClosedLast
\* Every step of the supervision keeps ReadyOrAwaited.
LEMMA NextReadyOrAwaited ==
  ASSUME SupervisionInv, ReadyOrAwaited, [Next]_vars
  PROVE  ReadyOrAwaited'
  <1> USE DEF SupervisionInv
  <1>0. ASSUME NEW m \in Managers, child[m] # None PROVE child[m] \in Workers /\ owner[child[m]] = m
    BY <1>0, BoundsAssumption DEF TypeOK, Workers, None, SlotInv
  <1>1. ASSUME NEW n \in Managers, NEW who \in {"create", "respawn"}, Fork(n, who) PROVE ReadyOrAwaited'
    <2>1. nWorkers + 1 \in Workers /\ \A m \in Managers : child[m] # nWorkers + 1
      BY <1>1, ForkFresh
    <2>2. /\ \A m \in Managers \ {n} : child'[m] = child[m] /\ state'[m] = state[m] /\ waiter'[m] = waiter[m]
          /\ state'[n] = "initializing" /\ waiter'[n] = who
          /\ \A w \in Workers \ {nWorkers + 1} : proc'[w] = proc[w] /\ readyMsg'[w] = readyMsg[w]
      BY <1>1, <2>1 DEF Fork, TypeOK
    <2> QED BY <1>0, <2>1, <2>2 DEF ReadyOrAwaited
  <1>2. ASSUME NEW n \in Managers, Kill(n), UNCHANGED readyMsg,
               waiter' = waiter \/ waiter' = [waiter EXCEPT ![n] = "none"]
        PROVE ReadyOrAwaited'
    <2>1. CASE child[n] = None
      BY <1>2, <2>1 DEF Kill, ReadyOrAwaited, TypeOK
    <2>2. CASE child[n] # None
      <3>1. /\ child[n] \in Workers
            /\ \A w \in Workers \ {child[n]} : proc'[w] = proc[w]
            /\ \A m \in Managers \ {n} : child'[m] = child[m] /\ state'[m] = state[m] /\ waiter'[m] = waiter[m]
            /\ child'[n] = None /\ state'[n] = "dead"
        BY <1>2, <2>2, KillProc DEF TypeOK
      <3> QED BY <1>0, <1>2, <2>2, <3>1 DEF ReadyOrAwaited
    <2> QED BY <2>1, <2>2
  <1>3. ASSUME UNCHANGED <<state, child, waiter, proc, readyMsg>> PROVE ReadyOrAwaited'
    BY <1>3 DEF ReadyOrAwaited
  <1>3a. ASSUME NEW n \in Managers, state' = [state EXCEPT ![n] = "spawning"],
                UNCHANGED <<child, waiter, proc, readyMsg>>
         PROVE ReadyOrAwaited'
    BY <1>3a DEF ReadyOrAwaited, TypeOK
  <1>4. ASSUME NEW p \in Projects, CreateChild(p) PROVE ReadyOrAwaited'
    <2>1. nManagers + 1 \in Managers
      BY <1>4, BoundsAssumption DEF CreateChild, TypeOK, Managers
    <2> QED BY <1>1, <1>3a, <1>4, <2>1 DEF CreateChild, BundleMissing, workerVars
  <1>5. ASSUME NEW p \in Projects, RespawnTimer(p) \/ DeleteContext(p) PROVE ReadyOrAwaited'
    BY <1>3, <1>5 DEF RespawnTimer, DeleteContext, workerVars
  <1>6. ASSUME NEW n \in Managers, InitTimeout(n) \/ WatchdogKill(n) \/ ShutdownTimeout(n)
        PROVE ReadyOrAwaited'
    BY <1>2, <1>6 DEF InitTimeout, WatchdogKill, ShutdownTimeout
  <1>7. ASSUME NEW n \in Managers, BackoffElapsed(n) PROVE ReadyOrAwaited'
    BY <1>1, <1>3, <1>3a, <1>7 DEF BackoffElapsed, BundleMissing, workerVars
  <1>8. ASSUME NEW n \in Managers, DeadCooldown(n) PROVE ReadyOrAwaited'
    BY <1>3, <1>8 DEF DeadCooldown, workerVars
  <1>9. ASSUME NEW w \in Workers, HandleReady(w) PROVE ReadyOrAwaited'
    <2>1. /\ owner[w] \in Managers /\ child[owner[w]] \in {None, w}
          /\ proc[w] # "init"
      BY <1>9, OwnerKnown DEF HandleReady, MessagesOK
    <2>2. /\ readyMsg' = [readyMsg EXCEPT ![w] = FALSE]
          /\ state' = [state EXCEPT ![owner[w]] = "ready"]
          /\ waiter' = [waiter EXCEPT ![owner[w]] = "none"]
          /\ UNCHANGED <<child, proc>>
      BY <1>9, Zenon DEF HandleReady
    <2>3. /\ \A v \in Workers : readyMsg'[v] => readyMsg[v] /\ v # w
          /\ \A m \in Managers \ {owner[w]} : state'[m] = state[m] /\ waiter'[m] = waiter[m]
          /\ waiter'[owner[w]] = "none"
      BY <2>1, <2>2 DEF TypeOK
    <2> QED BY <1>0, <2>1, <2>2, <2>3 DEF ReadyOrAwaited
  <1>10. ASSUME NEW w \in Workers, NEW inWindow \in BOOLEAN, HandleExit(w, inWindow)
         PROVE ReadyOrAwaited'
    <2>1. owner[w] \in Managers /\ child[owner[w]] \in {None, w}
      BY <1>10, OwnerKnown DEF HandleExit
    <2>2. /\ child' = [child EXCEPT ![owner[w]] = None]
          /\ state' = [state EXCEPT ![owner[w]] = "dead"]
          /\ waiter' = [waiter EXCEPT ![owner[w]] = "none"]
          /\ proc' = [proc EXCEPT ![w] = "gone"]
          /\ UNCHANGED readyMsg
      BY <1>10, Zenon DEF HandleExit, LoseChild
    <2>3. /\ \A m \in Managers \ {owner[w]} : state'[m] = state[m] /\ waiter'[m] = waiter[m] /\ child'[m] = child[m]
          /\ state'[owner[w]] = "dead" /\ child'[owner[w]] = None
          /\ \A v \in Workers : proc'[v] = "init" => proc[v] = "init"
      BY <2>1, <2>2 DEF TypeOK
    <2> QED BY <1>0, <2>2, <2>3 DEF ReadyOrAwaited
  <1>11. ASSUME NEW w \in Workers, WorkerReady(w) \/ WorkerInitFails(w) \/ WorkerExit(w)
         PROVE ReadyOrAwaited'
    <2>1. /\ \A v \in Workers : proc'[v] = "init" => proc[v] = "init"
          /\ \A v \in Workers : readyMsg'[v] => readyMsg[v] \/ proc[v] = "init"
          /\ UNCHANGED <<state, child, waiter>>
      BY <1>11 DEF WorkerReady, WorkerInitFails, WorkerExit, TypeOK, managerVars
    <2> QED BY <1>0, <2>1 DEF ReadyOrAwaited
  <1>12. CASE Sigterm
    BY <1>3, <1>12 DEF Sigterm, workerVars
  <1>13. CASE RouterDown
    BY <1>13 DEF RouterDown, ReadyOrAwaited
  <1>14. CASE RouterStart
    <2>1. /\ \A v \in Workers : proc'[v] = "init" => proc[v] = "init"
          /\ UNCHANGED <<state, child, waiter, readyMsg>>
      BY <1>14 DEF RouterStart, TypeOK, managerVars
    <2> QED BY <1>0, <2>1 DEF ReadyOrAwaited
  <1>15. CASE UNCHANGED vars
    BY <1>3, <1>15 DEF vars, managerVars, workerVars
  <1> QED
    BY <1>4, <1>5, <1>6, <1>7, <1>8, <1>9, <1>10, <1>11, <1>12, <1>13, <1>14, <1>15
    DEF Next, ProjectStep, ManagerStep, WorkerStep

\* What a step of the supervision does to a manager that was created before: it becomes
\* ready by a message of its worker only, and nobody creates it again.
LEMMA ManagerBefore ==
  ASSUME SupervisionInv, [Next]_vars, NEW m \in Managers, m <= nManagers
  PROVE  /\ m <= nManagers' /\ nManagers' \in Nat
         /\ project'[m] = project[m]
         /\ waiter'[m] = "create" => waiter[m] = "create"
         /\ state'[m] = "ready" => \/ state[m] = "ready"
                                   \/ \E w \in Workers : HandleReady(w) /\ owner[w] = m
  <1> USE DEF SupervisionInv
  <1> DEFINE Kept == /\ project'[m] = project[m]
                     /\ waiter'[m] = "create" => waiter[m] = "create"
                     /\ state'[m] = "ready" => \/ state[m] = "ready"
                                               \/ \E w \in Workers : HandleReady(w) /\ owner[w] = m
  <1>1. ASSUME NEW p \in Projects, CreateChild(p) PROVE Kept
    <2>1. nManagers + 1 \in Managers /\ m # nManagers + 1
      BY <1>1, BoundsAssumption DEF CreateChild, TypeOK, Managers
    <2> QED BY <1>1, <2>1 DEF CreateChild, Fork, BundleMissing, TypeOK
  <1>2. ASSUME NEW p \in Projects, RespawnTimer(p) \/ DeleteContext(p) PROVE Kept
    BY <1>2 DEF RespawnTimer, DeleteContext
  <1>3. ASSUME NEW n \in Managers, InitTimeout(n) \/ WatchdogKill(n) \/ ShutdownTimeout(n) PROVE Kept
    <2>1. Kill(n) /\ project' = project /\ (waiter' = waiter \/ waiter' = [waiter EXCEPT ![n] = "none"])
      BY <1>3 DEF InitTimeout, WatchdogKill, ShutdownTimeout
    <2>2. state' = state \/ state' = [state EXCEPT ![n] = "dead"]
      BY <2>1 DEF Kill
    <2> QED BY <2>1, <2>2 DEF TypeOK
  <1>4. ASSUME NEW n \in Managers, BackoffElapsed(n) PROVE Kept
    BY <1>4 DEF BackoffElapsed, Fork, BundleMissing, TypeOK
  <1>5. ASSUME NEW n \in Managers, DeadCooldown(n) PROVE Kept
    BY <1>5 DEF DeadCooldown
  <1>6. ASSUME NEW w \in Workers, HandleReady(w) PROVE Kept
    <2>1. owner[w] \in Managers
      BY <1>6, OwnerKnown DEF HandleReady
    <2>2. /\ state' = [state EXCEPT ![owner[w]] = "ready"]
          /\ waiter' = [waiter EXCEPT ![owner[w]] = "none"]
          /\ project' = project
      BY <1>6, Zenon DEF HandleReady
    <2> QED BY <1>6, <2>1, <2>2 DEF TypeOK
  <1>7. ASSUME NEW w \in Workers, NEW inWindow \in BOOLEAN, HandleExit(w, inWindow) PROVE Kept
    <2>1. owner[w] \in Managers
      BY <1>7, OwnerKnown DEF HandleExit
    <2>2. /\ state' = [state EXCEPT ![owner[w]] = "dead"]
          /\ waiter' = [waiter EXCEPT ![owner[w]] = "none"]
          /\ project' = project
      BY <1>7, Zenon DEF HandleExit, LoseChild
    <2> QED BY <2>1, <2>2 DEF TypeOK
  <1>8. ASSUME NEW w \in Workers, WorkerReady(w) \/ WorkerInitFails(w) \/ WorkerExit(w) PROVE Kept
    BY <1>8 DEF WorkerReady, WorkerInitFails, WorkerExit, managerVars
  <1>9. Sigterm => Kept
    BY DEF Sigterm
  <1>10. RouterDown => Kept
    BY DEF RouterDown
  <1>11. RouterStart \/ UNCHANGED vars => Kept
    BY DEF RouterStart, vars, managerVars
  <1>12. Kept
    BY <1>1, <1>2, <1>3, <1>4, <1>5, <1>6, <1>7, <1>8, <1>9, <1>10, <1>11
    DEF Next, ProjectStep, ManagerStep, WorkerStep
  <1>13. nManagers' \in Nat /\ nManagers <= nManagers'
    <2>1. nManagers' = nManagers \/ nManagers' = nManagers + 1
      BY DEF Next, ProjectStep, ManagerStep, WorkerStep, CreateChild, RespawnTimer, DeleteContext,
             InitTimeout, WatchdogKill, ShutdownTimeout, BackoffElapsed, DeadCooldown, HandleReady,
             HandleExit, WorkerReady, WorkerInitFails, WorkerExit, Sigterm, RouterDown, RouterStart,
             vars, managerVars
    <2> QED BY <2>1 DEF TypeOK
  <1> QED BY <1>12, <1>13 DEF TypeOK, Managers
\* A process number is used once.
LEMMA NoneBefore ==
  ASSUME SupervisionInv, [Next]_vars, NEW w \in Workers, proc'[w] = "none"
  PROVE  proc[w] = "none"
  <1> USE DEF SupervisionInv
  <1>1. ASSUME NEW n \in Managers, NEW who, Fork(n, who) PROVE proc[w] = "none"
    BY <1>1 DEF Fork, TypeOK
  <1>2. ASSUME NEW n \in Managers, Kill(n) PROVE proc[w] = "none"
    BY <1>2, KillProc DEF TypeOK
  <1>3. ASSUME NEW p \in Projects, CreateChild(p) PROVE proc[w] = "none"
    BY <1>3 DEF CreateChild, Fork, BundleMissing, workerVars, TypeOK
  <1>4. ASSUME NEW p \in Projects, RespawnTimer(p) \/ DeleteContext(p) PROVE proc[w] = "none"
    BY <1>4 DEF RespawnTimer, DeleteContext, workerVars
  <1>5. ASSUME NEW n \in Managers, InitTimeout(n) \/ WatchdogKill(n) \/ ShutdownTimeout(n)
        PROVE  proc[w] = "none"
    BY <1>2, <1>5 DEF InitTimeout, WatchdogKill, ShutdownTimeout
  <1>6. ASSUME NEW n \in Managers, BackoffElapsed(n) PROVE proc[w] = "none"
    BY <1>1, <1>6 DEF BackoffElapsed, BundleMissing, workerVars
  <1>7. ASSUME NEW n \in Managers, DeadCooldown(n) PROVE proc[w] = "none"
    BY <1>7 DEF DeadCooldown, workerVars
  <1>8. ASSUME NEW v \in Workers, HandleReady(v) PROVE proc[w] = "none"
    BY <1>8 DEF HandleReady
  <1>9. ASSUME NEW v \in Workers, NEW inWindow \in BOOLEAN, HandleExit(v, inWindow) PROVE proc[w] = "none"
    <2>1. proc' = [proc EXCEPT ![v] = "gone"]
      BY <1>9, Zenon DEF HandleExit
    <2> QED BY <2>1 DEF TypeOK
  <1>10. ASSUME NEW v \in Workers, WorkerReady(v) \/ WorkerInitFails(v) \/ WorkerExit(v)
         PROVE  proc[w] = "none"
    BY <1>10 DEF WorkerReady, WorkerInitFails, WorkerExit, TypeOK
  <1>11. Sigterm \/ RouterDown \/ RouterStart \/ UNCHANGED vars => proc[w] = "none"
    BY DEF Sigterm, RouterDown, RouterStart, vars, workerVars, TypeOK
  <1> QED
    BY <1>3, <1>4, <1>5, <1>6, <1>7, <1>8, <1>9, <1>10, <1>11
    DEF Next, ProjectStep, ManagerStep, WorkerStep

\* What happens to an inbox while the supervision takes a step: nothing, an announcement of
\* the open connections, or the end of its process.
Delivered(w) ==
  \/ inbox'[w] = inbox[w] /\ virtualConns'[w] = virtualConns[w]
  \/ /\ Live(w)
     /\ \E m \in Managers : inbox'[w] = inbox[w] \o Announced(m)
     /\ virtualConns'[w] = virtualConns[w]
  \/ inbox'[w] = <<>> /\ virtualConns'[w] = {} /\ proc'[w] = "gone"

\* A respawned worker that is ready is announced the connections.
Announces ==
  \A w \in Workers : HandleReady(w) /\ waiter[owner[w]] = "respawn" /\ Connected(owner[w])
    => inbox'[child[owner[w]]] = inbox[child[owner[w]]] \o Announced(owner[w])

\* Such a step keeps the invariant.
LEMMA SupervisionKeeps ==
  ASSUME RelayInv, [Next]_vars, UNCHANGED <<used, wsConns, via, total, outbox>>, Serving => Serving',
         inbox' \in [Workers -> Seq(Messages)], virtualConns' \in [Workers -> SUBSET Conns],
         \A w \in Workers : Delivered(w), Announces
  PROVE  RelayInv'
  <1> USE DEF RelayInv
  <1>1. SupervisionInv' /\ ReadyOrAwaited'
    BY SupervisionInductive, NextReadyOrAwaited
  <1>2. RelayTypeOK'
    BY DEF RelayTypeOK
  <1>3. \A c \in wsConns : via[c] \in Managers /\ via[c] <= nManagers
    BY DEF OpenIsServed, SupervisionInv, TypeOK, Managers, RelayTypeOK
  <1>4. OpenIsServed'
    <2>1. ~Serving' => wsConns' = {}
      BY DEF OpenIsServed
    <2>2. ASSUME NEW c \in wsConns' PROVE via'[c] \in 1..nManagers' /\ waiter'[via'[c]] # "create"
      <3>1. via'[c] = via[c] /\ via[c] \in Managers /\ via[c] <= nManagers /\ waiter[via[c]] # "create"
        BY <1>3 DEF OpenIsServed
      <3>2. via[c] <= nManagers' /\ nManagers' \in Nat /\ waiter'[via[c]] # "create"
        BY <3>1, ManagerBefore
      <3> QED BY <3>1, <3>2 DEF Managers
    <2> QED BY <2>1, <2>2 DEF OpenIsServed
  <1>5. \A m : /\ Announced(m) \in Seq(Messages)
               /\ \A i \in 1..Len(Announced(m)) : \E d \in wsConns : Announced(m)[i] = Connect(d)
               /\ \A c \in ConnsOf(project[m]) : \E i \in 1..Len(Announced(m)) : Announced(m)[i] = Connect(c)
    BY AnnouncedIsOpen DEF InboxesOK, RelayTypeOK
  <1>6. \A w \in Workers : inbox[w] \in Seq(Messages)
    BY DEF RelayTypeOK
  <1>7. InboxesOK'
    <2>1. ASSUME NEW w \in Workers, proc'[w] = "none" PROVE inbox'[w] = <<>> /\ virtualConns'[w] = {}
      <3>1. proc[w] = "none"
        BY <2>1, NoneBefore
      <3> QED BY <2>1, <3>1 DEF InboxesOK, Delivered, Live, LiveStates
    <2>2. ASSUME NEW w \in Workers, NEW c \in Conns, \A i \in 1..Len(inbox[w]) : inbox[w][i] # Disconnect(c),
                 NEW i \in 1..Len(inbox'[w])
          PROVE  inbox'[w][i] # Disconnect(c)
      <3>1. CASE inbox'[w] = inbox[w] \/ inbox'[w] = <<>>
        BY <2>2, <3>1
      <3>2. ASSUME NEW m \in Managers, inbox'[w] = inbox[w] \o Announced(m)
            PROVE  inbox'[w][i] # Disconnect(c)
        <4>1. CASE i <= Len(inbox[w])
          BY <1>5, <1>6, <2>2, <3>2, <4>1
        <4>2. CASE i > Len(inbox[w])
          <5>1. inbox'[w][i] = Announced(m)[i - Len(inbox[w])] /\ i - Len(inbox[w]) \in 1..Len(Announced(m))
            BY <1>5, <1>6, <3>2, <4>2
          <5>2. PICK d \in wsConns : inbox'[w][i] = Connect(d)
            BY <1>5, <5>1
          <5> QED BY <5>2, MessageFacts DEF RelayTypeOK
        <4> QED BY <1>6, <4>1, <4>2
      <3> QED BY <3>1, <3>2 DEF Delivered
    <2> QED BY <2>1, <2>2 DEF InboxesOK, RelayTypeOK
  <1>8. ASSUME NEW w \in Workers, NEW c \in Conns, proc'[w] \in LiveStates
        PROVE  /\ Told(inbox[w], virtualConns[w], c) => Told(inbox'[w], virtualConns'[w], c)
               /\ c \notin wsConns /\ LastWord(inbox[w], virtualConns[w], c)
                    => LastWord(inbox'[w], virtualConns'[w], c)
    <2>1. CASE inbox'[w] = inbox[w] /\ virtualConns'[w] = virtualConns[w]
      BY <2>1
    <2>2. ASSUME NEW m \in Managers, inbox'[w] = inbox[w] \o Announced(m), virtualConns'[w] = virtualConns[w]
          PROVE  /\ Told(inbox[w], virtualConns[w], c) => Told(inbox'[w], virtualConns'[w], c)
                 /\ c \notin wsConns /\ LastWord(inbox[w], virtualConns[w], c)
                      => LastWord(inbox'[w], virtualConns'[w], c)
      <3>1. c \notin wsConns => \A i \in 1..Len(Announced(m)) : Announced(m)[i] # Connect(c)
        BY <1>5, MessageFacts DEF RelayTypeOK
      <3> QED BY <1>5, <1>6, <2>2, <3>1, ToldGrows, LastWordGrows
    <2>3. proc'[w] # "gone"
      BY <1>8 DEF LiveStates
    <2> QED BY <2>1, <2>2, <2>3 DEF Delivered
  <1>9. OpenTold'
    <2>1. SUFFICES ASSUME NEW c \in wsConns, state'[via[c]] = "ready", Connected(via[c])'
                   PROVE  Told(inbox'[child'[via[c]]], virtualConns'[child'[via[c]]], c)
      BY DEF OpenTold
    <2> DEFINE m == via[c]
    <2>2. m \in Managers /\ m <= nManagers /\ c \in Conns /\ waiter[m] # "create"
      BY <1>3 DEF OpenIsServed, RelayTypeOK
    <2>3. child'[m] = child[m] /\ Connected(m)
      BY <2>1, <2>2, ConnectedBefore
    <2>4. child[m] \in Workers /\ proc'[child[m]] \in LiveStates
      BY <2>1, <2>2, <2>3, BoundsAssumption DEF Connected, Live, SupervisionInv, TypeOK, Workers, None
    <2>5. CASE state[m] = "ready"
      BY <1>8, <2>2, <2>3, <2>4, <2>5 DEF OpenTold
    <2>6. ASSUME NEW w \in Workers, HandleReady(w), owner[w] = m
          PROVE  Told(inbox'[child[m]], virtualConns'[child[m]], c)
      <3>1. readyMsg[w] /\ child[m] = w
        BY <2>3, <2>6, OwnerKnown DEF HandleReady, SupervisionInv, Connected
      <3>2. waiter[m] = "respawn"
        BY <2>2, <2>3, <3>1 DEF ReadyOrAwaited, Connected, SupervisionInv, TypeOK, Waiters
      <3>3. inbox'[child[m]] = inbox[child[m]] \o Announced(m)
        BY <2>3, <2>6, <3>2 DEF Announces
      <3>4. PICK i \in 1..Len(Announced(m)) : Announced(m)[i] = Connect(c)
        BY <1>5 DEF ConnsOf
      <3> QED BY <1>5, <1>6, <2>4, <3>3, <3>4, ToldNow
    <2> QED BY <2>1, <2>2, <2>3, <2>5, <2>6, ManagerBefore
  <1>10. ClosedLast'
    <2>1. SUFFICES ASSUME NEW c \in used \ wsConns, via[c] # None, Connected(via[c])'
                   PROVE  LastWord(inbox'[child'[via[c]]], virtualConns'[child'[via[c]]], c)
      BY DEF ClosedLast
    <2> DEFINE m == via[c]
    <2>2. m \in Managers /\ c \in Conns
      BY <2>1, BoundsAssumption DEF RelayTypeOK, Managers, None
    <2>3. child'[m] \in Workers /\ proc'[child'[m]] \in LiveStates
      <3>1. child'[m] \in 0..MaxWorkers
        BY <1>1, <2>2 DEF SupervisionInv, TypeOK
      <3>2. child'[m] # None /\ proc'[child'[m]] \in LiveStates
        BY <2>1 DEF Connected, Live
      <3> QED BY <3>1, <3>2, BoundsAssumption DEF Workers, None
    <2>4. LastWord(inbox[child'[m]], virtualConns[child'[m]], c)
      <3>1. CASE child'[m] = child[m] /\ Connected(m)
        BY <2>1, <2>2, <3>1 DEF ClosedLast
      <3>2. CASE proc[child'[m]] = "none"
        <4>1. inbox[child'[m]] = <<>> /\ virtualConns[child'[m]] = {}
          BY <2>3, <3>2 DEF InboxesOK
        <4> QED BY <4>1 DEF LastWord, Told
      <3> QED BY <2>1, <2>2, <3>1, <3>2, ConnectedBefore
    <2> QED BY <1>8, <2>1, <2>2, <2>3, <2>4
  <1> QED BY <1>1, <1>2, <1>4, <1>7, <1>9, <1>10
\* send() appends to the inbox of the live child, or does nothing.
LEMMA SendAppends ==
  ASSUME TypeOK, RelayTypeOK, NEW m \in Managers, NEW msgs \in Seq(Messages), Send(m, msgs)
  PROVE  /\ inbox' \in [Workers -> Seq(Messages)]
         /\ \A w \in Workers : \/ inbox'[w] = inbox[w]
                               \/ Live(w) /\ inbox'[w] = inbox[w] \o msgs
         /\ Connected(m) => child[m] \in Workers /\ inbox'[child[m]] = inbox[child[m]] \o msgs
  <1>1. CASE Connected(m)
    <2>1. child[m] \in Workers /\ Live(child[m])
      BY <1>1, BoundsAssumption DEF Connected, TypeOK, Workers, None
    <2>2. inbox' = [inbox EXCEPT ![child[m]] = inbox[child[m]] \o msgs]
      BY <1>1 DEF Send
    <2>3. inbox[child[m]] \o msgs \in Seq(Messages)
      BY <2>1, ConcatProperties DEF RelayTypeOK
    <2> QED BY <2>1, <2>2, <2>3 DEF RelayTypeOK
  <1>2. CASE ~Connected(m)
    BY <1>2 DEF Send, RelayTypeOK
  <1> QED BY <1>1, <1>2

\* A socket is accepted for a ready manager, and announced to its worker.
LEMMA WsOpenKeeps ==
  ASSUME RelayInv, NEW c \in Conns, NEW p \in Projects, WsOpen(c, p)
  PROVE  RelayInv'
  <1> USE DEF RelayInv
  <1> DEFINE m == children[p]
  <1>1. /\ c \notin used /\ m # None /\ state[m] = "ready" /\ Serving
        /\ used' = used \union {c} /\ wsConns' = wsConns \union {c}
        /\ via' = [via EXCEPT ![c] = m] /\ total' = total + 1
        /\ Send(m, <<Connect(c)>>)
        /\ UNCHANGED <<vars, outbox, virtualConns>>
    BY DEF WsOpen
  <1>2. m \in Managers /\ m <= nManagers /\ nManagers \in Nat
    BY <1>1, BoundsAssumption DEF SupervisionInv, TypeOK, RecordsOK, Managers, None
  <1>3. SupervisionInv' /\ ReadyOrAwaited'
    BY <1>1, SupervisionInductive, NextReadyOrAwaited
  <1>4. <<Connect(c)>> \in Seq(Messages)
    BY MessageFacts
  <1>5. /\ inbox' \in [Workers -> Seq(Messages)]
        /\ \A w \in Workers : \/ inbox'[w] = inbox[w]
                              \/ Live(w) /\ inbox'[w] = inbox[w] \o <<Connect(c)>>
        /\ Connected(m) => child[m] \in Workers /\ inbox'[child[m]] = inbox[child[m]] \o <<Connect(c)>>
    BY <1>1, <1>2, <1>4, SendAppends DEF SupervisionInv
  <1>6. \A w \in Workers : inbox[w] \in Seq(Messages)
    BY DEF RelayTypeOK
  <1>7. RelayTypeOK'
    BY <1>1, <1>2, <1>5, BoundsAssumption DEF RelayTypeOK, Managers
  <1>8. OpenIsServed'
    <2>1. /\ \A n : waiter'[n] = waiter[n] /\ nManagers' = nManagers
          /\ Serving' = Serving
      BY <1>1 DEF vars, routerVars, managerVars, Serving
    <2>2. m \in 1..nManagers /\ waiter[m] # "create"
      BY <1>1, <1>2 DEF ReadyOrAwaited, Managers
    <2>3. \A d \in wsConns' : via'[d] = IF d = c THEN m ELSE via[d]
      BY <1>1 DEF RelayTypeOK
    <2> QED BY <1>1, <2>1, <2>2, <2>3 DEF OpenIsServed
  <1>9. \A w \in Workers, d \in Conns : \A i \in 1..Len(inbox'[w]) :
            inbox'[w][i] = Disconnect(d) => i \in 1..Len(inbox[w]) /\ inbox[w][i] = Disconnect(d)
    <2>1. ASSUME NEW w \in Workers, NEW d \in Conns, NEW i \in 1..Len(inbox'[w]), inbox'[w][i] = Disconnect(d)
          PROVE  i \in 1..Len(inbox[w]) /\ inbox[w][i] = Disconnect(d)
      <3>1. CASE inbox'[w] = inbox[w] \o <<Connect(c)>>
        <4>1. i \in 1..Len(inbox[w]) \/ (i = Len(inbox[w]) + 1 /\ inbox'[w][i] = Connect(c))
          BY <1>4, <1>6, <3>1
        <4>2. i \in 1..Len(inbox[w])
          BY <2>1, <4>1, MessageFacts
        <4> QED BY <1>4, <1>6, <2>1, <3>1, <4>2
      <3> QED BY <1>5, <2>1, <3>1
    <2> QED BY <2>1
  <1>10. InboxesOK'
    <2>1. IsFiniteSet(used')
      BY <1>1, FS_AddElement DEF InboxesOK
    <2>2. \A w \in Workers : proc'[w] = "none" => inbox'[w] = <<>> /\ virtualConns'[w] = {}
      BY <1>1, <1>5 DEF InboxesOK, Live, LiveStates, vars, workerVars
    <2>3. \A d \in wsConns' : d \in Conns /\ (d \in wsConns \/ d \in Conns \ used)
      BY <1>1 DEF RelayTypeOK
    <2> QED BY <1>1, <1>9, <2>1, <2>2, <2>3 DEF InboxesOK
  <1>11. \A n : Connected(n)' <=> Connected(n)
    BY <1>1 DEF Connected, Live, vars, managerVars, workerVars
  <1>12. \A n : child'[n] = child[n] /\ state'[n] = state[n]
    BY <1>1 DEF vars, managerVars
  <1>13. \A n \in Managers : Connected(n) => child[n] \in Workers
    BY BoundsAssumption DEF Connected, SupervisionInv, TypeOK, Workers, None
  <1>14. OpenTold'
    <2>1. SUFFICES ASSUME NEW d \in wsConns', state[via'[d]] = "ready", Connected(via'[d])
                   PROVE  Told(inbox'[child[via'[d]]], virtualConns[child[via'[d]]], d)
      BY <1>1, <1>11, <1>12 DEF OpenTold
    <2>2. CASE d = c
      <3>1. via'[d] = m
        BY <1>1, <2>2 DEF RelayTypeOK
      <3>2. 1 \in 1..Len(<<Connect(c)>>) /\ <<Connect(c)>>[1] = Connect(d)
        BY <2>2
      <3> QED BY <1>4, <1>5, <1>6, <2>1, <3>1, <3>2, ToldNow
    <2>3. CASE d # c
      <3>1. via'[d] = via[d] /\ d \in wsConns
        BY <1>1, <2>1, <2>3 DEF RelayTypeOK
      <3>2. child[via[d]] \in Workers
        <4>1. via[d] \in Managers
          BY <3>1, BoundsAssumption DEF OpenIsServed, SupervisionInv, TypeOK, Managers
        <4>2. Connected(via[d])
          BY <2>1, <3>1, Zenon
        <4> QED BY <1>13, <4>1, <4>2
      <3>3. Told(inbox[child[via[d]]], virtualConns[child[via[d]]], d)
        BY <2>1, <3>1 DEF OpenTold
      <3> QED BY <1>4, <1>5, <1>6, <3>1, <3>2, <3>3, ToldGrows
    <2> QED BY <2>2, <2>3
  <1>15. ClosedLast'
    <2>1. SUFFICES ASSUME NEW d \in used \ wsConns, via[d] # None, Connected(via[d]), d # c
                   PROVE  LastWord(inbox'[child[via[d]]], virtualConns[child[via[d]]], d)
      <3>1. \A d \in used' \ wsConns' : d \in used \ wsConns /\ d # c /\ via'[d] = via[d]
        BY <1>1 DEF RelayTypeOK
      <3> QED BY <1>1, <1>11, <1>12, <3>1 DEF ClosedLast
    <2>2. via[d] \in Managers /\ d \in Conns
      BY <2>1, BoundsAssumption DEF RelayTypeOK, Managers, None
    <2>3. LastWord(inbox[child[via[d]]], virtualConns[child[via[d]]], d) /\ child[via[d]] \in Workers
      BY <1>13, <2>1, <2>2 DEF ClosedLast
    <2>4. \A i \in 1..Len(<<Connect(c)>>) : <<Connect(c)>>[i] # Connect(d)
      BY <2>1, <2>2, MessageFacts
    <2> QED BY <1>4, <1>5, <1>6, <2>3, <2>4, LastWordGrows
  <1> QED BY <1>3, <1>7, <1>8, <1>10, <1>14, <1>15
\* A socket closes: its manager's worker hears of it last.
LEMMA WsCloseKeeps ==
  ASSUME RelayInv, NEW c \in Conns, WsClose(c)
  PROVE  RelayInv'
  <1> USE DEF RelayInv
  <1> DEFINE m == via[c]
  <1>1. /\ c \in wsConns /\ wsConns' = wsConns \ {c} /\ total' = Clamped(total - 1)
        /\ Send(m, <<Disconnect(c)>>)
        /\ UNCHANGED <<vars, used, via, outbox, virtualConns>>
    BY DEF WsClose
  <1>2. m \in Managers
    BY <1>1, BoundsAssumption DEF SupervisionInv, TypeOK, OpenIsServed, Managers
  <1>3. SupervisionInv' /\ ReadyOrAwaited'
    BY <1>1, SupervisionInductive, NextReadyOrAwaited
  <1>4. <<Disconnect(c)>> \in Seq(Messages)
    BY MessageFacts
  <1>5. /\ inbox' \in [Workers -> Seq(Messages)]
        /\ \A w \in Workers : \/ inbox'[w] = inbox[w]
                              \/ Live(w) /\ inbox'[w] = inbox[w] \o <<Disconnect(c)>>
        /\ Connected(m) => child[m] \in Workers /\ inbox'[child[m]] = inbox[child[m]] \o <<Disconnect(c)>>
    BY <1>1, <1>2, <1>4, SendAppends DEF SupervisionInv
  <1>6. \A w \in Workers : inbox[w] \in Seq(Messages)
    BY DEF RelayTypeOK
  <1>7. RelayTypeOK'
    <2>1. total' \in Nat
      BY <1>1 DEF RelayTypeOK, Clamped
    <2> QED BY <1>1, <1>5, <2>1 DEF RelayTypeOK
  <1>8. OpenIsServed'
    BY <1>1 DEF OpenIsServed, vars, routerVars, managerVars, Serving
  <1>9. ASSUME NEW w \in Workers, NEW d \in Conns, d # c, NEW i \in 1..Len(inbox'[w]),
               inbox'[w][i] = Disconnect(d)
        PROVE  i \in 1..Len(inbox[w]) /\ inbox[w][i] = Disconnect(d)
    <2>1. CASE inbox'[w] = inbox[w] \o <<Disconnect(c)>>
      <3>1. i \in 1..Len(inbox[w]) \/ (i = Len(inbox[w]) + 1 /\ inbox'[w][i] = Disconnect(c))
        BY <1>4, <1>6, <2>1
      <3>2. i \in 1..Len(inbox[w])
        BY <1>9, <3>1, MessageFacts
      <3> QED BY <1>4, <1>6, <1>9, <2>1, <3>2
    <2> QED BY <1>5, <1>9, <2>1
  <1>10. InboxesOK'
    <2>1. \A w \in Workers : proc'[w] = "none" => inbox'[w] = <<>> /\ virtualConns'[w] = {}
      BY <1>1, <1>5 DEF InboxesOK, Live, LiveStates, vars, workerVars
    <2>2. /\ \A d \in wsConns' : d \in Conns /\ d \in wsConns /\ d # c
          /\ \A d \in Conns \ used : d # c
      BY <1>1 DEF RelayTypeOK
    <2> QED BY <1>1, <1>9, <2>1, <2>2 DEF InboxesOK
  <1>11. /\ \A n : Connected(n)' <=> Connected(n)
         /\ \A n : child'[n] = child[n] /\ state'[n] = state[n]
    BY <1>1 DEF Connected, Live, vars, managerVars, workerVars
  <1>12. \A n \in Managers : Connected(n) => child[n] \in Workers
    BY BoundsAssumption DEF Connected, SupervisionInv, TypeOK, Workers, None
  <1>13. OpenTold'
    <2>1. SUFFICES ASSUME NEW d \in wsConns, state[via[d]] = "ready", Connected(via[d])
                   PROVE  Told(inbox'[child[via[d]]], virtualConns[child[via[d]]], d)
      BY <1>1, <1>11 DEF OpenTold
    <2>2. child[via[d]] \in Workers
      BY <1>12, <2>1, BoundsAssumption DEF OpenIsServed, SupervisionInv, TypeOK, Managers
    <2>3. Told(inbox[child[via[d]]], virtualConns[child[via[d]]], d)
      BY <2>1 DEF OpenTold
    <2> QED BY <1>4, <1>5, <1>6, <2>2, <2>3, ToldGrows
  <1>14. ClosedLast'
    <2>1. SUFFICES ASSUME NEW d \in used, d \notin wsConns \/ d = c, via[d] # None, Connected(via[d])
                   PROVE  LastWord(inbox'[child[via[d]]], virtualConns[child[via[d]]], d)
      BY <1>1, <1>11 DEF ClosedLast
    <2>2. via[d] \in Managers /\ d \in Conns
      BY <2>1, BoundsAssumption DEF RelayTypeOK, Managers, None
    <2>3. child[via[d]] \in Workers
      BY <1>12, <2>1, <2>2
    <2>4. CASE d = c
      BY <1>5, <1>6, <2>1, <2>3, <2>4, LastWordSaid
    <2>5. CASE d # c
      <3>1. LastWord(inbox[child[via[d]]], virtualConns[child[via[d]]], d)
        BY <2>1, <2>5 DEF ClosedLast
      <3>2. \A i \in 1..Len(<<Disconnect(c)>>) : <<Disconnect(c)>>[i] # Connect(d)
        BY <2>2, MessageFacts
      <3> QED BY <1>4, <1>5, <1>6, <2>3, <3>1, <3>2, LastWordGrows
    <2> QED BY <2>4, <2>5
  <1> QED BY <1>3, <1>7, <1>8, <1>10, <1>13, <1>14

\* The worker reads a message.
LEMMA WorkerHandlesKeeps ==
  ASSUME RelayInv, NEW w \in Workers, WorkerHandles(w)
  PROVE  RelayInv'
  <1> USE DEF RelayInv
  <1> DEFINE q == inbox[w]
             v == virtualConns[w]
  <1>1. /\ Live(w) /\ q # <<>> /\ q \in Seq(Messages) /\ v \in SUBSET Conns
        /\ inbox' = [inbox EXCEPT ![w] = Tail(q)]
        /\ virtualConns' = [virtualConns EXCEPT ![w] = After(Head(q), v)]
        /\ UNCHANGED <<vars, used, wsConns, via, total>>
    BY DEF WorkerHandles, After, RelayTypeOK
  <1>2. outbox' \in [Workers -> Seq({-1, 1})]
    <2>1. outbox[w] \in Seq({-1, 1})
      BY DEF RelayTypeOK
    <2>2. Append(outbox[w], 1) \in Seq({-1, 1}) /\ Append(outbox[w], -1) \in Seq({-1, 1})
      BY <2>1, AppendProperties
    <2>3. \/ outbox' = [outbox EXCEPT ![w] = Append(outbox[w], 1)]
          \/ outbox' = [outbox EXCEPT ![w] = Append(outbox[w], -1)]
          \/ outbox' = [outbox EXCEPT ![w] = outbox[w]]
      BY DEF WorkerHandles
    <2> QED BY <2>1, <2>2, <2>3 DEF RelayTypeOK
  <1>3. SupervisionInv' /\ ReadyOrAwaited'
    BY <1>1, SupervisionInductive, NextReadyOrAwaited
  <1>4. /\ Tail(q) \in Seq(Messages) /\ Head(q) \in Messages /\ Len(q) \in Nat \ {0}
        /\ \A i \in 1..Len(Tail(q)) : i + 1 \in 1..Len(q) /\ Tail(q)[i] = q[i + 1]
    BY <1>1
  <1>5. After(Head(q), v) \in SUBSET Conns
    BY <1>1, <1>4 DEF After, Messages
  <1>6. /\ inbox'[w] = Tail(q) /\ virtualConns'[w] = After(Head(q), v)
        /\ \A u \in Workers \ {w} : inbox'[u] = inbox[u] /\ virtualConns'[u] = virtualConns[u]
    BY <1>1 DEF RelayTypeOK
  <1> HIDE DEF q, v
  <1>7. RelayTypeOK'
    BY <1>1, <1>2, <1>4, <1>5 DEF RelayTypeOK
  <1>8. OpenIsServed'
    BY <1>1 DEF OpenIsServed, vars, routerVars, managerVars, Serving
  <1>9. ASSUME NEW u \in Workers, NEW c, \A i \in 1..Len(inbox[u]) : inbox[u][i] # Disconnect(c)
        PROVE  \A i \in 1..Len(inbox'[u]) : inbox'[u][i] # Disconnect(c)
    <2>1. CASE u = w
      <3>1. \A i \in 1..Len(q) : q[i] # Disconnect(c)
        BY <1>9, <2>1 DEF q
      <3> QED BY <1>4, <1>6, <2>1, <3>1
    <2>2. CASE u # w
      BY <1>6, <1>9, <2>2
    <2> QED BY <2>1, <2>2
  <1>10. InboxesOK'
    <2>1. \A u \in Workers : proc'[u] = "none" => inbox'[u] = <<>> /\ virtualConns'[u] = {}
      BY <1>1, <1>6 DEF InboxesOK, Live, LiveStates, vars, workerVars
    <2> QED BY <1>1, <1>9, <2>1 DEF InboxesOK
  <1>11. /\ \A n : Connected(n)' <=> Connected(n)
         /\ \A n : child'[n] = child[n] /\ state'[n] = state[n]
    BY <1>1 DEF Connected, Live, vars, managerVars, workerVars
  <1>12. \A n \in Managers : Connected(n) => child[n] \in Workers
    BY BoundsAssumption DEF Connected, SupervisionInv, TypeOK, Workers, None
  <1>13. OpenTold'
    <2>1. SUFFICES ASSUME NEW d \in wsConns, state[via[d]] = "ready", Connected(via[d])
                   PROVE  Told(inbox'[child[via[d]]], virtualConns'[child[via[d]]], d)
      BY <1>1, <1>11 DEF OpenTold
    <2>2. child[via[d]] \in Workers /\ d \in Conns
      BY <1>12, <2>1, BoundsAssumption DEF OpenIsServed, SupervisionInv, TypeOK, Managers, RelayTypeOK
    <2>3. /\ Told(inbox[child[via[d]]], virtualConns[child[via[d]]], d)
          /\ \A i \in 1..Len(q) : q[i] # Disconnect(d)
      BY <2>1 DEF OpenTold, InboxesOK, q
    <2>4. CASE child[via[d]] = w
      BY <1>1, <1>6, <2>2, <2>3, <2>4, ReadingKeeps DEF q, v
    <2> QED BY <1>6, <2>2, <2>3, <2>4
  <1>14. ClosedLast'
    <2>1. SUFFICES ASSUME NEW d \in used \ wsConns, via[d] # None, Connected(via[d])
                   PROVE  LastWord(inbox'[child[via[d]]], virtualConns'[child[via[d]]], d)
      BY <1>1, <1>11 DEF ClosedLast
    <2>2. via[d] \in Managers /\ d \in Conns
      BY <2>1, BoundsAssumption DEF RelayTypeOK, Managers, None
    <2>3. child[via[d]] \in Workers /\ LastWord(inbox[child[via[d]]], virtualConns[child[via[d]]], d)
      BY <1>12, <2>1, <2>2 DEF ClosedLast
    <2>4. CASE child[via[d]] = w
      BY <1>1, <1>6, <2>2, <2>3, <2>4, ReadingKeeps DEF q, v
    <2> QED BY <1>6, <2>3, <2>4
  <1> QED BY <1>3, <1>7, <1>8, <1>10, <1>13, <1>14

\* The Router reads a change of the count.
LEMMA HandleConnectionChangeKeeps ==
  ASSUME RelayInv, NEW w \in Workers, HandleConnectionChange(w)
  PROVE  RelayInv'
  <1> USE DEF RelayInv
  <1>1. UNCHANGED <<vars, used, wsConns, via, inbox, virtualConns>>
    BY DEF HandleConnectionChange
  <1>2. SupervisionInv' /\ ReadyOrAwaited'
    BY <1>1, SupervisionInductive, NextReadyOrAwaited
  <1>3. RelayTypeOK'
    <2>1. outbox[w] \in Seq({-1, 1}) /\ outbox[w] # <<>> /\ total \in Nat
      BY DEF HandleConnectionChange, RelayTypeOK
    <2>2. Head(outbox[w]) \in {-1, 1} /\ Tail(outbox[w]) \in Seq({-1, 1})
      BY <2>1
    <2>3. total' \in Nat
      BY <2>1, <2>2 DEF HandleConnectionChange, Clamped
    <2> QED BY <1>1, <2>2, <2>3 DEF HandleConnectionChange, RelayTypeOK
  <1>4. OpenIsServed' /\ InboxesOK'
    BY <1>1 DEF OpenIsServed, InboxesOK, vars, routerVars, managerVars, workerVars, Serving
  <1>5. OpenTold' /\ ClosedLast'
    BY <1>1 DEF OpenTold, ClosedLast, Connected, Live, vars, managerVars, workerVars
  <1> QED BY <1>2, <1>3, <1>4, <1>5

\* The steps that keep all connections.
LEMMA MessageStays ==
  ASSUME SupervisionInv, SupervisionOnly \/ (\E m \in Managers : BackoffElapsed(m))
            \/ \E w \in Workers : \E inWindow \in BOOLEAN : HandleExit(w, inWindow),
         NEW v \in Workers
  PROVE  ~HandleReady(v)
  <1> SUFFICES ASSUME HandleReady(v) PROVE FALSE
    OBVIOUS
  <1> USE DEF SupervisionInv
  <1>1. readyMsg[v] /\ readyMsg'[v] = FALSE
    BY DEF HandleReady, TypeOK
  <1>2. ASSUME NEW p \in Projects, CreateChild(p) \/ RespawnTimer(p) \/ DeleteContext(p) PROVE readyMsg' = readyMsg
    BY <1>2 DEF CreateChild, Fork, BundleMissing, RespawnTimer, DeleteContext, workerVars
  <1>3. ASSUME NEW m \in Managers,
               InitTimeout(m) \/ WatchdogKill(m) \/ DeadCooldown(m) \/ ShutdownTimeout(m) \/ BackoffElapsed(m)
        PROVE  readyMsg' = readyMsg
    BY <1>3 DEF InitTimeout, WatchdogKill, DeadCooldown, ShutdownTimeout, BackoffElapsed, Fork,
                BundleMissing, workerVars
  <1>4. ASSUME NEW w \in Workers, WorkerReady(w) \/ WorkerInitFails(w) \/ WorkerExit(w)
        PROVE  readyMsg'[v] = readyMsg[v]
    BY <1>1, <1>4 DEF WorkerReady, WorkerInitFails, WorkerExit, MessagesOK, TypeOK
  <1>5. Sigterm => readyMsg' = readyMsg
    BY DEF Sigterm, workerVars
  <1>6. ASSUME NEW w \in Workers, NEW inWindow \in BOOLEAN, HandleExit(w, inWindow) PROVE readyMsg' = readyMsg
    BY <1>6 DEF HandleExit
  <1> QED BY <1>1, <1>2, <1>3, <1>4, <1>5, <1>6 DEF SupervisionOnly, ProjectStep

LEMMA SupervisionOnlyKeeps ==
  ASSUME RelayInv, SupervisionOnly
  PROVE  RelayInv'
  <1>1. [Next]_vars
    BY DEF SupervisionOnly, Next, ProjectStep, ManagerStep, WorkerStep
  <1>2. UNCHANGED relayVars
    BY DEF SupervisionOnly
  <1>3. Serving => Serving'
    BY DEF SupervisionOnly, ProjectStep, CreateChild, RespawnTimer, DeleteContext, InitTimeout,
           WatchdogKill, DeadCooldown, ShutdownTimeout, WorkerReady, WorkerInitFails, WorkerExit,
           Sigterm, Serving, routerVars
  <1>4. Announces
    BY MessageStays DEF Announces, RelayInv
  <1>5. \A w \in Workers : Delivered(w)
    BY <1>2 DEF relayVars, Delivered
  <1> QED BY <1>1, <1>2, <1>3, <1>4, <1>5, SupervisionKeeps DEF relayVars, RelayInv, RelayTypeOK

LEMMA RelayExitKeeps ==
  ASSUME RelayInv, NEW w \in Workers, NEW inWindow \in BOOLEAN, RelayExit(w, inWindow)
  PROVE  RelayInv'
  <1>1. /\ HandleExit(w, inWindow)
        /\ inbox' = [inbox EXCEPT ![w] = <<>>]
        /\ virtualConns' = [virtualConns EXCEPT ![w] = {}]
        /\ UNCHANGED <<used, wsConns, via, total, outbox>>
    BY DEF RelayExit
  <1>2. [Next]_vars
    BY <1>1 DEF Next, WorkerStep
  <1>3. proc' = [proc EXCEPT ![w] = "gone"] /\ router' = router
    BY <1>1, Zenon DEF HandleExit, routerVars
  <1>4. Announces
    BY <1>1, MessageStays DEF Announces, RelayInv
  <1>5. /\ inbox \in [Workers -> Seq(Messages)] /\ virtualConns \in [Workers -> SUBSET Conns]
        /\ proc \in [Workers -> ProcStates]
    BY DEF RelayInv, RelayTypeOK, SupervisionInv, TypeOK
  <1>6. inbox' \in [Workers -> Seq(Messages)] /\ virtualConns' \in [Workers -> SUBSET Conns]
    BY <1>1, <1>5
  <1>7. \A u \in Workers : Delivered(u)
    BY <1>1, <1>3, <1>5 DEF Delivered
  <1> QED BY <1>1, <1>2, <1>3, <1>4, <1>6, <1>7, SupervisionKeeps DEF Serving

\* Announcing is sending to the live child.
LEMMA ReregisterDelivers ==
  ASSUME RelayInv, NEW m \in Managers, Reregister(m), virtualConns' = virtualConns
  PROVE  /\ inbox' \in [Workers -> Seq(Messages)]
         /\ \A w \in Workers : Delivered(w)
         /\ Connected(m) => inbox'[child[m]] = inbox[child[m]] \o Announced(m)
  <1>1. Announced(m) \in Seq(Messages)
    BY AnnouncedIsOpen DEF RelayInv, InboxesOK, RelayTypeOK
  <1>2. Send(m, Announced(m))
    BY DEF Reregister, Announced
  <1> QED BY <1>1, <1>2, SendAppends DEF RelayInv, SupervisionInv, Delivered

LEMMA RelayReadyKeeps ==
  ASSUME RelayInv, NEW w \in Workers, RelayReady(w)
  PROVE  RelayInv'
  <1>1. /\ HandleReady(w) /\ UNCHANGED <<used, wsConns, via, total, outbox, virtualConns>>
        /\ \/ waiter[owner[w]] = "respawn" /\ Reregister(owner[w])
           \/ waiter[owner[w]] # "respawn" /\ UNCHANGED inbox
    BY DEF RelayReady
  <1>2. [Next]_vars
    BY <1>1 DEF Next, WorkerStep
  <1>3. owner[w] \in Managers /\ router' = router
    BY <1>1, OwnerKnown DEF HandleReady, RelayInv, SupervisionInv, routerVars
  <1>4. ASSUME NEW v \in Workers, HandleReady(v) PROVE v = w
    <2>1. readyMsg' = [readyMsg EXCEPT ![w] = FALSE] /\ readyMsg' = [readyMsg EXCEPT ![v] = FALSE] /\ readyMsg[w]
      BY <1>1, <1>4, Zenon DEF HandleReady
    <2> QED BY <2>1 DEF RelayInv, SupervisionInv, TypeOK
  <1>5. /\ inbox' \in [Workers -> Seq(Messages)]
        /\ \A u \in Workers : Delivered(u)
        /\ Announces
    <2>1. CASE waiter[owner[w]] = "respawn" /\ Reregister(owner[w])
      BY <1>1, <1>3, <1>4, <2>1, ReregisterDelivers DEF Announces
    <2>2. CASE waiter[owner[w]] # "respawn" /\ UNCHANGED inbox
      BY <1>1, <1>4, <2>2 DEF Announces, Delivered, RelayInv, RelayTypeOK
    <2> QED BY <1>1, <2>1, <2>2
  <1>6. virtualConns' \in [Workers -> SUBSET Conns]
    BY <1>1 DEF RelayInv, RelayTypeOK
  <1> QED BY <1>1, <1>2, <1>3, <1>5, <1>6, SupervisionKeeps DEF Serving

LEMMA RelayBackoffElapsedKeeps ==
  ASSUME RelayInv, NEW m \in Managers, RelayBackoffElapsed(m)
  PROVE  RelayInv'
  <1>1. /\ BackoffElapsed(m) /\ UNCHANGED <<used, wsConns, via, total, outbox, virtualConns>>
        /\ Reregister(m) \/ UNCHANGED inbox
    BY DEF RelayBackoffElapsed
  <1>2. [Next]_vars /\ router' = router
    BY <1>1 DEF Next, ManagerStep, BackoffElapsed, routerVars
  <1>3. Announces
    BY <1>1, MessageStays DEF Announces, RelayInv
  <1>4. inbox' \in [Workers -> Seq(Messages)] /\ \A w \in Workers : Delivered(w)
    <2>1. CASE UNCHANGED inbox
      BY <1>1, <2>1 DEF Delivered, RelayInv, RelayTypeOK
    <2> QED BY <1>1, <2>1, ReregisterDelivers
  <1>5. virtualConns' \in [Workers -> SUBSET Conns]
    BY <1>1 DEF RelayInv, RelayTypeOK
  <1> QED BY <1>1, <1>2, <1>3, <1>4, <1>5, SupervisionKeeps DEF Serving

\* The Router's sockets die with it ...
LEMMA RelayDownKeeps ==
  ASSUME RelayInv, RelayDown
  PROVE  RelayInv'
  <1> USE DEF RelayInv
  <1>1. /\ RouterDown /\ wsConns' = {} /\ via' = [c \in Conns |-> None] /\ total' = 0
        /\ outbox' = [w \in Workers |-> <<>>] /\ UNCHANGED <<used, inbox, virtualConns>>
    BY DEF RelayDown
  <1>2. [Next]_vars
    BY <1>1 DEF Next
  <1>3. SupervisionInv' /\ ReadyOrAwaited'
    BY <1>2, SupervisionInductive, NextReadyOrAwaited
  <1>4. RelayTypeOK'
    <2>1. outbox' \in [Workers -> Seq({-1, 1})]
      BY <1>1, EmptySeq
    <2> QED BY <1>1, <2>1, BoundsAssumption DEF RelayTypeOK, None
  <1>5. OpenIsServed' /\ OpenTold'
    BY <1>1 DEF OpenIsServed, OpenTold
  <1>6. InboxesOK'
    BY <1>1, <1>2, NoneBefore DEF InboxesOK
  <1>7. ClosedLast'
    BY <1>1 DEF ClosedLast, RelayTypeOK
  <1> QED BY <1>3, <1>4, <1>5, <1>6, <1>7

\* ... and the workers of an earlier Router before the next one listens.
LEMMA RelayStartKeeps ==
  ASSUME RelayInv, RelayStart
  PROVE  RelayInv'
  <1> USE DEF RelayInv
  <1>1. /\ RouterStart /\ inbox' = [w \in Workers |-> <<>>] /\ virtualConns' = [w \in Workers |-> {}]
        /\ UNCHANGED <<used, wsConns, via, total, outbox>>
    BY DEF RelayStart
  <1>2. [Next]_vars
    BY <1>1 DEF Next
  <1>3. SupervisionInv' /\ ReadyOrAwaited'
    BY <1>2, SupervisionInductive, NextReadyOrAwaited
  <1>4. wsConns' = {}
    BY <1>1 DEF OpenIsServed, RouterStart, Serving
  <1>5. RelayTypeOK'
    <2>1. inbox' \in [Workers -> Seq(Messages)]
      BY <1>1, EmptySeq
    <2> QED BY <1>1, <2>1 DEF RelayTypeOK
  <1>6. OpenIsServed' /\ OpenTold'
    BY <1>4 DEF OpenIsServed, OpenTold
  <1>7. InboxesOK'
    BY <1>1 DEF InboxesOK
  <1>8. ClosedLast'
    <2>1. \A m \in Managers : child'[m] = None
      BY <1>1 DEF RouterStart, SupervisionInv, SlotInv, Serving, managerVars
    <2>2. ASSUME NEW c \in used', via'[c] # None PROVE ~Connected(via[c])'
      <3>1. via'[c] \in Managers
        BY <1>5, <2>2, BoundsAssumption DEF RelayTypeOK, Managers, None
      <3> QED BY <2>1, <3>1 DEF Connected
    <2> QED BY <2>2 DEF ClosedLast
  <1> QED BY <1>3, <1>5, <1>6, <1>7, <1>8

LEMMA RelayInductive ==
  /\ RelayInit => RelayInv
  /\ RelayInv /\ [RelayNext]_relayAll => RelayInv'
  <1>1. ASSUME RelayInit PROVE RelayInv
    <2>1. Init /\ SupervisionInv
      BY <1>1, SupervisionInductive DEF RelayInit
    <2>2. ReadyOrAwaited
      BY <2>1 DEF Init, ReadyOrAwaited
    <2>3. RelayTypeOK
      BY <1>1, EmptySeq, BoundsAssumption DEF RelayInit, RelayTypeOK, None
    <2>4. OpenIsServed /\ InboxesOK /\ OpenTold /\ ClosedLast
      BY <1>1, FS_EmptySet DEF RelayInit, OpenIsServed, InboxesOK, OpenTold, ClosedLast
    <2> QED BY <2>1, <2>2, <2>3, <2>4 DEF RelayInv
  <1>2. ASSUME RelayInv, UNCHANGED relayAll PROVE RelayInv'
    <2>1. UNCHANGED vars /\ UNCHANGED relayVars
      BY <1>2 DEF relayAll
    <2>2. SupervisionInv' /\ ReadyOrAwaited'
      BY <1>2, <2>1, SupervisionInductive, NextReadyOrAwaited DEF RelayInv
    <2>3. RelayTypeOK' /\ OpenIsServed' /\ InboxesOK' /\ OpenTold' /\ ClosedLast'
      BY <1>2, <2>1 DEF RelayInv, RelayTypeOK, OpenIsServed, InboxesOK, OpenTold, ClosedLast, Connected,
                        Live, Serving, vars, routerVars, managerVars, workerVars, relayVars
    <2> QED BY <2>2, <2>3 DEF RelayInv
  <1> QED
    BY <1>1, <1>2, WsOpenKeeps, WsCloseKeeps, WorkerHandlesKeeps, HandleConnectionChangeKeeps,
       SupervisionOnlyKeeps, RelayReadyKeeps, RelayExitKeeps, RelayBackoffElapsedKeeps,
       RelayDownKeeps, RelayStartKeeps
    DEF RelayNext, ConnStep

\* Seamless reconnect: the worker of a ready manager knows, or has in its inbox, every
\* connection that is open through the manager, also after crashes and respawns.
THEOREM OpenIsAlwaysAnnounced == RelaySpec => []OpenIsAnnounced
  <1>1. RelayInv => OpenIsAnnounced
    BY DEF RelayInv, OpenTold, OpenIsAnnounced, Told, Pending
  <1> QED
    BY <1>1, RelayInductive, PTL DEF RelaySpec

\* A connection that was closed is forgotten: whatever its worker has heard, or will be
\* announced after a respawn, the last word is that it is closed.
THEOREM ClosedIsAlwaysForgotten == RelaySpec => []ClosedIsForgotten
  <1>1. RelayInv => ClosedIsForgotten
    BY DEF RelayInv, ClosedLast, ClosedIsForgotten, LastWord, Told, Pending
  <1> QED
    BY <1>1, RelayInductive, PTL DEF RelaySpec
=============================================================================
