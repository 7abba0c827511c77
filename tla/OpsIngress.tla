----------------------------- MODULE OpsIngress -----------------------------
(***************************************************************************)
(* Platform lifecycle events on their way into the ops project's workflow  *)
(* engine (emitToOpsProject), on top of WorkerSupervisor: the Router emits *)
(* worker:spawning, worker:ready and worker:exited from the callbacks that *)
(* supervise every worker, the ops project's own included.                 *)
(*                                                                         *)
(* An event is its position in the order of emission.  What was handed to  *)
(* sendIngressEvent is kept with the process send() wrote it to, None when *)
(* the manager had lost its child and the event was dropped.               *)
(***************************************************************************)
EXTENDS WorkerSupervisor, Sequences

CONSTANTS OpsProject   \* OPS_PROJECT_ID

ASSUME OpsProjectAssumption == OpsProject \in Projects

VARIABLES
  emitted,    \* events emitted since this Router started
  opsBuffer,  \* pendingOpsEvents
  sent        \* [event, to] of every sendIngressEvent, in order

opsVars == <<emitted, opsBuffer, sent>>
opsAll == <<vars, opsVars>>

OpsInit == Init /\ emitted = 0 /\ opsBuffer = <<>> /\ sent = <<>>

\* The manager `children` holds for the ops project.
OpsManager == children[OpsProject]

\* Mutant: every registered manager is taken for ready.
OpsReadyRegistered == OpsManager # None

OpsReady == OpsManager # None /\ state[OpsManager] = "ready"

\* sendIngressEvent: a manager without a child drops the event.
SendTo(events) ==
  [i \in 1..Len(events) |-> [event |-> events[i], to |-> child[OpsManager]]]

\* Mutant: the new event overtakes the buffered ones.
DrainedAfter(event) == <<event>> \o opsBuffer

\* The buffered events first, then the new one.
Drained(event) == Append(opsBuffer, event)

\* emitToOpsProject: `ready` is isReady of the ops project's manager when the
\* callback emits.
Emit(ready) ==
  LET event == emitted + 1 IN
  /\ emitted' = event
  /\ \/ /\ ready
        /\ sent' = sent \o SendTo(Drained(event))
        /\ opsBuffer' = <<>>
     \/ /\ ~ready
        /\ opsBuffer' = Append(opsBuffer, event)
        /\ UNCHANGED sent

-----------------------------------------------------------------------------
\* getOrCreateChild emits worker:spawning before it creates the manager.
OpsCreate(p) == CreateChild(p) /\ Emit(OpsReady)

\* onReady runs inside handleChildMessage: this manager is ready already, and
\* a first spawn is not in `children` yet.
OpsHandleReady(w) ==
  /\ HandleReady(w)
  /\ Emit(OpsManager = owner[w] \/ OpsReady)

\* onExit runs when the manager is dead already.
OpsHandleExit(w, inWindow) ==
  /\ HandleExit(w, inWindow)
  /\ Emit(OpsReady /\ OpsManager # owner[w])

OpsRouterDown ==
  RouterDown /\ emitted' = 0 /\ opsBuffer' = <<>> /\ sent' = <<>>

OpsSilent ==
  /\ \/ \E p \in Projects : RespawnTimer(p) \/ DeleteContext(p)
     \/ ManagerStep
     \/ \E w \in Workers : WorkerReady(w) \/ WorkerInitFails(w) \/ WorkerExit(w)
     \/ Sigterm
     \/ RouterStart
  /\ UNCHANGED opsVars

OpsNext ==
  \/ \E p \in Projects : OpsCreate(p)
  \/ \E w \in Workers :
       OpsHandleReady(w) \/ \E inWindow \in BOOLEAN : OpsHandleExit(w, inWindow)
  \/ OpsRouterDown
  \/ OpsSilent

OpsSpec == OpsInit /\ [][OpsNext]_opsAll

-----------------------------------------------------------------------------
\* No event is forgotten, repeated or reordered on the Router's side of the
\* IPC channel, however the ops project's worker comes and goes.
EventsKeepOrder ==
  [i \in 1..Len(sent) |-> sent[i].event] \o opsBuffer = [i \in 1..emitted |-> i]

\* Buffering is for the time without a worker: an event is dropped only in the
\* moment between the kill of the ops project's worker and its exit event.
EventsReachAWorker ==
  [][\A i \in Len(sent)+1..Len(sent') :
       sent'[i].to = None => ~Reaped(OpsManager)]_opsAll
=============================================================================
