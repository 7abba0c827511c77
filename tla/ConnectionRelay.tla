-------------------------- MODULE ConnectionRelay ---------------------------
(***************************************************************************)
(* WebSocket connections on top of WorkerSupervisor.  The Router accepts   *)
(* the sockets, keeps them in `wsConnections`, and relays each one to the  *)
(* manager its upgrade handler captured; the worker keeps the connection   *)
(* ids in `virtualConnections`.  Both directions of an IPC channel are     *)
(* first-in first-out.  Every action is an action of WorkerSupervisor      *)
(* together with what the same callback does to the connections, or a      *)
(* step of a connection that leaves the supervision alone.                 *)
(*                                                                         *)
(* ws-message is not modelled: it changes neither the supervision nor the  *)
(* set of connections.                                                     *)
(***************************************************************************)
EXTENDS WorkerSupervisor, Sequences, SequencesExt

CONSTANTS Conns   \* connection ids (randomUUID: none is used twice)

VARIABLES
  used,         \* ids handed out so far
  wsConns,      \* keys of wsConnections
  via,          \* connection -> the manager captured by its handlers
  total,        \* totalConnections
  inbox,        \* worker -> its unread IPC messages
  outbox,       \* worker -> its connection-change deltas not yet read
  virtualConns  \* worker -> virtualConnections of its ProjectContext

relayVars == <<used, wsConns, via, total, inbox, outbox, virtualConns>>
relayAll == <<vars, relayVars>>

Connect(c) == [type |-> "ws-connect", conn |-> c]
Disconnect(c) == [type |-> "ws-disconnect", conn |-> c]
Messages == [type : {"ws-connect", "ws-disconnect"}, conn : Conns]

RelayInit ==
  /\ Init
  /\ used = {}
  /\ wsConns = {}
  /\ via = [c \in Conns |-> None]
  /\ total = 0
  /\ inbox = [w \in Workers |-> <<>>]
  /\ outbox = [w \in Workers |-> <<>>]
  /\ virtualConns = [w \in Workers |-> {}]

-----------------------------------------------------------------------------
\* send(): only through the current child, and only while it is connected.
Connected(m) == child[m] # None /\ Live(child[m])

Send(m, msgs) ==
  inbox' = IF Connected(m) THEN [inbox EXCEPT ![child[m]] = @ \o msgs] ELSE inbox

\* Mutant: no clamp.
Unclamped(n) == n

\* onConnectionChange and the Router's own bookkeeping clamp at zero.
Clamped(n) == IF n < 0 THEN 0 ELSE n

\* Mutant: closed connections stay in wsConnections.
ConnsEverOf(p) == {c \in used : project[via[c]] = p}

ConnsOf(p) == {c \in wsConns : project[via[c]] = p}

\* Mutant: the new worker is told of no connection.
ReregisterNone(m) == UNCHANGED inbox

\* The loop over wsConnections after a successful respawn: every connection
\* of the project is announced, whichever manager serves it.
Reregister(m) ==
  Send(m, [i \in 1..Cardinality(ConnsOf(project[m])) |->
             Connect(SetToSeq(ConnsOf(project[m]))[i])])

-----------------------------------------------------------------------------
\* server.on('upgrade'): getOrCreateChild returned a ready manager.
WsOpen(c, p) ==
  LET m == children[p] IN
  /\ Serving
  /\ c \notin used
  /\ m # None
  /\ state[m] = "ready"
  /\ used' = used \union {c}
  /\ wsConns' = wsConns \union {c}
  /\ via' = [via EXCEPT ![c] = m]
  /\ total' = total + 1
  /\ Send(m, <<Connect(c)>>)
  /\ UNCHANGED <<vars, outbox, virtualConns>>

\* cleanup() on 'close' or 'error': through the captured manager.
WsClose(c) ==
  /\ Serving
  /\ c \in wsConns
  /\ wsConns' = wsConns \ {c}
  /\ total' = Clamped(total - 1)
  /\ Send(via[c], <<Disconnect(c)>>)
  /\ UNCHANGED <<vars, used, via, outbox, virtualConns>>

\* The worker handles ws-connect or ws-disconnect and reports the change.
WorkerHandles(w) ==
  LET msg == Head(inbox[w]) IN
  /\ Live(w)
  /\ inbox[w] # <<>>
  /\ inbox' = [inbox EXCEPT ![w] = Tail(@)]
  /\ IF msg.type = "ws-connect"
     THEN /\ virtualConns' = [virtualConns EXCEPT ![w] = @ \union {msg.conn}]
          /\ outbox' = [outbox EXCEPT ![w] = IF Serving THEN Append(@, 1) ELSE @]
     ELSE /\ virtualConns' = [virtualConns EXCEPT ![w] = @ \ {msg.conn}]
          /\ outbox' = [outbox EXCEPT ![w] = IF Serving THEN Append(@, -1) ELSE @]
  /\ UNCHANGED <<vars, used, wsConns, via, total>>

\* The Router reads a connection-change message.
HandleConnectionChange(w) ==
  /\ Serving
  /\ outbox[w] # <<>>
  /\ total' = Clamped(total + Head(outbox[w]))
  /\ outbox' = [outbox EXCEPT ![w] = Tail(@)]
  /\ UNCHANGED <<vars, used, wsConns, via, inbox, virtualConns>>

-----------------------------------------------------------------------------
\* 'ready' releases respawn(), whose caller announces the connections.
RelayReady(w) ==
  /\ HandleReady(w)
  /\ IF waiter[owner[w]] = "respawn" THEN Reregister(owner[w]) ELSE UNCHANGED inbox
  /\ UNCHANGED <<used, wsConns, via, total, outbox, virtualConns>>

\* A respawn() that finds the manager ready or starting succeeds at once and
\* announces the connections too.
RelayBackoffElapsed(m) ==
  /\ BackoffElapsed(m)
  /\ IF state[m] \in {"ready", "initializing"} THEN Reregister(m) ELSE UNCHANGED inbox
  /\ UNCHANGED <<used, wsConns, via, total, outbox, virtualConns>>

\* A worker's messages are read before its exit event.
RelayExit(w, inWindow) ==
  /\ HandleExit(w, inWindow)
  /\ outbox[w] = <<>>
  /\ inbox' = [inbox EXCEPT ![w] = <<>>]
  /\ virtualConns' = [virtualConns EXCEPT ![w] = {}]
  /\ UNCHANGED <<used, wsConns, via, total, outbox>>

\* The Router's sockets and counters die with it; the workers' inboxes stay.
RelayDown ==
  /\ RouterDown
  /\ wsConns' = {}
  /\ via' = [c \in Conns |-> None]
  /\ total' = 0
  /\ outbox' = [w \in Workers |-> <<>>]
  /\ UNCHANGED <<used, inbox, virtualConns>>

RelayStart ==
  /\ RouterStart
  /\ inbox' = [w \in Workers |-> <<>>]
  /\ virtualConns' = [w \in Workers |-> {}]
  /\ UNCHANGED <<used, wsConns, via, total, outbox>>

\* Steps of the supervision that no connection notices.
SupervisionOnly ==
  /\ \/ ProjectStep
     \/ \E m \in Managers : InitTimeout(m) \/ WatchdogKill(m)
                            \/ DeadCooldown(m) \/ ShutdownTimeout(m)
     \/ \E w \in Workers : WorkerReady(w) \/ WorkerInitFails(w) \/ WorkerExit(w)
     \/ Sigterm
  /\ UNCHANGED relayVars

ConnStep ==
  \/ \E c \in Conns : WsClose(c) \/ \E p \in Projects : WsOpen(c, p)
  \/ \E w \in Workers : WorkerHandles(w) \/ HandleConnectionChange(w)

RelayNext ==
  \/ ConnStep
  \/ SupervisionOnly
  \/ \E w \in Workers :
       RelayReady(w) \/ \E inWindow \in BOOLEAN : RelayExit(w, inWindow)
  \/ \E m \in Managers : RelayBackoffElapsed(m)
  \/ RelayDown
  \/ RelayStart

RelaySpec == RelayInit /\ [][RelayNext]_relayAll

-----------------------------------------------------------------------------
RelayTypeOK ==
  /\ used \subseteq Conns
  /\ wsConns \subseteq used
  /\ via \in [Conns -> 0..MaxManagers]
  /\ total \in Nat
  /\ inbox \in [Workers -> Seq(Messages)]
  /\ outbox \in [Workers -> Seq({-1, 1})]
  /\ virtualConns \in [Workers -> SUBSET Conns]

Pending(w, msg) == \E i \in 1..Len(inbox[w]) : inbox[w][i] = msg

\* Seamless reconnect: as soon as a manager is ready, its worker knows, or has
\* been told of, every connection opened through it, also after a respawn.
OpenIsAnnounced ==
  \A c \in wsConns : LET m == via[c] IN
    state[m] = "ready" /\ Connected(m)
      => c \in virtualConns[child[m]] \/ Pending(child[m], Connect(c))

\* A closed connection is forgotten by the worker of the manager it was
\* opened through: no announcement of it outlives its ws-disconnect.  (And the count
\* of connections is never negative.)
ClosedIsForgotten ==
  /\ RelayTypeOK
  /\ \A c \in used \ wsConns : LET m == via[c] IN
       m # None /\ Connected(m) =>
         LET w == child[m]
             known == c \in virtualConns[w] \/ Pending(w, Connect(c))
             after(i) == \A j \in i+1..Len(inbox[w]) : inbox[w][j] # Connect(c)
         IN known => \E i \in 1..Len(inbox[w]) :
                       inbox[w][i] = Disconnect(c) /\ after(i)

(* What the documentation says and the code does not do                    *)

\* "Total WebSocket connection count (for status reporting)": equal to the
\* open connections once no connection-change message is in flight.
TotalIsConnectionCount ==
  Serving /\ (\A w \in Workers : inbox[w] = <<>> /\ outbox[w] = <<>>)
    => total = Cardinality(wsConns)
=============================================================================
