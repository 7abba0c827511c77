---------------------------- MODULE ClientSession ----------------------------
(***************************************************************************)
(* A browser tab's session with the workspace server: the singleton of     *)
(* workspace-connection.ts, the terminal store that drives it, and the     *)
(* routing of the REST calls (rest-transport.ts), under an instance that   *)
(* may not start, a network that drops sockets and a user who switches     *)
(* projects.  Requests in flight and sockets have an identity: nothing in  *)
(* the code says which of them an answer or an event still concerns.       *)
(*                                                                         *)
(* A socket that is refused (503, 401) closes before it opened.            *)
(***************************************************************************)
EXTENDS Naturals, Sequences, FiniteSets, SequencesExt

CONSTANTS
    Projects,
    Calls, Sockets,        \* bounds: connect() calls and sockets at one time
    MAX_RECONNECT_ATTEMPTS,
    BufferMax,             \* inputs the terminal keeps while it reconnects
    MaxTyped,              \* bound: inputs
    MaxHurries             \* bound: times the user does not wait

ASSUME SessionBounds == {MAX_RECONNECT_ATTEMPTS, BufferMax, MaxTyped, MaxHurries} \subseteq Nat

None == "none"
ASSUME NoneIsNew == None \notin Projects \union Sockets

VARIABLES
    (* WorkspaceConnection *)
    state, projectId, sessionToken,   \* sessionToken: whether it is set
    ws, reconnectAttempt, intentionalDisconnect, keepalive,
    reconnectTimer,  \* the timer it would clear is pending
    strayTimers,     \* timers pending whose handle was overwritten
    calls, sockets,
    activeWorkspaces, \* rest-transport.ts
    (* the stores *)
    connectionState, storeProject, inputBuffer,
    currentProject, workspaceReady,
    (* the inputs *)
    typed, sent,
    hurries,         \* ghost: times the user did not wait until everything had settled
    closes           \* ghost: sockets closed since one opened

connVars == <<state, projectId, sessionToken, ws, reconnectAttempt, intentionalDisconnect,
              keepalive, reconnectTimer, strayTimers>>
terminalVars == <<connectionState, inputBuffer, workspaceReady, sent>>
userVars == <<storeProject, currentProject, typed, hurries>>
vars == <<connVars, calls, sockets, activeWorkspaces, terminalVars, userVars, closes>>

Idle == [stage |-> None, project |-> None]
Init ==
    /\ state = "DISCONNECTED" /\ projectId = None /\ sessionToken = FALSE
    /\ ws = None /\ reconnectAttempt = 0 /\ intentionalDisconnect = FALSE
    /\ keepalive = FALSE /\ reconnectTimer = FALSE /\ strayTimers = 0
    /\ calls = [c \in Calls |-> Idle] /\ sockets = [s \in Sockets |-> Idle]
    /\ activeWorkspaces = {}
    /\ connectionState = "disconnected" /\ storeProject = None /\ inputBuffer = <<>>
    /\ currentProject = None /\ workspaceReady = FALSE
    /\ typed = 0 /\ sent = <<>> /\ hurries = 0 /\ closes = 0

InFlight == {c \in Calls : calls[c].stage # None}
InUse == {s \in Sockets : sockets[s].stage # None}
Pending == strayTimers + (IF reconnectTimer THEN 1 ELSE 0)

-----------------------------------------------------------------------------
(* setState, and the terminal store that listens to it *)

Mute == UNCHANGED terminalVars

\* Mutant: the buffer is sent and kept.
ConnectedKeeping ==
    /\ connectionState' = "connected" /\ workspaceReady' = TRUE
    /\ sent' = sent \o inputBuffer /\ UNCHANGED inputBuffer

\* The inputs typed meanwhile go out before any other.
Connected ==
    /\ connectionState' = "connected" /\ workspaceReady' = TRUE
    /\ sent' = sent \o inputBuffer /\ inputBuffer' = <<>>

Reconnecting ==
    /\ connectionState' = IF connectionState = "connected" THEN "reconnecting" ELSE connectionState
    /\ UNCHANGED <<inputBuffer, workspaceReady, sent>>

Disconnected ==
    /\ connectionState' = "disconnected" /\ workspaceReady' = FALSE
    /\ UNCHANGED <<inputBuffer, sent>>

\* setState tells nobody when nothing changes.
SetState(new) ==
    /\ state' = new
    /\ \/ new = state /\ Mute
       \/ new # state /\ new = "CONNECTED" /\ Connected
       \/ new # state /\ new = "PENDING" /\ Reconnecting
       \/ new # state /\ new = "DISCONNECTED" /\ Disconnected

Hurry(unsettled) ==
    /\ unsettled => hurries < MaxHurries
    /\ hurries' = IF unsettled THEN hurries + 1 ELSE hurries

Patient == hurries = 0

\* Sockets after ws.close() of the current one: its close event is still to come.
Closing(s) == IF s = None THEN sockets ELSE [sockets EXCEPT ![s].stage = "closing"]

CleanupConnection ==
    /\ reconnectTimer' = FALSE /\ keepalive' = FALSE /\ reconnectAttempt' = 0
    /\ ws' = None /\ sockets' = Closing(ws)
    /\ UNCHANGED strayTimers

-----------------------------------------------------------------------------
(* connect *)

\* connect() of the store and of the connection.  The store is at "starting", and stays
\* there when the connection finds itself connected.
DoConnect(p) ==
    /\ connectionState' = "starting" /\ storeProject' = p /\ inputBuffer' = <<>>
    /\ IF state = "CONNECTED" /\ projectId = p
         THEN UNCHANGED <<connVars, calls, sockets>>
         ELSE /\ \E c \in Calls \ InFlight :
                    calls' = [calls EXCEPT ![c] = [stage |-> "starting", project |-> p]]
              /\ CleanupConnection
              /\ projectId' = p /\ sessionToken' = FALSE
              /\ intentionalDisconnect' = FALSE /\ state' = "PENDING"
    /\ Hurry(InFlight # {} \/ InUse # {})
    /\ closes' = 0
    /\ UNCHANGED <<activeWorkspaces, sent, typed>>

Connect ==
    /\ currentProject # None /\ connectionState \in {"disconnected", "error"}
    /\ DoConnect(currentProject)
    /\ UNCHANGED <<currentProject, workspaceReady>>

\* selectProject, and the effect of the main layout.
OpenProject(p) ==
    /\ currentProject = None
    /\ currentProject' = p /\ workspaceReady' = FALSE
    /\ \/ /\ connectionState \in {"disconnected", "error"} \/ storeProject # p
          /\ DoConnect(p)
       \/ /\ connectionState \notin {"disconnected", "error"} /\ storeProject = p
          /\ UNCHANGED <<connVars, calls, sockets, activeWorkspaces, connectionState, inputBuffer,
                         sent, storeProject, typed, hurries, closes>>

OpenWebSocket(p, unused) ==
    \E s \in unused : sockets' = [sockets EXCEPT ![s] = [stage |-> "connecting", project |-> p]]

\* Mutant: only a poll sets the token.
StartAnswersTokenless(c) ==
    /\ calls[c].stage = "starting"
    /\ \/ calls' = [calls EXCEPT ![c].stage = "polling"] /\ UNCHANGED sockets
       \/ calls' = [calls EXCEPT ![c] = Idle] /\ OpenWebSocket(calls[c].project, Sockets \ InUse)
    /\ UNCHANGED <<connVars, activeWorkspaces, terminalVars, userVars, closes>>

\* What connect() awaited says that the instance runs, or that it does not yet.
StartAnswers(c) ==
    /\ calls[c].stage = "starting"
    /\ sessionToken' = TRUE
    /\ \/ calls' = [calls EXCEPT ![c].stage = "polling"] /\ UNCHANGED sockets
       \/ calls' = [calls EXCEPT ![c] = Idle] /\ OpenWebSocket(calls[c].project, Sockets \ InUse)
    /\ UNCHANGED <<state, projectId, ws, reconnectAttempt, intentionalDisconnect, keepalive,
                   reconnectTimer, strayTimers, activeWorkspaces, terminalVars, userVars, closes>>

\* connect() throws out of PENDING, and leaves it so.
StartFails(c) ==
    /\ calls[c].stage = "starting"
    /\ calls' = [calls EXCEPT ![c] = Idle]
    /\ connectionState' = "error"
    /\ UNCHANGED <<connVars, sockets, activeWorkspaces, inputBuffer, workspaceReady, sent, userVars, closes>>

PollEnds(c) ==
    /\ calls[c].stage = "polling"
    /\ calls' = [calls EXCEPT ![c] = Idle]
    /\ OpenWebSocket(calls[c].project, Sockets \ InUse)
    /\ sessionToken' = TRUE
    /\ UNCHANGED <<state, projectId, ws, reconnectAttempt, intentionalDisconnect, keepalive,
                   reconnectTimer, strayTimers, activeWorkspaces, terminalVars, userVars, closes>>

\* 180 polls: DISCONNECTED, then the error of the store.
PollGivesUp(c) ==
    /\ calls[c].stage = "polling"
    /\ calls' = [calls EXCEPT ![c] = Idle]
    /\ state' = "DISCONNECTED" /\ connectionState' = "error"
    /\ workspaceReady' = (workspaceReady /\ state = "DISCONNECTED")
    /\ UNCHANGED <<projectId, sessionToken, ws, reconnectAttempt, intentionalDisconnect, keepalive,
                   reconnectTimer, strayTimers, sockets, activeWorkspaces, inputBuffer, sent, userVars, closes>>

-----------------------------------------------------------------------------
(* The socket *)

\* Mutant: only a successful connect() resets the count.
OnOpenCounting(s) ==
    /\ sockets[s].stage = "connecting"
    /\ sockets' = [sockets EXCEPT ![s].stage = "open"]
    /\ ws' = s /\ keepalive' = TRUE
    /\ activeWorkspaces' = activeWorkspaces \union {sockets[s].project}
    /\ SetState("CONNECTED")
    /\ closes' = 0
    /\ UNCHANGED <<projectId, sessionToken, intentionalDisconnect, reconnectTimer, strayTimers,
                   calls, userVars, reconnectAttempt>>

OnOpen(s) ==
    /\ sockets[s].stage = "connecting"
    /\ sockets' = [sockets EXCEPT ![s].stage = "open"]
    /\ ws' = s /\ reconnectAttempt' = 0 /\ keepalive' = TRUE
    /\ activeWorkspaces' = activeWorkspaces \union {sockets[s].project}
    /\ SetState("CONNECTED")
    /\ closes' = 0
    /\ UNCHANGED <<projectId, sessionToken, intentionalDisconnect, reconnectTimer, strayTimers,
                   calls, userVars>>

\* Mutant: the route outlives the last attempt.
AttemptReconnectKeepsRoute ==
    IF reconnectAttempt >= MAX_RECONNECT_ATTEMPTS
      THEN /\ SetState("DISCONNECTED")
           /\ reconnectAttempt' = 0
           /\ UNCHANGED <<reconnectTimer, strayTimers, activeWorkspaces>>
      ELSE /\ reconnectAttempt' = reconnectAttempt + 1
           /\ SetState("PENDING")
           /\ reconnectTimer' = TRUE
           /\ strayTimers' = Pending
           /\ UNCHANGED activeWorkspaces

\* Mutant: the timer is armed before anybody is told, and nobody is.
AttemptReconnectUntold ==
    IF reconnectAttempt >= MAX_RECONNECT_ATTEMPTS
      THEN /\ activeWorkspaces' = activeWorkspaces \ {projectId}
           /\ SetState("DISCONNECTED")
           /\ reconnectAttempt' = 0
           /\ UNCHANGED <<reconnectTimer, strayTimers>>
      ELSE /\ reconnectAttempt' = reconnectAttempt + 1
           /\ reconnectTimer' = TRUE
           /\ strayTimers' = Pending
           /\ UNCHANGED <<state, terminalVars, activeWorkspaces>>

\* A timer that is armed while another is pending takes its handle.
AttemptReconnect ==
    IF reconnectAttempt >= MAX_RECONNECT_ATTEMPTS
      THEN /\ activeWorkspaces' = activeWorkspaces \ {projectId}
           /\ SetState("DISCONNECTED")
           /\ reconnectAttempt' = 0
           /\ UNCHANGED <<reconnectTimer, strayTimers>>
      ELSE /\ reconnectAttempt' = reconnectAttempt + 1
           /\ SetState("PENDING")
           /\ reconnectTimer' = TRUE
           /\ strayTimers' = Pending
           /\ UNCHANGED activeWorkspaces

\* ws is dropped whichever socket closed.  The close code is 1000 only for a socket that
\* cleanupConnection closed and whose closing handshake came through.
OnClose(s) ==
    /\ sockets[s].stage # None
    /\ sockets' = [sockets EXCEPT ![s] = Idle]
    /\ keepalive' = FALSE /\ ws' = None
    /\ \/ /\ intentionalDisconnect
          /\ UNCHANGED <<state, reconnectAttempt, reconnectTimer, strayTimers, activeWorkspaces, terminalVars>>
       \/ /\ ~intentionalDisconnect
          /\ AttemptReconnect
       \/ /\ ~intentionalDisconnect /\ sockets[s].stage = "closing"
          /\ SetState("DISCONNECTED")
          /\ UNCHANGED <<reconnectAttempt, reconnectTimer, strayTimers, activeWorkspaces>>
    /\ closes' = IF closes > MAX_RECONNECT_ATTEMPTS THEN closes ELSE closes + 1
    /\ UNCHANGED <<projectId, sessionToken, intentionalDisconnect, calls, userVars>>

TimerFires ==
    /\ \/ reconnectTimer /\ reconnectTimer' = FALSE /\ UNCHANGED strayTimers
       \/ strayTimers > 0 /\ strayTimers' = strayTimers - 1 /\ UNCHANGED reconnectTimer
    /\ IF sessionToken /\ ~intentionalDisconnect
         THEN OpenWebSocket(projectId, Sockets \ InUse)
         ELSE UNCHANGED sockets
    /\ UNCHANGED <<state, projectId, sessionToken, ws, reconnectAttempt, intentionalDisconnect,
                   keepalive, calls, activeWorkspaces, terminalVars, userVars, closes>>

\* Mutant: the client does not wait for the close event.
KeepaliveTimeoutReconnects ==
    /\ keepalive /\ ws # None /\ sockets[ws].stage = "open"
    /\ sockets' = [sockets EXCEPT ![ws].stage = "lapsed"]
    /\ AttemptReconnect
    /\ UNCHANGED <<projectId, sessionToken, ws, intentionalDisconnect, keepalive, calls, userVars, closes>>

\* No pong for 45 s: closed with code 4000.
KeepaliveTimeout ==
    /\ keepalive /\ ws # None /\ sockets[ws].stage = "open"
    /\ sockets' = [sockets EXCEPT ![ws].stage = "lapsed"]
    /\ UNCHANGED <<connVars, calls, activeWorkspaces, terminalVars, userVars, closes>>

-----------------------------------------------------------------------------
(* The user *)

\* disconnect() of the connection and of the store.
DoDisconnect ==
    /\ intentionalDisconnect' = TRUE
    /\ CleanupConnection
    /\ activeWorkspaces' = activeWorkspaces \ {projectId}
    /\ state' = "DISCONNECTED"
    /\ connectionState' = "disconnected" /\ inputBuffer' = <<>>
    /\ Hurry(InFlight # {} \/ \E s \in InUse : sockets[s].stage = "connecting")
    /\ UNCHANGED <<projectId, sessionToken, calls, sent, storeProject, typed, closes>>

Disconnect ==
    /\ connectionState \in {"connected", "reconnecting"}
    /\ DoDisconnect
    /\ workspaceReady' = (workspaceReady /\ state = "DISCONNECTED")
    /\ UNCHANGED currentProject

\* Back to the list of projects, or on the way to another: disconnect, clearProject.
LeaveProject ==
    /\ currentProject # None
    /\ DoDisconnect
    /\ currentProject' = None /\ workspaceReady' = FALSE

\* A send on a socket that is not open is dropped.
Type ==
    /\ typed < MaxTyped /\ connectionState \in {"connected", "reconnecting"}
    /\ typed' = typed + 1
    /\ sent' = IF connectionState = "connected" /\ ws # None /\ sockets[ws].stage = "open"
                 THEN Append(sent, typed') ELSE sent
    /\ inputBuffer' = IF connectionState = "reconnecting" /\ Len(inputBuffer) < BufferMax
                        THEN Append(inputBuffer, typed') ELSE inputBuffer
    /\ UNCHANGED <<connVars, calls, sockets, activeWorkspaces, connectionState, workspaceReady,
                   storeProject, currentProject, hurries, closes>>

-----------------------------------------------------------------------------
Answer(c) == StartAnswers(c) \/ StartFails(c) \/ PollEnds(c) \/ PollGivesUp(c)

\* A socket that is being opened or closed, one way or the other.
Settle(s) == sockets[s].stage # "open" /\ (OnOpen(s) \/ OnClose(s))

Next ==
    \/ Connect \/ Disconnect \/ LeaveProject \/ \E p \in Projects : OpenProject(p)
    \/ \E c \in Calls : Answer(c)
    \/ \E s \in Sockets : OnOpen(s) \/ OnClose(s)
    \/ TimerFires \/ KeepaliveTimeout \/ Type

Spec == Init /\ [][Next]_vars

\* Requests are answered or fail, polling ends after 180 s, the browser delivers its
\* events and runs its timers.  Nothing is assumed of the user, nor of the network.
Fairness ==
    /\ \A c \in Calls : WF_vars(Answer(c))
    /\ \A s \in Sockets : WF_vars(Settle(s))
    /\ WF_vars(TimerFires)

FairSpec == Spec /\ Fairness

-----------------------------------------------------------------------------
(* Properties *)

\* Types; retries never exceed their limit, nor the buffer its size.
SessionTypeOK ==
    /\ state \in {"CONNECTED", "DISCONNECTED", "PENDING"}
    /\ connectionState \in {"disconnected", "starting", "connected", "reconnecting", "error"}
    /\ \A s \in InUse : sockets[s].stage \in {"connecting", "open", "closing", "lapsed"}
                        /\ sockets[s].project \in Projects
    /\ \A c \in InFlight : calls[c].stage \in {"starting", "polling"} /\ calls[c].project \in Projects
    /\ ws \in Sockets \union {None} /\ activeWorkspaces \subseteq Projects
    /\ reconnectAttempt \in 0..MAX_RECONNECT_ATTEMPTS /\ Len(inputBuffer) <= BufferMax
    /\ strayTimers \in Nat

\* A user who lets every operation settle before the next one never gets a second
\* session: at any time one request, one socket or one timer is on its way, whatever the
\* network does between a keepalive that gives up, a close event and a retry.  The types and
\* limits hold for every user.
OneSession ==
    /\ SessionTypeOK
    /\ Patient => Cardinality(InFlight) + Cardinality(InUse) + Pending <= 1

\* To such a user the terminal says "connected" exactly while a socket is up, that is from
\* its open event to its close event (the keepalive may have closed it in between); it is
\* the socket of the project on the screen, and the keepalive watches it.
Up == {s \in Sockets : sockets[s].stage \in {"open", "lapsed"}}
ConnectedIsReal ==
    Patient =>
        /\ connectionState = "connected" <=> Up # {}
        /\ state = "CONNECTED" <=> Up # {}
        /\ \A s \in Up : ws = s /\ keepalive /\ sockets[s].project = currentProject

\* REST calls go to the workspace server while the terminal is connected or retrying, and
\* only then (attemptReconnect and disconnect withdraw the route, onopen sets it); the
\* file explorer waits for the same.
RoutingFollows ==
    Patient =>
        /\ connectionState \in {"connected", "reconnecting"} <=> projectId \in activeWorkspaces
        /\ connectionState \in {"connected", "reconnecting"} <=> workspaceReady

\* The inputs reach the server in the order they were typed and at most once, over
\* reconnects, two sessions at a time included.
InputInOrder ==
    LET inputs == sent \o inputBuffer
    IN  \A i, j \in DOMAIN inputs : i < j => inputs[i] < inputs[j]

\* The terminal is an implementation of the input channel: whatever becomes of sockets,
\* requests and timers, an input that waits is overtaken by none, and what waited goes
\* out whole or not at all.
Channel == INSTANCE InputChannel WITH Size <- BufferMax, waiting <- inputBuffer
IsInputChannel == Channel!ChannelSpec

\* The client gives up only when all its attempts failed in a row: an attempt that
\* succeeded gives it all of them back.
GivesUpLate ==
    [][(/\ Patient /\ ~intentionalDisconnect'
        /\ connectionState = "reconnecting" /\ connectionState' = "disconnected")
       => closes' > MAX_RECONNECT_ATTEMPTS]_vars

\* No patient user waits forever: connecting and reconnecting end, one way or the other.
WaitingEnds ==
    connectionState \in {"starting", "reconnecting"} ~>
        (connectionState \notin {"starting", "reconnecting"} \/ ~Patient)

\* "Already set DISCONNECTED in disconnect()" (workspace-connection.ts:310), says the
\* close handler of a connection the user left, and leaves the state as it is.
DisconnectedStays == intentionalDisconnect => state = "DISCONNECTED"
=============================================================================
