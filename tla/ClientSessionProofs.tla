------------------------- MODULE ClientSessionProofs -------------------------
(***************************************************************************)
(* The inputs of the terminal keep their order, over any number of         *)
(* sockets, retries and impatient users; and a patient user has one        *)
(* session, sees its true state, and is given up only when all attempts    *)
(* failed, over any number of projects, requests, sockets and retries.     *)
(***************************************************************************)
EXTENDS ClientSession, SequenceTheorems, FiniteSetTheorems, TLAPS

Rising(inputs) == \A i, j \in DOMAIN inputs : i < j => inputs[i] < inputs[j]
UpTo(inputs, n) == \A i \in DOMAIN inputs : inputs[i] <= n

\* What makes InputInOrder inductive: an input is newer than all before it, and nothing is
\* sent past a buffer that is not empty.
OrderInv ==
    /\ typed \in Nat /\ sent \in Seq(Nat) /\ inputBuffer \in Seq(Nat)
    /\ Rising(sent \o inputBuffer) /\ UpTo(sent \o inputBuffer, typed)
    /\ connectionState = "connected" => inputBuffer = <<>>

\* One more input at the end.
LEMMA AppendRises ==
    ASSUME NEW s \in Seq(Nat), NEW n \in Nat, Rising(s), UpTo(s, n)
    PROVE  Rising(Append(s, n + 1)) /\ UpTo(Append(s, n + 1), n + 1)
BY DEF Rising, UpTo

\* A prefix of rising inputs rises.
LEMMA PrefixRises ==
    ASSUME NEW s \in Seq(Nat), NEW t \in Seq(Nat), NEW n \in Nat, Rising(s \o t), UpTo(s \o t, n)
    PROVE  Rising(s) /\ UpTo(s, n)
<1>1. /\ s \o t \in Seq(Nat) /\ DOMAIN s \subseteq DOMAIN (s \o t)
      /\ \A i \in DOMAIN s : (s \o t)[i] = s[i] /\ s[i] \in Nat
  OBVIOUS
<1> QED BY <1>1 DEF Rising, UpTo

LEMMA ConcatAppend ==
    ASSUME NEW s \in Seq(Nat), NEW t \in Seq(Nat), NEW n \in Nat
    PROVE  s \o Append(t, n) = Append(s \o t, n)
OBVIOUS

LEMMA ConcatEmpty ==
    ASSUME NEW s \in Seq(Nat)
    PROVE  s \o <<>> = s
OBVIOUS

-----------------------------------------------------------------------------
\* The four things a step does to the inputs.
Quiet ==
    /\ UNCHANGED <<typed, sent, inputBuffer>>
    /\ connectionState' = "connected" => connectionState = "connected"
Flush == Connected /\ UNCHANGED typed
Reset == UNCHANGED <<typed, sent>> /\ inputBuffer' = <<>>

LEMMA QuietKeeps == OrderInv /\ Quiet => OrderInv'
BY DEF OrderInv, Quiet

LEMMA FlushKeeps == OrderInv /\ Flush => OrderInv'
<1> SUFFICES ASSUME OrderInv, Flush PROVE OrderInv'
  OBVIOUS
<1>1. sent' \in Seq(Nat) /\ inputBuffer' = <<>> /\ typed' \in Nat
  BY DEF OrderInv, Flush, Connected
<1>2. sent' \o inputBuffer' = sent \o inputBuffer
  BY <1>1, ConcatEmpty DEF OrderInv, Flush, Connected
<1>3. Rising(sent \o inputBuffer)' /\ UpTo(sent \o inputBuffer, typed)'
  BY <1>2 DEF OrderInv, Flush, Rising, UpTo
<1> QED BY <1>1, <1>3 DEF OrderInv

LEMMA ResetKeeps == OrderInv /\ Reset => OrderInv'
<1> SUFFICES ASSUME OrderInv, Reset PROVE OrderInv'
  OBVIOUS
<1>1. sent' = sent /\ typed' = typed /\ inputBuffer' = <<>> /\ sent \o <<>> = sent
  BY ConcatEmpty DEF OrderInv, Reset
<1>2. Rising(sent) /\ UpTo(sent, typed)
  BY PrefixRises DEF OrderInv
<1>3. Rising(sent \o inputBuffer)' /\ UpTo(sent \o inputBuffer, typed)'
  BY <1>1, <1>2 DEF Rising, UpTo
<1> QED BY <1>1, <1>3 DEF OrderInv

LEMMA TypeKeeps ==
    ASSUME OrderInv, Type
    PROVE  OrderInv'
<1> DEFINE Sends == sent' = Append(sent, typed')
           Keeps == inputBuffer' = Append(inputBuffer, typed')
<1>1. /\ typed \in Nat /\ typed' = typed + 1 /\ typed' \in Nat
      /\ connectionState' = connectionState
      /\ sent \in Seq(Nat) /\ inputBuffer \in Seq(Nat) /\ sent \o inputBuffer \in Seq(Nat)
  BY DEF OrderInv, Type
<1>2. /\ sent' = sent \/ (Sends /\ connectionState = "connected")
      /\ inputBuffer' = inputBuffer \/ (Keeps /\ connectionState = "reconnecting")
  BY DEF Type
<1>3. CASE Sends /\ connectionState = "connected"
  <2>1. inputBuffer = <<>> /\ inputBuffer' = <<>>
    BY <1>2, <1>3 DEF OrderInv
  <2>2. sent' \in Seq(Nat) /\ sent' \o inputBuffer' = Append(sent, typed + 1)
    BY <1>1, <1>3, <2>1, ConcatEmpty
  <2>3. Rising(sent) /\ UpTo(sent, typed)
    BY <1>1, PrefixRises DEF OrderInv
  <2>4. Rising(sent' \o inputBuffer') /\ UpTo(sent' \o inputBuffer', typed')
    BY <1>1, <2>2, <2>3, AppendRises
  <2> QED BY <1>1, <2>1, <2>2, <2>4 DEF OrderInv, Rising, UpTo
<1>4. CASE sent' = sent /\ Keeps /\ connectionState = "reconnecting"
  <2>1. sent' \o inputBuffer' = Append(sent \o inputBuffer, typed + 1)
    BY <1>1, <1>4, ConcatAppend
  <2>2. Rising(sent' \o inputBuffer') /\ UpTo(sent' \o inputBuffer', typed')
    BY <1>1, <2>1, AppendRises DEF OrderInv
  <2>3. inputBuffer' \in Seq(Nat) /\ connectionState' # "connected"
    BY <1>1, <1>4
  <2> QED BY <1>1, <1>4, <2>2, <2>3 DEF OrderInv, Rising, UpTo
<1>5. CASE sent' = sent /\ inputBuffer' = inputBuffer
  <2>1. UpTo(sent \o inputBuffer, typed')
    BY <1>1 DEF OrderInv, UpTo
  <2> QED BY <1>1, <1>5, <2>1 DEF OrderInv, Rising, UpTo
<1> QED BY <1>2, <1>3, <1>4, <1>5

-----------------------------------------------------------------------------
\* setState leaves the inputs alone, or sends what waits.
LEMMA SetStateKind ==
    ASSUME NEW new, SetState(new), UNCHANGED typed
    PROVE  Quiet \/ Flush
<1>1. CASE Mute
  BY <1>1 DEF Quiet, Mute, terminalVars
<1>2. CASE Connected
  BY <1>2 DEF Flush
<1>3. CASE Reconnecting
  BY <1>3 DEF Quiet, Reconnecting
<1>4. CASE Disconnected
  BY <1>4 DEF Quiet, Disconnected
<1> QED BY <1>1, <1>2, <1>3, <1>4 DEF SetState

LEMMA StepKind ==
    ASSUME [Next]_vars
    PROVE  Quiet \/ Flush \/ Reset \/ Type
<1>1. CASE Connect
  BY <1>1 DEF Connect, DoConnect, Reset
<1>2. CASE Disconnect
  BY <1>2 DEF Disconnect, DoDisconnect, Reset
<1>3. CASE LeaveProject
  BY <1>3 DEF LeaveProject, DoDisconnect, Reset
<1>4. ASSUME NEW p \in Projects, OpenProject(p) PROVE Reset \/ Quiet
  BY <1>4 DEF OpenProject, DoConnect, Reset, Quiet
<1>5. ASSUME NEW c \in Calls, Answer(c) PROVE Quiet
  BY <1>5 DEF Answer, StartAnswers, StartFails, PollEnds, PollGivesUp, Quiet, terminalVars, userVars
<1>6. ASSUME NEW s \in Sockets, OnOpen(s) PROVE Quiet \/ Flush
  BY <1>6, SetStateKind DEF OnOpen, userVars
<1>7. ASSUME NEW s \in Sockets, OnClose(s) PROVE Quiet \/ Flush
  <2>1. UNCHANGED typed /\ (UNCHANGED terminalVars \/ AttemptReconnect \/ SetState("DISCONNECTED"))
    BY <1>7 DEF OnClose, userVars
  <2>2. CASE UNCHANGED terminalVars
    BY <2>1, <2>2 DEF Quiet, terminalVars
  <2>3. CASE AttemptReconnect \/ SetState("DISCONNECTED")
    BY <2>1, <2>3, SetStateKind DEF AttemptReconnect
  <2> QED BY <2>1, <2>2, <2>3
<1>8. CASE TimerFires \/ KeepaliveTimeout \/ UNCHANGED vars
  BY <1>8 DEF TimerFires, KeepaliveTimeout, Quiet, terminalVars, userVars, vars
<1> QED BY <1>1, <1>2, <1>3, <1>4, <1>5, <1>6, <1>7, <1>8 DEF Next

LEMMA InitOrder == Init => OrderInv
BY DEF Init, OrderInv, Rising, UpTo

LEMMA StepKeepsOrder == OrderInv /\ [Next]_vars => OrderInv'
BY StepKind, QuietKeeps, FlushKeeps, ResetKeeps, TypeKeeps

\* However often the socket is lost, whatever calls overlap: what is typed reaches the
\* server at most once and in the order it was typed.
THEOREM InputsKeepOrder == Spec => []InputInOrder
<1>1. OrderInv => InputInOrder
  BY DEF OrderInv, InputInOrder, Rising
<1> QED BY <1>1, InitOrder, StepKeepsOrder, PTL DEF Spec

\* The terminal store over the connection implements the input channel.
THEOREM TerminalIsChannel == Spec => IsInputChannel
<1>1. Init => Channel!ChannelInit
  BY DEF Init, Channel!ChannelInit
<1>2. OrderInv /\ [Next]_vars => [Channel!ChannelNext]_Channel!channelVars
  <2> SUFFICES ASSUME OrderInv, [Next]_vars
               PROVE  [Channel!ChannelNext]_Channel!channelVars
    OBVIOUS
  <2>1. CASE Quiet
    BY <2>1 DEF Quiet, Channel!channelVars
  <2>2. CASE Flush
    BY <2>2 DEF Flush, Connected, Channel!ChannelNext, Channel!SendWaiting
  <2>3. CASE Reset
    BY <2>3 DEF Reset, Channel!ChannelNext, Channel!GiveUp
  <2>4. CASE Type
    BY <2>4 DEF Type, OrderInv, Channel!ChannelNext, Channel!Input
  <2> QED BY <2>1, <2>2, <2>3, <2>4, StepKind
<1> QED BY <1>1, <1>2, InitOrder, StepKeepsOrder, PTL DEF Spec, IsInputChannel, Channel!ChannelSpec

-----------------------------------------------------------------------------
(* One session for a patient user *)

CallRecords == [stage : {None, "starting", "polling"}, project : Projects \union {None}]
SocketRecords ==
    [stage : {None, "connecting", "open", "closing", "lapsed"}, project : Projects \union {None}]

\* What holds for every user: the types, and that the current socket is one that opened.
TypesInv ==
    /\ calls \in [Calls -> CallRecords] /\ sockets \in [Sockets -> SocketRecords]
    /\ \A c \in InFlight : calls[c].project # None
    /\ \A s \in InUse : sockets[s].project # None
    /\ state \in {"CONNECTED", "DISCONNECTED", "PENDING"}
    /\ connectionState \in {"disconnected", "starting", "connected", "reconnecting", "error"}
    /\ projectId \in Projects \union {None} /\ currentProject \in Projects \union {None}
    /\ (InFlight # {} \/ sessionToken) => projectId # None
    /\ ws \in Sockets \union {None} /\ activeWorkspaces \subseteq Projects
    /\ ws # None => sockets[ws].stage \in {"open", "lapsed"}
    /\ reconnectAttempt \in 0..MAX_RECONNECT_ATTEMPTS
    /\ strayTimers \in Nat /\ hurries \in Nat /\ closes \in Nat

\* One request, one socket or one timer.
Alone ==
    /\ \A c, d \in InFlight : c = d
    /\ \A s, t \in InUse : s = t
    /\ InFlight = {} \/ InUse = {}
    /\ reconnectTimer => InFlight = {} /\ InUse = {}
    /\ strayTimers = 0

Live == connectionState \in {"connected", "reconnecting"}
Waiting == connectionState \in {"starting", "reconnecting"}

\* Where each of them stands with the state of the connection ...
RequestFits(c) == calls[c].project = projectId /\ connectionState = "starting"

SocketFits(s) ==
    \/ sockets[s].stage = "connecting" /\ Waiting /\ sockets[s].project = projectId
    \/ /\ sockets[s].stage \in {"open", "lapsed"} /\ sockets[s].project = projectId
       /\ ws = s /\ keepalive /\ connectionState = "connected"
    \/ sockets[s].stage = "closing" /\ intentionalDisconnect

\* ... that state with the terminal's, and both with the project on the screen.
StatesFit ==
    /\ state = "CONNECTED" <=> connectionState = "connected"
    /\ state = "CONNECTED" => ws # None
    /\ Waiting => state = "PENDING"
    /\ connectionState = "disconnected" => state = "DISCONNECTED"
    /\ intentionalDisconnect \/ currentProject = None => connectionState = "disconnected"
    /\ Waiting \/ Live => projectId = currentProject
    /\ activeWorkspaces = IF Live THEN {projectId} ELSE {}
    /\ workspaceReady <=> Live

\* The patient user's connection: what makes the three invariants inductive.
Settled ==
    /\ Alone
    /\ \A c \in InFlight : RequestFits(c)
    /\ \A s \in InUse : SocketFits(s)
    /\ reconnectTimer => Waiting
    /\ StatesFit
    /\ closes >= reconnectAttempt

PatientInv == Patient => Settled

LEMMA AttemptsAreNat == MAX_RECONNECT_ATTEMPTS \in Nat
BY SessionBounds

LEMMA HurryCounts ==
    ASSUME NEW unsettled, hurries \in Nat, Hurry(unsettled)
    PROVE  hurries' \in Nat /\ (Patient' => Patient /\ ~unsettled)
BY DEF Hurry, Patient

LEMMA InitTypes == Init => TypesInv
<1> SUFFICES ASSUME Init PROVE TypesInv
  OBVIOUS
<1>1. calls \in [Calls -> CallRecords] /\ InFlight = {}
  BY DEF Init, Idle, CallRecords, InFlight
<1>2. sockets \in [Sockets -> SocketRecords] /\ InUse = {}
  BY DEF Init, Idle, SocketRecords, InUse
<1> QED
  BY <1>1, <1>2, AttemptsAreNat DEF Init, TypesInv

\* The current socket, closed or not, is one in use.
LEMMA CloseTypes ==
    ASSUME TypesInv
    PROVE  /\ Closing(ws) \in [Sockets -> SocketRecords]
           /\ \A s \in Sockets : /\ Closing(ws)[s].project = sockets[s].project
                                 /\ Closing(ws)[s].stage = None <=> sockets[s].stage = None
                                 /\ s # ws => Closing(ws)[s] = sockets[s]
                                 /\ s = ws => Closing(ws)[s].stage = "closing"
<1>1. CASE ws = None
  BY <1>1, NoneIsNew DEF Closing, TypesInv
<1>2. CASE ws # None
  <2>1. ws \in Sockets /\ sockets[ws].stage # None /\ sockets \in [Sockets -> SocketRecords]
    BY <1>2 DEF TypesInv, None
  <2>2. Closing(ws) = [sockets EXCEPT ![ws].stage = "closing"]
    BY <1>2 DEF Closing
  <2> QED
    BY <2>1, <2>2 DEF SocketRecords, None
<1> QED
  BY <1>1, <1>2

\* connect() of a connection that is connected already, and of another.
LEMMA ConnectParts ==
    ASSUME NEW p, DoConnect(p)
    PROVE  /\ connectionState' = "starting" /\ closes' = 0 /\ Hurry(InFlight # {} \/ InUse # {})
           /\ UNCHANGED activeWorkspaces
           /\ \/ UNCHANGED <<connVars, calls, sockets>> /\ state = "CONNECTED" /\ projectId = p
              \/ /\ \E c \in Calls \ InFlight :
                        calls' = [calls EXCEPT ![c] = [stage |-> "starting", project |-> p]]
                 /\ CleanupConnection
                 /\ projectId' = p /\ intentionalDisconnect' = FALSE /\ state' = "PENDING"
BY DEF DoConnect

LEMMA DisconnectParts ==
    ASSUME DoDisconnect
    PROVE  /\ intentionalDisconnect' = TRUE /\ CleanupConnection
           /\ activeWorkspaces' = activeWorkspaces \ {projectId}
           /\ state' = "DISCONNECTED" /\ connectionState' = "disconnected"
           /\ Hurry(InFlight # {} \/ \E s \in InUse : sockets[s].stage = "connecting")
           /\ UNCHANGED <<projectId, sessionToken, calls, closes>>
BY DEF DoDisconnect

LEMMA ConnectTypes ==
    ASSUME TypesInv, NEW p \in Projects, DoConnect(p), currentProject' = p
    PROVE  TypesInv'
<1>1. connectionState' = "starting" /\ closes' = 0 /\ hurries' \in Nat /\ activeWorkspaces' \subseteq Projects
  BY ConnectParts, HurryCounts DEF TypesInv
<1>2. CASE UNCHANGED <<connVars, calls, sockets>>
  BY <1>1, <1>2 DEF connVars, TypesInv, InFlight, InUse
<1>3. ASSUME NEW c \in Calls \ InFlight, calls' = [calls EXCEPT ![c] = [stage |-> "starting", project |-> p]],
             CleanupConnection, projectId' = p, state' = "PENDING"
      PROVE  TypesInv'
  <2>1. calls' \in [Calls -> CallRecords] /\ \A d \in InFlight' : calls'[d].project # None
    BY <1>3, NoneIsNew DEF TypesInv, CallRecords, SocketRecords, InFlight, InUse
  <2>2. sockets' = Closing(ws) /\ ws' = None /\ reconnectAttempt' = 0 /\ UNCHANGED strayTimers
    BY <1>3 DEF CleanupConnection
  <2>3. sockets' \in [Sockets -> SocketRecords] /\ \A s \in InUse' : sockets'[s].project # None
    BY <2>2, CloseTypes DEF TypesInv, InUse
  <2> QED
    BY <1>1, <1>3, <2>1, <2>2, <2>3, NoneIsNew, AttemptsAreNat DEF TypesInv
<1>4. \/ UNCHANGED <<connVars, calls, sockets>>
      \/ /\ \E c \in Calls \ InFlight :
               calls' = [calls EXCEPT ![c] = [stage |-> "starting", project |-> p]]
         /\ CleanupConnection /\ projectId' = p /\ state' = "PENDING"
  BY ConnectParts
<1> QED
  BY <1>2, <1>3, <1>4

LEMMA DisconnectTypes ==
    ASSUME TypesInv, DoDisconnect, currentProject' \in Projects \union {None}
    PROVE  TypesInv'
<1>1. /\ sockets' = Closing(ws) /\ ws' = None /\ reconnectAttempt' = 0 /\ UNCHANGED strayTimers
      /\ activeWorkspaces' \subseteq Projects /\ state' = "DISCONNECTED" /\ connectionState' = "disconnected"
      /\ UNCHANGED <<projectId, sessionToken, calls, closes>>
  BY DisconnectParts DEF CleanupConnection, TypesInv
<1>2. sockets' \in [Sockets -> SocketRecords] /\ \A s \in InUse' : sockets'[s].project # None
  BY <1>1, CloseTypes DEF TypesInv, InUse
<1>3. hurries' \in Nat
  BY DisconnectParts, HurryCounts DEF TypesInv
<1> QED
  BY <1>1, <1>2, <1>3, AttemptsAreNat DEF TypesInv, InFlight

LEMMA SetStateTypes ==
    ASSUME TypesInv, NEW new \in {"CONNECTED", "DISCONNECTED", "PENDING"}, SetState(new)
    PROVE  /\ state' \in {"CONNECTED", "DISCONNECTED", "PENDING"}
           /\ connectionState' \in {"disconnected", "starting", "connected", "reconnecting", "error"}
BY DEF TypesInv, SetState, Mute, terminalVars, Connected, Reconnecting, Disconnected

LEMMA RetryTypes ==
    ASSUME TypesInv, AttemptReconnect
    PROVE  /\ state' \in {"CONNECTED", "DISCONNECTED", "PENDING"}
           /\ connectionState' \in {"disconnected", "starting", "connected", "reconnecting", "error"}
           /\ reconnectAttempt' \in 0..MAX_RECONNECT_ATTEMPTS
           /\ strayTimers' \in Nat /\ activeWorkspaces' \subseteq Projects
<1>1. Pending \in Nat
  BY DEF Pending, TypesInv
<1>2. SetState("PENDING") \/ SetState("DISCONNECTED")
  BY DEF AttemptReconnect
<1> QED
  BY <1>1, <1>2, SetStateTypes, AttemptsAreNat DEF AttemptReconnect, TypesInv

LEMMA StepTypes == TypesInv /\ [Next]_vars => TypesInv'
<1> SUFFICES ASSUME TypesInv, [Next]_vars PROVE TypesInv'
  OBVIOUS
<1> USE NoneIsNew, AttemptsAreNat DEF None
<1>1. ASSUME Connect PROVE TypesInv'
  BY <1>1, ConnectTypes DEF Connect, TypesInv
<1>2. ASSUME Disconnect \/ LeaveProject PROVE TypesInv'
  BY <1>2, DisconnectTypes DEF Disconnect, LeaveProject, TypesInv
<1>3. ASSUME NEW p \in Projects, OpenProject(p) PROVE TypesInv'
  <2>1. currentProject' = p
    BY <1>3 DEF OpenProject
  <2>2. CASE UNCHANGED <<connVars, calls, sockets, activeWorkspaces, connectionState, hurries, closes>>
    BY <2>1, <2>2 DEF connVars, TypesInv, CallRecords, SocketRecords, InFlight, InUse
  <2> QED
    BY <1>3, <2>1, <2>2, ConnectTypes DEF OpenProject
<1>4. ASSUME NEW c \in Calls, StartAnswers(c) PROVE TypesInv'
  BY <1>4 DEF StartAnswers, OpenWebSocket, Idle, terminalVars, userVars, TypesInv, CallRecords, SocketRecords, InFlight, InUse
<1>5. ASSUME NEW c \in Calls, StartFails(c) PROVE TypesInv'
  BY <1>5 DEF StartFails, Idle, connVars, userVars, TypesInv, CallRecords, SocketRecords, InFlight, InUse
<1>6. ASSUME NEW c \in Calls, PollEnds(c) PROVE TypesInv'
  BY <1>6 DEF PollEnds, OpenWebSocket, Idle, terminalVars, userVars, TypesInv, CallRecords, SocketRecords, InFlight, InUse
<1>7. ASSUME NEW c \in Calls, PollGivesUp(c) PROVE TypesInv'
  BY <1>7 DEF PollGivesUp, Idle, userVars, TypesInv, CallRecords, SocketRecords, InFlight, InUse
<1>8. ASSUME NEW s \in Sockets, OnOpen(s) PROVE TypesInv'
  <2>1. /\ state' \in {"CONNECTED", "DISCONNECTED", "PENDING"}
        /\ connectionState' \in {"disconnected", "starting", "connected", "reconnecting", "error"}
    BY <1>8, SetStateTypes DEF OnOpen
  <2> QED
    BY <1>8, <2>1 DEF OnOpen, userVars, TypesInv, CallRecords, SocketRecords, InFlight, InUse
<1>9. ASSUME NEW s \in Sockets, OnClose(s) PROVE TypesInv'
  <2>1. /\ state' \in {"CONNECTED", "DISCONNECTED", "PENDING"}
        /\ connectionState' \in {"disconnected", "starting", "connected", "reconnecting", "error"}
        /\ reconnectAttempt' \in 0..MAX_RECONNECT_ATTEMPTS
        /\ strayTimers' \in Nat /\ activeWorkspaces' \subseteq Projects
    <3>1. CASE AttemptReconnect
      BY <3>1, RetryTypes
    <3>2. CASE ~AttemptReconnect
      BY <1>9, <3>2, SetStateTypes DEF OnClose, TypesInv, terminalVars
    <3> QED BY <3>1, <3>2
  <2> QED
    BY <1>9, <2>1 DEF OnClose, Idle, userVars, TypesInv, CallRecords, SocketRecords, InFlight, InUse
<1>10. ASSUME TimerFires PROVE TypesInv'
  BY <1>10 DEF TimerFires, OpenWebSocket, terminalVars, userVars, TypesInv, CallRecords, SocketRecords, InFlight, InUse
<1>11. ASSUME KeepaliveTimeout PROVE TypesInv'
  BY <1>11 DEF KeepaliveTimeout, connVars, terminalVars, userVars, TypesInv, CallRecords, SocketRecords, InFlight, InUse
<1>12. ASSUME Type PROVE TypesInv'
  BY <1>12 DEF Type, connVars, TypesInv, CallRecords, SocketRecords, InFlight, InUse
<1>13. ASSUME UNCHANGED vars PROVE TypesInv'
  BY <1>13 DEF vars, connVars, terminalVars, userVars, TypesInv, CallRecords, SocketRecords, InFlight, InUse
<1> QED
  BY <1>1, <1>2, <1>3, <1>4, <1>5, <1>6, <1>7, <1>8, <1>9, <1>10, <1>11, <1>12, <1>13 DEF Next, Answer

-----------------------------------------------------------------------------
LEMMA InitPatient == Init => PatientInv
<1> SUFFICES ASSUME Init PROVE Settled
  BY DEF PatientInv
<1>1. InFlight = {} /\ InUse = {}
  BY DEF Init, Idle, InFlight, InUse
<1> QED
  BY <1>1 DEF Init, Settled, Alone, Waiting, Live, StatesFit

LEMMA ConnectSettles ==
    ASSUME TypesInv, PatientInv, Patient', NEW p \in Projects, DoConnect(p), currentProject' = p,
           connectionState \notin {"connected", "reconnecting"}, workspaceReady' => workspaceReady
    PROVE  Settled'
<1>1. Patient /\ InFlight = {} /\ InUse = {}
  BY ConnectParts, HurryCounts DEF TypesInv
<1>2. Settled
  BY <1>1 DEF PatientInv
<1>3. ws = None
  BY <1>1 DEF TypesInv, InUse, None
<1>4. state # "CONNECTED"
  BY <1>2, <1>3 DEF Settled, StatesFit
<1>5. /\ connectionState' = "starting" /\ closes' = 0 /\ UNCHANGED activeWorkspaces
      /\ \E c \in Calls \ InFlight :
            calls' = [calls EXCEPT ![c] = [stage |-> "starting", project |-> p]]
      /\ CleanupConnection
      /\ projectId' = p /\ intentionalDisconnect' = FALSE /\ state' = "PENDING"
  BY <1>4, ConnectParts
<1>6. sockets' = sockets /\ InUse' = {} /\ ws' = None /\ strayTimers' = 0
      /\ reconnectAttempt' = 0 /\ reconnectTimer' = FALSE
  BY <1>1, <1>2, <1>3, <1>5 DEF CleanupConnection, Closing, InUse, Settled, Alone
<1>7. PICK c \in Calls : InFlight' = {c} /\ calls'[c].project = p
  BY <1>1, <1>5 DEF InFlight, TypesInv, None
<1>8. activeWorkspaces' = {} /\ ~workspaceReady'
  BY <1>2, <1>5 DEF Settled, StatesFit, Live
<1> QED
  BY <1>5, <1>6, <1>7, <1>8, NoneIsNew DEF Settled, Alone, RequestFits, Waiting, Live, StatesFit

LEMMA DisconnectSettles ==
    ASSUME TypesInv, PatientInv, Patient', DoDisconnect, ~workspaceReady'
    PROVE  Settled'
<1>1. Patient /\ InFlight = {} /\ ~\E s \in InUse : sockets[s].stage = "connecting"
  BY DisconnectParts, HurryCounts DEF TypesInv
<1>2. Settled
  BY <1>1 DEF PatientInv
<1>3. /\ intentionalDisconnect' = TRUE /\ CleanupConnection
      /\ activeWorkspaces' = activeWorkspaces \ {projectId}
      /\ state' = "DISCONNECTED" /\ connectionState' = "disconnected"
      /\ UNCHANGED <<projectId, calls, closes>>
  BY DisconnectParts
<1>4. sockets' = Closing(ws) /\ ws' = None /\ reconnectTimer' = FALSE /\ reconnectAttempt' = 0
      /\ UNCHANGED strayTimers
  BY <1>3 DEF CleanupConnection
<1>5. InUse' = InUse
  BY <1>4, CloseTypes DEF InUse
<1>6. ASSUME NEW s \in InUse PROVE sockets'[s].stage = "closing"
  BY <1>1, <1>2, <1>4, CloseTypes DEF Settled, SocketFits, InUse
<1>7. activeWorkspaces' = {}
  BY <1>2, <1>3 DEF Settled, StatesFit
<1> QED
  BY <1>1, <1>2, <1>3, <1>4, <1>5, <1>6, <1>7
  DEF TypesInv, Settled, Alone, InFlight, RequestFits, SocketFits, Waiting, Live, StatesFit

\* What each new state does to the terminal.
LEMMA Announced ==
    ASSUME NEW new \in {"CONNECTED", "DISCONNECTED", "PENDING"}, SetState(new)
    PROVE  /\ state' = new
           /\ new = state => UNCHANGED <<connectionState, workspaceReady>>
           /\ new # state /\ new = "CONNECTED" => connectionState' = "connected" /\ workspaceReady'
           /\ new # state /\ new = "DISCONNECTED" => connectionState' = "disconnected" /\ ~workspaceReady'
           /\ new # state /\ new = "PENDING" =>
                /\ connectionState' = IF connectionState = "connected" THEN "reconnecting" ELSE connectionState
                /\ UNCHANGED workspaceReady
BY DEF SetState, Mute, terminalVars, Connected, Reconnecting, Disconnected

\* A socket that is lost is followed by a timer, or by the end of the attempts.
LEMMA CloseSettles ==
    ASSUME TypesInv, Settled, NEW s \in Sockets, OnClose(s)
    PROVE  Settled'
<1>1. /\ s \in InUse /\ InUse' = {} /\ InFlight = {} /\ InFlight' = {} /\ ~reconnectTimer
      /\ strayTimers = 0 /\ Pending = 0
  BY DEF OnClose, Idle, Settled, Alone, InUse, InFlight, TypesInv, userVars, Pending
<1>2. /\ ws' = None /\ UNCHANGED <<projectId, currentProject, intentionalDisconnect>>
      /\ closes' \in Nat /\ (closes' >= closes + 1 \/ closes' > MAX_RECONNECT_ATTEMPTS)
  BY AttemptsAreNat DEF OnClose, userVars, TypesInv
<1>3. SocketFits(s)
  BY <1>1 DEF Settled
<1>4. CASE intentionalDisconnect
  <2>1. UNCHANGED <<state, reconnectAttempt, reconnectTimer, strayTimers, activeWorkspaces,
                    connectionState, workspaceReady>>
    BY <1>4 DEF OnClose, terminalVars
  <2>2. state = "DISCONNECTED" /\ connectionState = "disconnected"
    BY <1>4 DEF Settled, StatesFit
  <2> QED
    BY <1>1, <1>2, <2>1, <2>2, AttemptsAreNat
    DEF TypesInv, Settled, Alone, Waiting, Live, StatesFit
<1>5. CASE ~intentionalDisconnect
  <2>1. AttemptReconnect
    BY <1>3, <1>5 DEF OnClose, SocketFits
  <2>2. connectionState \in {"starting", "connected", "reconnecting"} /\ state \in {"PENDING", "CONNECTED"}
        /\ currentProject # None
    BY <1>3, <1>5 DEF Settled, SocketFits, Waiting, StatesFit
  <2>3. CASE reconnectAttempt >= MAX_RECONNECT_ATTEMPTS
    <3>1. connectionState' = "disconnected" /\ state' = "DISCONNECTED" /\ ~workspaceReady'
          /\ activeWorkspaces' = activeWorkspaces \ {projectId}
          /\ reconnectAttempt' = 0 /\ UNCHANGED <<reconnectTimer, strayTimers>>
      BY <2>1, <2>2, <2>3, Announced DEF AttemptReconnect
    <3>2. activeWorkspaces' = {}
      BY <3>1 DEF Settled, StatesFit
    <3> QED
      BY <1>1, <1>2, <3>1, <3>2 DEF Settled, Alone, Waiting, Live, StatesFit
  <2>4. CASE ~(reconnectAttempt >= MAX_RECONNECT_ATTEMPTS)
    <3>1. /\ reconnectAttempt' = reconnectAttempt + 1 /\ reconnectTimer' /\ strayTimers' = 0
          /\ state' = "PENDING" /\ connectionState' \in {"starting", "reconnecting"}
          /\ (connectionState' = "starting") <=> (connectionState = "starting")
          /\ UNCHANGED activeWorkspaces /\ (workspaceReady' <=> workspaceReady)
      BY <1>1, <2>1, <2>2, <2>4, Announced DEF AttemptReconnect, Settled, StatesFit
    <3>2. closes' >= reconnectAttempt'
      BY <1>2, <2>4, <3>1, AttemptsAreNat DEF TypesInv, Settled
    <3> QED
      BY <1>1, <1>2, <1>5, <2>2, <3>1, <3>2 DEF Settled, Alone, Waiting, Live, StatesFit
  <2> QED BY <2>3, <2>4
<1> QED BY <1>4, <1>5

LEMMA OpenSettles ==
    ASSUME TypesInv, Settled, NEW s \in Sockets, OnOpen(s)
    PROVE  Settled'
<1>1. s \in InUse /\ sockets[s].stage = "connecting" /\ InFlight = {} /\ ~reconnectTimer /\ strayTimers = 0
  BY DEF OnOpen, Settled, Alone, InUse, None
<1>2. Waiting /\ sockets[s].project = projectId /\ state = "PENDING" /\ projectId = currentProject
      /\ ~intentionalDisconnect /\ currentProject # None
  BY <1>1 DEF Settled, SocketFits, StatesFit, Waiting
<1>3. InUse' = {s} /\ InFlight' = {} /\ sockets'[s].stage = "open" /\ sockets'[s].project = projectId
  BY <1>1, <1>2 DEF OnOpen, Settled, Alone, InUse, InFlight, TypesInv, None
<1>4. state' = "CONNECTED" /\ connectionState' = "connected" /\ workspaceReady'
  BY <1>2, Announced DEF OnOpen
<1>5. activeWorkspaces' = {projectId}
  BY <1>2 DEF OnOpen, Settled, StatesFit, Live
<1>6. /\ ws' = s /\ keepalive' /\ reconnectAttempt' = 0 /\ closes' = 0
      /\ UNCHANGED <<projectId, currentProject, intentionalDisconnect, reconnectTimer, strayTimers>>
  BY DEF OnOpen, userVars
<1> QED
  BY <1>1, <1>2, <1>3, <1>4, <1>5, <1>6, NoneIsNew
  DEF Settled, Alone, SocketFits, Waiting, Live, StatesFit

LEMMA TimerSettles ==
    ASSUME TypesInv, Settled, TimerFires
    PROVE  Settled'
<1>1. reconnectTimer /\ InFlight = {} /\ InUse = {} /\ Waiting /\ strayTimers = 0
  BY DEF TimerFires, Settled, Alone
<1>2. /\ ~reconnectTimer' /\ strayTimers' = 0 /\ InFlight' = {}
      /\ UNCHANGED <<state, projectId, ws, reconnectAttempt, intentionalDisconnect, keepalive, activeWorkspaces,
                     connectionState, workspaceReady, currentProject, closes>>
  BY <1>1 DEF TimerFires, InFlight, terminalVars, userVars
<1>3. \/ InUse' = {}
      \/ \E s \in Sockets : InUse' = {s} /\ sockets'[s] = [stage |-> "connecting", project |-> projectId]
  BY <1>1 DEF TimerFires, OpenWebSocket, InUse, TypesInv, None
<1> QED
  BY <1>1, <1>2, <1>3 DEF Settled, Alone, SocketFits, Waiting, Live, StatesFit

\* A request is answered: it polls, opens a socket, or ends in an error.
LEMMA AnswerSettles ==
    ASSUME TypesInv, Settled, NEW c \in Calls, Answer(c)
    PROVE  Settled'
<1>1. /\ c \in InFlight /\ InFlight = {c} /\ InUse = {} /\ ~reconnectTimer /\ strayTimers = 0
      /\ connectionState = "starting" /\ state = "PENDING" /\ calls[c].project = projectId
  BY DEF Answer, StartAnswers, StartFails, PollEnds, PollGivesUp, Settled, Alone, InFlight, RequestFits,
         Waiting, StatesFit, None
<1>2. ws = None
  BY <1>1 DEF TypesInv, InUse, None
<1>3. UNCHANGED <<projectId, ws, reconnectAttempt, intentionalDisconnect, keepalive, reconnectTimer, strayTimers,
                  activeWorkspaces, currentProject, closes>>
  BY DEF Answer, StartAnswers, StartFails, PollEnds, PollGivesUp, connVars, userVars
<1>4. CASE /\ UNCHANGED <<state, connectionState, workspaceReady, sockets>>
           /\ calls' = [calls EXCEPT ![c].stage = "polling"]
  <2>1. InUse' = {} /\ InFlight' = {c} /\ calls'[c].project = projectId
    BY <1>1, <1>4 DEF InUse, InFlight, TypesInv, CallRecords, None
  <2> QED
    BY <1>1, <1>3, <1>4, <2>1 DEF Settled, Alone, RequestFits, Waiting, Live, StatesFit
<1>5. CASE /\ UNCHANGED <<state, connectionState, workspaceReady>>
           /\ calls' = [calls EXCEPT ![c] = Idle]
           /\ OpenWebSocket(projectId, Sockets \ InUse)
  <2>1. InFlight' = {} /\ \E s \in Sockets :
            InUse' = {s} /\ sockets'[s] = [stage |-> "connecting", project |-> projectId]
    BY <1>1, <1>5 DEF OpenWebSocket, Idle, InUse, InFlight, TypesInv, None
  <2> QED
    BY <1>1, <1>3, <1>5, <2>1 DEF Settled, Alone, SocketFits, Waiting, Live, StatesFit
<1>6. CASE StartFails(c) \/ PollGivesUp(c)
  <2>1. InUse' = {} /\ InFlight' = {}
    BY <1>1, <1>6 DEF StartFails, PollGivesUp, Idle, InUse, InFlight, TypesInv
  <2>2. connectionState' = "error" /\ state' \in {"PENDING", "DISCONNECTED"}
    BY <1>1, <1>6 DEF StartFails, PollGivesUp, connVars
  <2>3. ~workspaceReady
    BY <1>1 DEF Settled, StatesFit, Live
  <2>4. ~workspaceReady'
    BY <1>6, <2>3, Zenon DEF StartFails, PollGivesUp
  <2> QED
    BY <1>1, <1>2, <1>3, <2>1, <2>2, <2>4 DEF Settled, Alone, Waiting, Live, StatesFit
<1> QED
  BY <1>1, <1>4, <1>5, <1>6 DEF Answer, StartAnswers, PollEnds, terminalVars

LEMMA StepPatient == TypesInv /\ PatientInv /\ [Next]_vars => PatientInv'
<1> SUFFICES ASSUME TypesInv, PatientInv, [Next]_vars, Patient' PROVE Settled'
  BY DEF PatientInv
<1>1. CASE Connect
  <2>1. connectionState \notin {"connected", "reconnecting"} /\ currentProject \in Projects
        /\ DoConnect(currentProject) /\ UNCHANGED <<currentProject, workspaceReady>>
    BY <1>1 DEF Connect, TypesInv
  <2> QED BY <2>1, ConnectSettles
<1>2. CASE Disconnect
  <2>1. Patient
    BY <1>2, DisconnectParts, HurryCounts DEF Disconnect, TypesInv
  <2>2. state # "DISCONNECTED"
    BY <1>2, <2>1 DEF Disconnect, PatientInv, Settled, StatesFit, Waiting
  <2>3. ~workspaceReady'
    BY <1>2, <2>2, Zenon DEF Disconnect
  <2> QED BY <1>2, <2>3, DisconnectSettles DEF Disconnect
<1>3. CASE LeaveProject
  BY <1>3, DisconnectSettles DEF LeaveProject
<1>4. ASSUME NEW p \in Projects, OpenProject(p) PROVE Settled'
  <2>1. currentProject = None /\ currentProject' = p /\ ~workspaceReady'
    BY <1>4 DEF OpenProject
  <2>2. Patient
    BY <1>4, ConnectParts, HurryCounts DEF OpenProject, TypesInv, Patient
  <2>3. connectionState = "disconnected"
    BY <2>1, <2>2 DEF PatientInv, Settled, StatesFit
  <2>4. DoConnect(p)
    BY <1>4, <2>3 DEF OpenProject
  <2> QED BY <2>1, <2>3, <2>4, ConnectSettles
<1>5. ASSUME UNCHANGED hurries PROVE Patient /\ Settled
  BY <1>5 DEF Patient, PatientInv
<1>6. ASSUME NEW c \in Calls, Answer(c) PROVE Settled'
  <2>1. UNCHANGED hurries
    BY <1>6 DEF Answer, StartAnswers, StartFails, PollEnds, PollGivesUp, userVars
  <2> QED BY <1>5, <1>6, <2>1, AnswerSettles
<1>7. ASSUME NEW s \in Sockets, OnOpen(s) PROVE Settled'
  BY <1>5, <1>7, OpenSettles DEF OnOpen, userVars
<1>8. ASSUME NEW s \in Sockets, OnClose(s) PROVE Settled'
  BY <1>5, <1>8, CloseSettles DEF OnClose, userVars
<1>9. CASE TimerFires
  BY <1>5, <1>9, TimerSettles DEF TimerFires, userVars
<1>10. CASE KeepaliveTimeout
  <2>1. Settled /\ UNCHANGED <<connVars, calls, activeWorkspaces, terminalVars, userVars, closes>>
        /\ ws \in Sockets /\ sockets' = [sockets EXCEPT ![ws].stage = "lapsed"] /\ sockets[ws].stage = "open"
    BY <1>5, <1>10 DEF KeepaliveTimeout, userVars, TypesInv
  <2>2. InUse' = InUse /\ InFlight' = InFlight
    BY <2>1 DEF InUse, InFlight, TypesInv, SocketRecords, None
  <2>3. ASSUME NEW s \in InUse PROVE SocketFits(s)'
    BY <2>1, <2>3 DEF Settled, SocketFits, InUse, TypesInv, SocketRecords, connVars, terminalVars, Waiting
  <2> QED
    BY <2>1, <2>2, <2>3
    DEF Settled, Alone, RequestFits, Waiting, Live, StatesFit, connVars, terminalVars, userVars
<1>11. CASE Type \/ UNCHANGED vars
  <2>1. UNCHANGED <<connVars, calls, sockets, activeWorkspaces, connectionState, workspaceReady, currentProject,
                    hurries, closes>>
    BY <1>11 DEF Type, vars, terminalVars, userVars
  <2> QED
    BY <1>5, <2>1 DEF Settled, Alone, InFlight, InUse, RequestFits, SocketFits, Waiting, Live, StatesFit, connVars
<1> QED
  BY <1>1, <1>2, <1>3, <1>4, <1>6, <1>7, <1>8, <1>9, <1>10, <1>11 DEF Next

-----------------------------------------------------------------------------
BufferFits == Len(inputBuffer) <= BufferMax

LEMMA StepBuffer == OrderInv /\ BufferFits /\ [Next]_vars => BufferFits'
<1> SUFFICES ASSUME OrderInv, BufferFits, [Next]_vars PROVE BufferFits'
  OBVIOUS
<1>1. BufferMax \in Nat
  BY SessionBounds
<1>2. CASE inputBuffer' = inputBuffer
  BY <1>2 DEF BufferFits
<1>3. CASE inputBuffer' = <<>>
  BY <1>1, <1>3 DEF BufferFits
<1>4. CASE Type /\ inputBuffer' # inputBuffer
  <2>1. inputBuffer' = Append(inputBuffer, typed') /\ Len(inputBuffer) < BufferMax /\ typed' = typed + 1
    BY <1>4 DEF Type
  <2> QED
    BY <1>1, <2>1 DEF OrderInv, BufferFits
<1> QED
  BY <1>2, <1>3, <1>4, StepKind DEF Quiet, Flush, Connected, Reset

\* A set whose elements are all the same one.
LEMMA AtMostOne ==
    ASSUME NEW S, \A x, y \in S : x = y
    PROVE  Cardinality(S) \in {0, 1} /\ (Cardinality(S) = 0 <=> S = {})
<1>1. CASE S = {}
  BY <1>1, FS_EmptySet
<1>2. CASE S # {}
  <2>1. PICK x \in S : S = {x}
    BY <1>2
  <2> QED
    BY <2>1, FS_Singleton
<1> QED BY <1>1, <1>2

LEMMA SessionTypes == TypesInv /\ BufferFits => SessionTypeOK
BY DEF TypesInv, BufferFits, SessionTypeOK, CallRecords, SocketRecords, InFlight, InUse, None

LEMMA OneActivity == PatientInv => (Patient => Cardinality(InFlight) + Cardinality(InUse) + Pending <= 1)
<1> SUFFICES ASSUME Alone
             PROVE  Cardinality(InFlight) + Cardinality(InUse) + Pending <= 1
  BY DEF PatientInv, Settled
<1>1. /\ Cardinality(InFlight) \in {0, 1} /\ (Cardinality(InFlight) = 0 <=> InFlight = {})
      /\ Cardinality(InUse) \in {0, 1} /\ (Cardinality(InUse) = 0 <=> InUse = {})
  BY AtMostOne DEF Alone
<1>2. Pending \in {0, 1} /\ (Pending = 1 => InFlight = {} /\ InUse = {})
  BY DEF Alone, Pending
<1> QED
  BY <1>1, <1>2 DEF Alone

\* The connection of every user keeps its types and limits, and that of a patient user is
\* one request, one socket or one timer: connect, onclose and attemptReconnect never leave
\* a second one behind.
THEOREM PatientUserHasOneSession == Spec => []OneSession
<1>1. Init => BufferFits
  BY SessionBounds DEF Init, BufferFits
<1>2. TypesInv /\ BufferFits /\ PatientInv => OneSession
  BY SessionTypes, OneActivity DEF OneSession
<1> QED
  BY <1>1, <1>2, InitTypes, StepTypes, InitPatient, StepPatient, InitOrder, StepKeepsOrder, StepBuffer, PTL DEF Spec

\* "connected" on the terminal means that a socket is up, and a socket that is up that the
\* terminal says so; and it is the watched socket of the project on the screen.
THEOREM ConnectedMeansConnected == Spec => []ConnectedIsReal
<1>1. TypesInv /\ PatientInv => ConnectedIsReal
  <2> SUFFICES ASSUME TypesInv, Settled
               PROVE  /\ connectionState = "connected" <=> Up # {}
                      /\ \A s \in Up : ws = s /\ keepalive /\ sockets[s].project = currentProject
                      /\ state = "CONNECTED" <=> connectionState = "connected"
    BY DEF PatientInv, ConnectedIsReal
  <2>1. ASSUME NEW s \in Up
        PROVE  connectionState = "connected" /\ ws = s /\ keepalive /\ sockets[s].project = currentProject
    <3>1. SocketFits(s)
      BY DEF Settled, Up, InUse, None
    <3> QED
      BY <3>1 DEF Settled, SocketFits, StatesFit, Live, Up
  <2>2. ASSUME connectionState = "connected" PROVE ws \in Up
    BY <2>2 DEF Settled, StatesFit, TypesInv, Up
  <2>3. state = "CONNECTED" <=> connectionState = "connected"
    BY DEF Settled, StatesFit
  <2> QED
    BY <2>1, <2>2, <2>3
<1> QED
  BY <1>1, InitTypes, StepTypes, InitPatient, StepPatient, PTL DEF Spec

\* The route of the REST calls and the readiness of the workspace follow the terminal's
\* state: set by onopen, withdrawn by attemptReconnect and disconnect.
THEOREM RouteFollowsConnection == Spec => []RoutingFollows
<1>1. PatientInv => RoutingFollows
  BY DEF PatientInv, Settled, StatesFit, Live, RoutingFollows
<1> QED
  BY <1>1, InitTypes, StepTypes, InitPatient, StepPatient, PTL DEF Spec

LateGivingUp ==
    (/\ Patient /\ ~intentionalDisconnect'
     /\ connectionState = "reconnecting" /\ connectionState' = "disconnected")
    => closes' > MAX_RECONNECT_ATTEMPTS

LEMMA StepGivesUpLate == TypesInv /\ PatientInv /\ [Next]_vars => [LateGivingUp]_vars
<1> SUFFICES ASSUME TypesInv, Settled, Next, ~intentionalDisconnect',
                    connectionState = "reconnecting", connectionState' = "disconnected"
             PROVE  closes' > MAX_RECONNECT_ATTEMPTS
  BY DEF LateGivingUp, PatientInv
<1>1. PICK s \in Sockets : OnClose(s)
  <2>1. ~(Disconnect \/ LeaveProject)
    BY DisconnectParts DEF Disconnect, LeaveProject
  <2>2. ~Connect /\ \A p \in Projects : ~OpenProject(p)
    BY ConnectParts DEF Connect, OpenProject
  <2>3. ~Type /\ ~TimerFires /\ ~KeepaliveTimeout /\ \A c \in Calls : ~Answer(c)
    BY DEF Type, TimerFires, KeepaliveTimeout, Answer, StartAnswers, StartFails, PollEnds, PollGivesUp, terminalVars
  <2>4. \A s \in Sockets : ~OnOpen(s)
    BY Announced DEF OnOpen
  <2> QED
    BY <2>1, <2>2, <2>3, <2>4 DEF Next
<1>2. ~intentionalDisconnect /\ SocketFits(s)
  BY <1>1 DEF OnClose, Settled, InUse
<1>3. AttemptReconnect
  BY <1>1, <1>2 DEF OnClose, SocketFits, terminalVars
<1>4. reconnectAttempt >= MAX_RECONNECT_ATTEMPTS
  BY <1>3, Announced DEF AttemptReconnect, Settled, StatesFit, Waiting
<1>5. closes >= reconnectAttempt
  BY DEF Settled
<1> QED
  BY <1>1, <1>4, <1>5, AttemptsAreNat DEF OnClose, TypesInv

\* No give-up before the attempts are spent: as many sockets closed in a row as there are
\* attempts, and one more.
THEOREM GivingUpIsLate == Spec => GivesUpLate
<1>1. Spec => [][LateGivingUp]_vars
  BY InitTypes, StepTypes, InitPatient, StepPatient, StepGivesUpLate, PTL DEF Spec
<1> QED
  BY <1>1 DEF GivesUpLate, LateGivingUp
=============================================================================
