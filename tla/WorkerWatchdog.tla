--------------------------- MODULE WorkerWatchdog ---------------------------
(***************************************************************************)
(* The clocks of one ChildProcessManager and its worker: the 5-minute      *)
(* start timeout, the watchdog's pings, the worker's own check for contact *)
(* with its parent, the crash window, the respawn backoff and the dead     *)
(* cooldown (child-process-manager.ts, project-worker.ts).                 *)
(*                                                                         *)
(* Time is discrete; every duration is a number of ticks.  The Router is   *)
(* prompt: a due timer or a message that arrived is handled before time    *)
(* passes.  The worker is prompt too, except while `blocked`: synchronous  *)
(* work then holds up its event loop, its timers included.                 *)
(***************************************************************************)
EXTENDS Integers

CONSTANTS
  InitTimeout,       \* spawn(): 5 minutes to become ready
  WatchdogInterval,  \* WATCHDOG_INTERVAL_MS
  MissedThreshold,   \* WATCHDOG_MISSED_THRESHOLD
  HeartbeatTimeout,  \* the worker's HEARTBEAT_TIMEOUT_MS
  CheckInterval,     \* how often the worker looks at it
  CrashWindow,       \* CRASH_WINDOW_MS
  CrashBudget,       \* CRASH_BUDGET
  DeadCooldown,      \* DEAD_COOLDOWN_MS
  BackoffBase,       \* first respawn delay (2 s)
  BackoffMax         \* longest respawn delay (30 s)

ASSUME DurationsAssumption ==
  /\ {InitTimeout, WatchdogInterval, MissedThreshold, HeartbeatTimeout,
      CheckInterval, CrashWindow, CrashBudget, DeadCooldown,
      BackoffBase, BackoffMax} \subseteq Nat \ {0}

\* How the durations fit together: a worker is restarted by the watchdog before it
\* gives up on its parent, and has started, or failed to, before the cooldown is over.
ASSUME TimeoutsAssumption ==
  /\ (MissedThreshold + 1) * WatchdogInterval <= HeartbeatTimeout
  /\ BackoffMax + InitTimeout < DeadCooldown

VARIABLES
  \* the manager
  mstate,       \* "initializing", "ready" or "dead"
  hasChild,     \* this.child is set
  crashCount,
  sinceCrash,   \* ticks since lastCrashTime, up to DeadCooldown
  age,          \* ticks since fork(), up to InitTimeout
  watchdog,     \* ticks to the next watchdog tick, Off when stopped
  missedPings,
  pendingPong,
  registered,   \* the manager became ready once: the Router respawns it
  respawnIn,    \* ticks to the end of a backoff, Off when none
  cooldownOn,   \* the cooldown timer is armed
  \* the worker
  wproc,        \* "init", "up", "failed", "exited" or "gone"
  blocked,      \* its event loop is held up
  blockedFor,   \* for how long, up to BlockCap
  contactAge,   \* ticks since lastParentContact, up to HeartbeatTimeout + 1
  check,        \* ticks to the worker's next heartbeat check
  \* IPC in flight
  readyMsg, pings, pong,
  \* history
  inTouch       \* this worker has answered a ping

managerVars == <<mstate, hasChild, crashCount, sinceCrash, age, watchdog,
                 missedPings, pendingPong, registered, respawnIn, cooldownOn>>
workerVars == <<wproc, blocked, blockedFor, contactAge, check>>
ipcVars == <<readyMsg, pings, pong>>
vars == <<managerVars, workerVars, ipcVars, inTouch>>

Off == -1
BlockCap == (MissedThreshold + 1) * WatchdogInterval + 1
Alive == wproc \in {"init", "up", "failed"}
Capped(n, cap) == IF n < cap THEN n + 1 ELSE cap
CountDown(n) == IF n > 0 THEN n - 1 ELSE n

\* respawn(): base * 2^(crashCount - 1), at most the maximum; a crashCount of
\* zero halves the base, which the tick does not resolve.
Backoff(n) ==
  LET delay == IF n = 0 THEN BackoffBase ELSE BackoffBase * 2^(n - 1)
  IN IF delay < BackoffMax THEN delay ELSE BackoffMax

-----------------------------------------------------------------------------
\* fork() and 'initialize', which the worker receives at once.
Started ==
  /\ mstate' = "initializing"
  /\ hasChild' = TRUE
  /\ age' = 0
  /\ wproc' = "init"
  /\ blocked' = FALSE
  /\ blockedFor' = 0
  /\ contactAge' = 0
  /\ check' = CheckInterval
  /\ inTouch' = FALSE
  /\ pings' = 0
  /\ pong' = FALSE

Init ==
  /\ mstate = "initializing" /\ hasChild = TRUE /\ age = 0
  /\ wproc = "init" /\ blocked = FALSE /\ blockedFor = 0 /\ contactAge = 0
  /\ check = CheckInterval
  /\ readyMsg = FALSE /\ pings = 0 /\ pong = FALSE
  /\ crashCount = 0 /\ sinceCrash = DeadCooldown
  /\ watchdog = Off /\ missedPings = 0 /\ pendingPong = FALSE
  /\ registered = FALSE /\ respawnIn = Off /\ cooldownOn = FALSE
  /\ inTouch = FALSE

\* kill(): stop the watchdog, SIGKILL, dead at once.
Kill ==
  /\ watchdog' = Off
  /\ hasChild' = FALSE
  /\ mstate' = "dead"
  /\ wproc' = "exited"

\* Mutants: missing pongs are never counted; every tick counts as a miss.
MissedNever == missedPings
MissedAlways == missedPings + 1

\* watchdogTick() counts a ping still unanswered.
Missed == IF pendingPong THEN missedPings + 1 ELSE missedPings

\* Mutant: a ping is answered and not noted as contact.
NoContact == UNCHANGED contactAge

\* Every message from the parent is contact.
Contact == contactAge' = 0

\* Mutant: the cooldown timer runs for the crash window only.
CooldownDueEarly == cooldownOn /\ sinceCrash >= CrashWindow

\* The cooldown timer is due.
CooldownDue == cooldownOn /\ sinceCrash = DeadCooldown

\* Nobody prompt has anything to do at this moment.
Idle ==
  /\ ~readyMsg /\ ~pong
  /\ wproc # "exited"
  /\ watchdog # 0
  /\ respawnIn # 0
  /\ ~(mstate = "initializing" /\ age = InitTimeout)
  /\ ~CooldownDue
  /\ Alive /\ ~blocked => pings = 0 /\ check # 0

-----------------------------------------------------------------------------
(* The manager                                                             *)

\* handleChildMessage('ready'): also for a child that was killed meanwhile.
HandleReady ==
  /\ readyMsg
  /\ readyMsg' = FALSE
  /\ mstate' = "ready"
  /\ crashCount' = 0
  /\ registered' = (registered \/ hasChild)
  /\ watchdog' = WatchdogInterval
  /\ missedPings' = 0
  /\ pendingPong' = FALSE
  /\ UNCHANGED <<hasChild, sinceCrash, age, respawnIn, cooldownOn,
                 workerVars, pings, pong, inTouch>>

\* The 5-minute timer of spawn().
StartTimeout ==
  /\ mstate = "initializing"
  /\ age = InitTimeout
  /\ Kill
  /\ UNCHANGED <<crashCount, sinceCrash, age, missedPings, pendingPong,
                 registered, respawnIn, cooldownOn, blocked, blockedFor,
                 contactAge, check, ipcVars, inTouch>>

\* watchdogTick() of a ready manager with a connected child: count a pong
\* still missing, restart at the threshold, else ping.
WatchdogTick ==
  /\ watchdog = 0
  /\ mstate = "ready" /\ hasChild /\ Alive
  /\ missedPings' = Missed
  /\ IF Missed > missedPings /\ Missed >= MissedThreshold
     THEN /\ Kill
          /\ UNCHANGED <<pendingPong, pings>>
     ELSE /\ watchdog' = WatchdogInterval
          /\ pendingPong' = TRUE
          /\ pings' = pings + 1
          /\ UNCHANGED <<mstate, hasChild, wproc>>
  /\ UNCHANGED <<crashCount, sinceCrash, age, registered, respawnIn, cooldownOn,
                 blocked, blockedFor, contactAge, check,
                 readyMsg, pong, inTouch>>

\* watchdogTick() returning early.
WatchdogIdle ==
  /\ watchdog = 0
  /\ ~(mstate = "ready" /\ hasChild /\ Alive)
  /\ watchdog' = WatchdogInterval
  /\ UNCHANGED <<mstate, hasChild, crashCount, sinceCrash, age, missedPings,
                 pendingPong, registered, respawnIn, cooldownOn, workerVars,
                 ipcVars, inTouch>>

\* handleChildMessage('heartbeat-pong').
HandlePong ==
  /\ pong
  /\ pong' = FALSE
  /\ pendingPong' = FALSE
  /\ missedPings' = 0
  /\ UNCHANGED <<mstate, hasChild, crashCount, sinceCrash, age, watchdog,
                 registered, respawnIn, cooldownOn, workerVars, readyMsg, pings,
                 inTouch>>

\* The exit handler.  The Router respawns a manager it registered, after the
\* budget check of respawn(); its 100 ms are below a tick.
HandleExit ==
  LET crashes == IF sinceCrash < CrashWindow THEN crashCount + 1 ELSE 1 IN
  /\ wproc = "exited"
  /\ ~readyMsg /\ ~pong
  /\ wproc' = "gone"
  /\ mstate' = "dead"
  /\ hasChild' = FALSE
  /\ watchdog' = Off
  /\ crashCount' = crashes
  /\ sinceCrash' = 0
  /\ cooldownOn' = TRUE
  /\ respawnIn' = IF registered /\ crashes < CrashBudget THEN Backoff(crashes) ELSE Off
  /\ UNCHANGED <<age, missedPings, pendingPong, registered,
                 blocked, blockedFor, contactAge, check, ipcVars, inTouch>>

\* The backoff ends: spawn().
Respawn ==
  /\ respawnIn = 0
  /\ wproc = "gone"
  /\ respawnIn' = Off
  /\ Started
  /\ UNCHANGED <<crashCount, sinceCrash, watchdog, missedPings, pendingPong,
                 registered, cooldownOn, readyMsg>>

\* The cooldown timer fires.
CooldownElapsed ==
  /\ CooldownDue
  /\ cooldownOn' = FALSE
  /\ crashCount' = 0
  /\ UNCHANGED <<mstate, hasChild, sinceCrash, age, watchdog, missedPings,
                 pendingPong, registered, respawnIn, workerVars, ipcVars,
                 inTouch>>

-----------------------------------------------------------------------------
(* The worker                                                              *)

\* Synchronous work starts, and ends, holding the event loop in between.
\* Work that starts before everyone caught up extends the block before it.
Block ==
  /\ Alive /\ ~blocked
  /\ Idle
  /\ blocked' = TRUE
  /\ blockedFor' = 0
  /\ UNCHANGED <<managerVars, wproc, contactAge, check, ipcVars,
                 inTouch>>

Unblock ==
  /\ Alive /\ blocked
  /\ blockedFor > 0
  /\ blocked' = FALSE
  /\ UNCHANGED <<managerVars, wproc, blockedFor, contactAge, check,
                 ipcVars, inTouch>>

\* initialize() completes, or throws and leaves the process running.
InitDone ==
  /\ wproc = "init" /\ ~blocked
  /\ wproc' = "up"
  /\ readyMsg' = TRUE
  /\ UNCHANGED <<managerVars, blocked, blockedFor, contactAge, check,
                 pings, pong, inTouch>>

InitFails ==
  /\ wproc = "init" /\ ~blocked
  /\ wproc' = "failed"
  /\ UNCHANGED <<managerVars, blocked, blockedFor, contactAge, check,
                 ipcVars, inTouch>>

\* heartbeat-ping: contact, and a pong for every ping.
HandlePing ==
  /\ Alive /\ ~blocked
  /\ pings > 0
  /\ pings' = pings - 1
  /\ pong' = TRUE
  /\ Contact
  /\ inTouch' = TRUE
  /\ UNCHANGED <<managerVars, wproc, blocked, blockedFor, check,
                 readyMsg>>

\* The worker's interval: too long without contact, it exits.
SelfExit ==
  /\ Alive /\ ~blocked
  /\ check = 0
  /\ contactAge > HeartbeatTimeout
  /\ wproc' = "exited"
  /\ UNCHANGED <<managerVars, blocked, blockedFor, contactAge, check,
                 ipcVars, inTouch>>

CheckPasses ==
  /\ Alive /\ ~blocked
  /\ check = 0
  /\ contactAge <= HeartbeatTimeout
  /\ check' = CheckInterval
  /\ UNCHANGED <<managerVars, wproc, blocked, blockedFor, contactAge,
                 ipcVars, inTouch>>

\* Any other end of the process.
Crash ==
  /\ Alive
  /\ wproc' = "exited"
  /\ UNCHANGED <<managerVars, blocked, blockedFor, contactAge, check,
                 ipcVars, inTouch>>

-----------------------------------------------------------------------------
\* Time passes.
Tick ==
  /\ Idle
  /\ age' = Capped(age, InitTimeout)
  /\ sinceCrash' = Capped(sinceCrash, DeadCooldown)
  /\ watchdog' = CountDown(watchdog)
  /\ respawnIn' = CountDown(respawnIn)
  /\ check' = CountDown(check)
  /\ contactAge' = Capped(contactAge, HeartbeatTimeout + 1)
  /\ blockedFor' = IF blocked THEN Capped(blockedFor, BlockCap) ELSE 0
  /\ UNCHANGED <<mstate, hasChild, crashCount, missedPings, pendingPong,
                 registered, cooldownOn, wproc, blocked, ipcVars, inTouch>>

Next ==
  \/ HandleReady \/ StartTimeout \/ WatchdogTick \/ WatchdogIdle
  \/ HandlePong \/ HandleExit \/ Respawn \/ CooldownElapsed
  \/ Block \/ Unblock \/ InitDone \/ InitFails \/ HandlePing
  \/ SelfExit \/ CheckPasses \/ Crash
  \/ Tick

Spec == Init /\ [][Next]_vars

-----------------------------------------------------------------------------
(* Properties                                                              *)

\* The types of all variables, the range of every clock.
TypeOK ==
  /\ mstate \in {"initializing", "ready", "dead"}
  /\ hasChild \in BOOLEAN /\ pendingPong \in BOOLEAN
  /\ registered \in BOOLEAN /\ cooldownOn \in BOOLEAN
  /\ blocked \in BOOLEAN /\ inTouch \in BOOLEAN
  /\ readyMsg \in BOOLEAN /\ pong \in BOOLEAN
  /\ wproc \in {"init", "up", "failed", "exited", "gone"}
  /\ crashCount \in 0..CrashBudget
  /\ missedPings \in 0..MissedThreshold
  /\ age \in 0..InitTimeout
  /\ sinceCrash \in 0..DeadCooldown
  /\ watchdog \in Off..WatchdogInterval
  /\ respawnIn \in Off..BackoffMax
  /\ blockedFor \in 0..BlockCap
  /\ contactAge \in 0..(HeartbeatTimeout + 1)
  /\ check \in 0..CheckInterval
  /\ pings \in 0..MissedThreshold

\* No worker that kept its event loop turning dies of the heartbeats: the one the
\* watchdog kills was blocked for MissedThreshold whole intervals, and once it answered
\* a ping, no worker gives up on its parent (a pause of its event loop long enough for
\* that has the watchdog restart it before).
OnlyBlockedIsKilled ==
  [][/\ mstate = "ready" /\ hasChild /\ wproc' = "exited" /\ ~hasChild'
          => blockedFor >= MissedThreshold * WatchdogInterval
     /\ SelfExit => ~inTouch]_vars

\* And it does restart a ready worker that stays blocked, one interval after
\* that at the latest; and every clock and counter stays in its range.
BlockedIsKilled ==
  /\ TypeOK
  /\ mstate = "ready" /\ Alive /\ blocked
       => blockedFor <= (MissedThreshold + 1) * WatchdogInterval

\* "If the child stays dead for DEAD_COOLDOWN_MS with no new crashes": though
\* a respawn does not stop the cooldown timer, it never forgives the crashes
\* of a manager that is starting a worker.
CooldownOnlyWhenDead ==
  [][cooldownOn /\ ~cooldownOn' /\ crashCount > 0 => mstate = "dead"]_vars

(* What the documentation says and the code does not do                    *)

\* "if child doesn't become ready within 5 minutes, consider it failed": a
\* starting worker does not give up by itself before the five minutes are over.
StartHasFiveMinutes ==
  [][SelfExit => ~(mstate = "initializing" /\ wproc = "init")]_vars
=============================================================================
