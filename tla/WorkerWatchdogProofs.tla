------------------------ MODULE WorkerWatchdogProofs ------------------------
(***************************************************************************)
(* Proofs about the clocks of a manager and its worker, for all durations  *)
(* that fit together (TimeoutsAssumption): the watchdog restarts workers   *)
(* that are blocked and no others, a worker in touch does not give up, and *)
(* the cooldown forgives no crash of a manager that is starting a worker.  *)
(***************************************************************************)
EXTENDS WorkerWatchdog, FiniteSetTheorems, TLAPS

-----------------------------------------------------------------------------
(* Durations                                                               *)

\* The duration of n intervals of the watchdog.
Intervals(n) == n * WatchdogInterval

LEMMA Durations ==
  /\ {InitTimeout, WatchdogInterval, MissedThreshold, HeartbeatTimeout,
      CheckInterval, CrashWindow, CrashBudget, DeadCooldown,
      BackoffBase, BackoffMax} \subseteq Nat
  /\ InitTimeout > 0 /\ WatchdogInterval > 0 /\ MissedThreshold > 0 /\ HeartbeatTimeout > 0
  /\ CheckInterval > 0 /\ CrashWindow > 0 /\ CrashBudget > 0 /\ DeadCooldown > 0
  /\ BackoffBase > 0 /\ BackoffMax > 0
  BY DurationsAssumption

LEMMA IntervalsAdd ==
  /\ Intervals(0) = 0
  /\ \A n \in Nat : Intervals(n) \in Nat /\ Intervals(n + 1) = Intervals(n) + WatchdogInterval
  BY Durations DEF Intervals

LEMMA IntervalsGrow ==
  ASSUME NEW m \in Nat, NEW n \in Nat, m <= n
  PROVE  Intervals(m) <= Intervals(n)
  BY Durations DEF Intervals

LEMMA LongestBlock ==
  /\ BlockCap \in Nat
  /\ Intervals(MissedThreshold + 1) \in Nat
  /\ BlockCap = Intervals(MissedThreshold + 1) + 1
  /\ Intervals(MissedThreshold + 1) <= HeartbeatTimeout
  BY Durations, TimeoutsAssumption DEF BlockCap, Intervals

\* A power of two counts the subsets of a finite set.
LEMMA PowersOfTwo ==
  ASSUME NEW n \in Nat
  PROVE  2^n \in Nat \ {0}
  <1>1. IsFiniteSet(1..n) /\ Cardinality(1..n) = n
    BY FS_Interval
  <1>2. IsFiniteSet(SUBSET (1..n)) /\ Cardinality(SUBSET (1..n)) = 2^n
    BY <1>1, FS_SUBSET
  <1>3. Cardinality(SUBSET (1..n)) \in Nat /\ SUBSET (1..n) # {}
    BY <1>2, FS_CardinalityType
  <1> QED BY <1>2, <1>3, FS_EmptySet

LEMMA BackoffRange ==
  ASSUME NEW n \in Nat
  PROVE  Backoff(n) \in 0..BackoffMax
  <1>1. CASE n = 0
    BY <1>1, Durations DEF Backoff
  <1>2. CASE n # 0
    <2> DEFINE power == 2^(n - 1)
    <2>1. power \in Nat
      BY <1>2, PowersOfTwo
    <2>2. Backoff(n) = IF BackoffBase * power < BackoffMax THEN BackoffBase * power ELSE BackoffMax
      BY <1>2 DEF Backoff
    <2> HIDE DEF power
    <2>3. BackoffBase * power \in Nat
      BY <2>1, Durations
    <2> QED BY <2>2, <2>3, Durations
  <1> QED BY <1>1, <1>2

-----------------------------------------------------------------------------
(* The inductive invariant                                                 *)

\* TypeOK in two parts.
Flags ==
  /\ mstate \in {"initializing", "ready", "dead"}
  /\ wproc \in {"init", "up", "failed", "exited", "gone"}
  /\ hasChild \in BOOLEAN /\ pendingPong \in BOOLEAN
  /\ registered \in BOOLEAN /\ cooldownOn \in BOOLEAN
  /\ blocked \in BOOLEAN /\ inTouch \in BOOLEAN
  /\ readyMsg \in BOOLEAN /\ pong \in BOOLEAN

Clocks ==
  /\ crashCount \in 0..CrashBudget /\ missedPings \in 0..MissedThreshold
  /\ age \in 0..InitTimeout /\ sinceCrash \in 0..DeadCooldown
  /\ watchdog \in Off..WatchdogInterval /\ respawnIn \in Off..BackoffMax
  /\ blockedFor \in 0..BlockCap /\ contactAge \in 0..(HeartbeatTimeout + 1)
  /\ check \in 0..CheckInterval /\ pings \in 0..MissedThreshold

LEMMA TypesOf == TypeOK <=> Flags /\ Clocks
  BY DEF TypeOK, Flags, Clocks

Ready == mstate = "ready" /\ Alive

\* What the manager believes of its worker; crashes are counted up to the budget.
Processes ==
  /\ Alive => hasChild /\ mstate \in {"initializing", "ready"}
  /\ wproc = "init" => mstate = "initializing" /\ ~readyMsg
  /\ Alive /\ mstate = "initializing" => pings = 0 /\ ~pong /\ ~inTouch
  /\ Alive /\ readyMsg => mstate = "initializing" /\ ~blocked
  /\ wproc = "gone" => ~readyMsg /\ mstate = "dead"
  /\ wproc # "gone" => crashCount < CrashBudget /\ respawnIn = Off
  /\ respawnIn # Off => crashCount < CrashBudget
  /\ mstate = "ready" => crashCount = 0

\* A crash is no longer ago than its backoff and the start that followed.
Cooling ==
  /\ respawnIn # Off => sinceCrash + respawnIn <= BackoffMax
  /\ cooldownOn /\ mstate = "initializing" => sinceCrash <= BackoffMax + age

\* The longest that the worker can have been silent, in view of its watchdog: the
\* intervals missed, and what has passed of this one.
Silence ==
  (IF pendingPong THEN Intervals(missedPings + 1) ELSE 0) + (WatchdogInterval - watchdog)

\* A ping is unanswered because the worker was blocked as long as it is; a worker is not
\* blocked for longer, and was in touch since.
Watched ==
  Ready =>
    /\ watchdog \in 0..WatchdogInterval
    /\ missedPings < MissedThreshold
    /\ ~pendingPong => missedPings = 0
    /\ pendingPong => /\ pings > 0 \/ pong
                      /\ Intervals(missedPings) + (WatchdogInterval - watchdog) <= blockedFor
    /\ blocked => blockedFor <= Silence
    /\ inTouch => contactAge <= Silence
    /\ pong => ~blocked /\ contactAge = 0

\* Pings wait while the worker is blocked, one for each that was missed and one more;
\* others wait only while it is answering.
PingsFit ==
  Ready =>
    \/ pings <= missedPings + (IF pendingPong /\ ~pong THEN 1 ELSE 0)
    \/ ~blocked /\ (watchdog = 0 => pings < MissedThreshold)

WatchdogInv == Flags /\ Clocks /\ Processes /\ Cooling /\ Watched /\ PingsFit

-----------------------------------------------------------------------------
(* Every step keeps it                                                     *)

\* The intervals that the invariant speaks of, as numbers.
LEMMA SilenceRange ==
  ASSUME Clocks
  PROVE  /\ Intervals(missedPings) \in Nat
         /\ Intervals(missedPings + 1) = Intervals(missedPings) + WatchdogInterval
         /\ Intervals(missedPings + 2) = Intervals(missedPings + 1) + WatchdogInterval
         /\ missedPings < MissedThreshold =>
              Intervals(missedPings + 2) <= Intervals(MissedThreshold + 1)
  <1>1. missedPings \in Nat
    BY Durations DEF Clocks
  <1>2. Intervals(missedPings + 1 + 1) = Intervals(missedPings + 1) + WatchdogInterval
    BY <1>1, IntervalsAdd
  <1>3. missedPings + 1 + 1 = missedPings + 2
    BY <1>1
  <1>4. CASE missedPings < MissedThreshold
    <2>1. missedPings + 2 \in Nat /\ MissedThreshold + 1 \in Nat
          /\ missedPings + 2 <= MissedThreshold + 1
      BY <1>1, <1>4, Durations
    <2> QED BY <1>1, <1>2, <1>3, <2>1, IntervalsAdd, IntervalsGrow
  <1> QED BY <1>1, <1>2, <1>3, <1>4, IntervalsAdd

LEMMA SilenceIsBounded ==
  ASSUME WatchdogInv, Ready
  PROVE  Silence <= Intervals(MissedThreshold + 1)
  <1>1. /\ missedPings < MissedThreshold /\ watchdog \in 0..WatchdogInterval /\ Clocks
        /\ missedPings \in Nat
    BY DEF WatchdogInv, Watched, Clocks
  <1>2. Intervals(missedPings + 2) <= Intervals(MissedThreshold + 1)
    BY <1>1, SilenceRange, Zenon
  <1>3. /\ Intervals(missedPings) \in Nat
        /\ Intervals(missedPings + 1) = Intervals(missedPings) + WatchdogInterval
        /\ Intervals(missedPings + 2) = Intervals(missedPings + 1) + WatchdogInterval
    BY <1>1, SilenceRange, Zenon
  <1>4. MissedThreshold + 1 \in Nat
    BY Durations
  <1>5. Intervals(MissedThreshold + 1) \in Nat
    BY <1>4, IntervalsAdd
  <1> QED BY <1>1, <1>2, <1>3, <1>5, Durations DEF Silence

LEMMA MissesAreShort ==
  ASSUME WatchdogInv, Ready
  PROVE  Intervals(missedPings) + WatchdogInterval < BlockCap
  <1>1. missedPings < MissedThreshold /\ Clocks
    BY DEF WatchdogInv, Watched
  <1>2. Intervals(missedPings + 2) <= Intervals(MissedThreshold + 1)
    BY <1>1, SilenceRange, Zenon
  <1>3. /\ Intervals(missedPings) \in Nat
        /\ Intervals(missedPings + 1) = Intervals(missedPings) + WatchdogInterval
        /\ Intervals(missedPings + 2) = Intervals(missedPings + 1) + WatchdogInterval
    BY <1>1, SilenceRange, Zenon
  <1> QED BY <1>2, <1>3, LongestBlock, Durations

LEMMA InitInv == Init => WatchdogInv
  <1> SUFFICES ASSUME Init PROVE WatchdogInv
    OBVIOUS
  <1>1. Flags /\ Clocks
    <2>1. Flags
      BY DEF Init, Flags
    <2>2. Clocks
      BY Durations, LongestBlock DEF Init, Clocks, Off
    <2> QED BY <2>1, <2>2
  <1>2. Processes /\ Cooling
    BY Durations DEF Init, Processes, Cooling, Alive, Off
  <1>3. Watched /\ PingsFit
    BY DEF Init, Watched, PingsFit, Ready
  <1> QED BY <1>1, <1>2, <1>3 DEF WatchdogInv

LEMMA HandleReadyKeeps ==
  ASSUME WatchdogInv, HandleReady
  PROVE  WatchdogInv'
  <1> USE Durations DEF WatchdogInv, HandleReady, managerVars, workerVars, ipcVars
  <1>0. Flags'
    BY DEF Flags
  <1>1. Clocks'
    BY LongestBlock, BackoffRange DEF Flags, Clocks, Off, Processes, Alive, Watched, PingsFit, Ready
  <1>2. Processes'
    BY DEF Flags, Clocks, Processes, Alive, Off
  <1>3. Cooling'
    BY BackoffRange, TimeoutsAssumption DEF Flags, Clocks, Cooling, Processes, Alive, Off
  <1>4. Watched'
    BY IntervalsAdd, SilenceRange, LongestBlock DEF Flags, Clocks, Watched, Silence, Ready, Processes, Alive, Off
  <1>5. PingsFit'
    BY DEF Flags, Clocks, PingsFit, Watched, Ready, Processes, Alive, Off
  <1> QED BY <1>0, <1>1, <1>2, <1>3, <1>4, <1>5

LEMMA StartTimeoutKeeps ==
  ASSUME WatchdogInv, StartTimeout
  PROVE  WatchdogInv'
  <1> USE Durations DEF WatchdogInv, StartTimeout, Kill, managerVars, workerVars, ipcVars
  <1>0. Flags'
    BY DEF Flags
  <1>1. Clocks'
    BY LongestBlock, BackoffRange DEF Flags, Clocks, Off, Processes, Alive, Watched, PingsFit, Ready
  <1>2. Processes'
    BY DEF Flags, Clocks, Processes, Alive, Off
  <1>3. Cooling'
    BY BackoffRange, TimeoutsAssumption DEF Flags, Clocks, Cooling, Processes, Alive, Off
  <1>4. Watched'
    BY IntervalsAdd, SilenceRange, LongestBlock DEF Flags, Clocks, Watched, Silence, Ready, Processes, Alive, Off
  <1>5. PingsFit'
    BY DEF Flags, Clocks, PingsFit, Watched, Ready, Processes, Alive, Off
  <1> QED BY <1>0, <1>1, <1>2, <1>3, <1>4, <1>5

LEMMA WatchdogTickKeeps ==
  ASSUME WatchdogInv, WatchdogTick
  PROVE  WatchdogInv'
  <1> USE Durations DEF WatchdogInv
  <1>0. /\ Ready /\ watchdog = 0 /\ missedPings' = Missed
        /\ missedPings \in Nat /\ missedPings < MissedThreshold
        /\ UNCHANGED <<crashCount, sinceCrash, age, registered, respawnIn, cooldownOn,
                       blocked, blockedFor, contactAge, check, readyMsg, pong, inTouch>>
    BY DEF WatchdogTick, Ready, Watched, Clocks
  <1>1. Missed = IF pendingPong THEN missedPings + 1 ELSE missedPings
    BY DEF Missed
  <1>2. CASE Missed > missedPings /\ Missed >= MissedThreshold
    <2>1. /\ watchdog' = Off /\ hasChild' = FALSE /\ mstate' = "dead" /\ wproc' = "exited"
          /\ pendingPong' = pendingPong /\ pings' = pings
      BY <1>2 DEF WatchdogTick, Kill
    <2>2. ~Ready'
      BY <2>1 DEF Ready, Alive
    <2>3. Flags'
      BY <1>0, <2>1 DEF Flags
    <2>4. Clocks'
      BY <1>0, <1>1, <2>1 DEF Clocks, Off
    <2>5. Processes' /\ Cooling'
      BY <1>0, <2>1 DEF Processes, Cooling, Ready, Alive
    <2> QED BY <2>2, <2>3, <2>4, <2>5 DEF Watched, PingsFit
  <1>3. CASE ~(Missed > missedPings /\ Missed >= MissedThreshold)
    <2>1. /\ watchdog' = WatchdogInterval /\ pendingPong' = TRUE /\ pings' = pings + 1
          /\ UNCHANGED <<mstate, hasChild, wproc>>
      BY <1>3 DEF WatchdogTick
    <2>2. missedPings' \in Nat /\ missedPings' < MissedThreshold
      BY <1>0, <1>1, <1>3
    <2>3. pings < MissedThreshold
      BY <1>0, <1>1, <1>3 DEF PingsFit, Watched, Clocks
    <2>4. Flags'
      BY <1>0, <2>1 DEF Flags
    <2>5. Clocks'
      BY <1>0, <2>1, <2>2, <2>3 DEF Clocks, Off
    <2>6. Processes' /\ Cooling'
      BY <1>0, <2>1 DEF Processes, Cooling, Ready, Alive
    <2>7. PingsFit'
      <3>1. CASE pings <= missedPings + (IF pendingPong /\ ~pong THEN 1 ELSE 0)
        BY <1>0, <1>1, <2>1, <3>1 DEF PingsFit, Clocks, Watched, Flags
      <3>2. CASE ~blocked
        BY <1>0, <2>1, <3>2 DEF PingsFit
      <3> QED BY <1>0, <3>1, <3>2 DEF PingsFit
    <2>8. Watched'
      <3>1. Silence' = Intervals(missedPings' + 1)
        BY <2>1, <2>2, IntervalsAdd DEF Silence
      <3>2. Silence = IF pendingPong THEN Intervals(missedPings + 1) + WatchdogInterval ELSE WatchdogInterval
        BY <1>0, <2>1, IntervalsAdd DEF Silence
      <3>3. CASE pendingPong
        <4>1. missedPings' = missedPings + 1
          BY <1>0, <1>1, <3>3
        <4>2. Silence' = Silence
          <5>1. missedPings' + 1 = missedPings + 2
            BY <1>0, <4>1
          <5> QED BY <3>1, <3>2, <3>3, <5>1, SilenceRange
        <4>3. Intervals(missedPings') + (WatchdogInterval - watchdog') <= blockedFor
          BY <1>0, <2>1, <3>3, <4>1, SilenceRange DEF Watched
        <4> QED BY <1>0, <2>1, <2>2, <4>2, <4>3 DEF Watched, Clocks
      <3>4. CASE ~pendingPong
        <4>1. missedPings' = 0
          BY <1>0, <1>1, <3>4 DEF Watched
        <4>2. Silence' = Silence
          BY <3>1, <3>2, <3>4, <4>1, IntervalsAdd
        <4>3. Intervals(missedPings') + (WatchdogInterval - watchdog') <= blockedFor
          BY <1>0, <2>1, <4>1, IntervalsAdd DEF Clocks
        <4> QED BY <1>0, <2>1, <2>2, <4>2, <4>3 DEF Watched, Clocks
      <3> QED BY <3>3, <3>4
    <2> QED BY <2>4, <2>5, <2>6, <2>7, <2>8
  <1> QED BY <1>2, <1>3

LEMMA WatchdogIdleKeeps ==
  ASSUME WatchdogInv, WatchdogIdle
  PROVE  WatchdogInv'
  <1> USE Durations DEF WatchdogInv, WatchdogIdle, managerVars, workerVars, ipcVars
  <1>0. Flags'
    BY DEF Flags
  <1>1. Clocks'
    BY LongestBlock, BackoffRange DEF Flags, Clocks, Off, Processes, Alive, Watched, PingsFit, Ready
  <1>2. Processes'
    BY DEF Flags, Clocks, Processes, Alive, Off
  <1>3. Cooling'
    BY BackoffRange, TimeoutsAssumption DEF Flags, Clocks, Cooling, Processes, Alive, Off
  <1>4. Watched'
    BY IntervalsAdd, SilenceRange, LongestBlock DEF Flags, Clocks, Watched, Silence, Ready, Processes, Alive, Off
  <1>5. PingsFit'
    BY DEF Flags, Clocks, PingsFit, Watched, Ready, Processes, Alive, Off
  <1> QED BY <1>0, <1>1, <1>2, <1>3, <1>4, <1>5

LEMMA HandlePongKeeps ==
  ASSUME WatchdogInv, HandlePong
  PROVE  WatchdogInv'
  <1> USE Durations DEF WatchdogInv, HandlePong, managerVars, workerVars, ipcVars
  <1>0. Flags'
    BY DEF Flags
  <1>1. Clocks'
    BY LongestBlock, BackoffRange DEF Flags, Clocks, Off, Processes, Alive, Watched, PingsFit, Ready
  <1>2. Processes'
    BY DEF Flags, Clocks, Processes, Alive, Off
  <1>3. Cooling'
    BY BackoffRange, TimeoutsAssumption DEF Flags, Clocks, Cooling, Processes, Alive, Off
  <1>4. Watched'
    BY IntervalsAdd, SilenceRange, LongestBlock DEF Flags, Clocks, Watched, Silence, Ready, Processes, Alive, Off
  <1>5. PingsFit'
    BY DEF Flags, Clocks, PingsFit, Watched, Ready, Processes, Alive, Off
  <1> QED BY <1>0, <1>1, <1>2, <1>3, <1>4, <1>5

LEMMA HandleExitKeeps ==
  ASSUME WatchdogInv, HandleExit
  PROVE  WatchdogInv'
  <1> USE Durations DEF WatchdogInv, HandleExit, managerVars, workerVars, ipcVars
  <1>0. Flags'
    BY DEF Flags
  <1>1. Clocks'
    BY LongestBlock, BackoffRange DEF Flags, Clocks, Off, Processes, Alive, Watched, PingsFit, Ready
  <1>2. Processes'
    BY DEF Flags, Clocks, Processes, Alive, Off
  <1>3. Cooling'
    BY BackoffRange, TimeoutsAssumption DEF Flags, Clocks, Cooling, Processes, Alive, Off
  <1>4. Watched'
    BY IntervalsAdd, SilenceRange, LongestBlock DEF Flags, Clocks, Watched, Silence, Ready, Processes, Alive, Off
  <1>5. PingsFit'
    BY DEF Flags, Clocks, PingsFit, Watched, Ready, Processes, Alive, Off
  <1> QED BY <1>0, <1>1, <1>2, <1>3, <1>4, <1>5

LEMMA RespawnKeeps ==
  ASSUME WatchdogInv, Respawn
  PROVE  WatchdogInv'
  <1> USE Durations DEF WatchdogInv, Respawn, Started, managerVars, workerVars, ipcVars
  <1>0. Flags'
    BY DEF Flags
  <1>1. Clocks'
    BY LongestBlock, BackoffRange DEF Flags, Clocks, Off, Processes, Alive, Watched, PingsFit, Ready
  <1>2. Processes'
    BY DEF Flags, Clocks, Processes, Alive, Off
  <1>3. Cooling'
    BY BackoffRange, TimeoutsAssumption DEF Flags, Clocks, Cooling, Processes, Alive, Off
  <1>4. Watched'
    BY IntervalsAdd, SilenceRange, LongestBlock DEF Flags, Clocks, Watched, Silence, Ready, Processes, Alive, Off
  <1>5. PingsFit'
    BY DEF Flags, Clocks, PingsFit, Watched, Ready, Processes, Alive, Off
  <1> QED BY <1>0, <1>1, <1>2, <1>3, <1>4, <1>5

LEMMA CooldownElapsedKeeps ==
  ASSUME WatchdogInv, CooldownElapsed
  PROVE  WatchdogInv'
  <1> USE Durations DEF WatchdogInv, CooldownElapsed, CooldownDue, managerVars, workerVars, ipcVars
  <1>0. Flags'
    BY DEF Flags
  <1>1. Clocks'
    BY LongestBlock, BackoffRange DEF Flags, Clocks, Off, Processes, Alive, Watched, PingsFit, Ready
  <1>2. Processes'
    BY DEF Flags, Clocks, Processes, Alive, Off
  <1>3. Cooling'
    BY BackoffRange, TimeoutsAssumption DEF Flags, Clocks, Cooling, Processes, Alive, Off
  <1>4. Watched'
    BY IntervalsAdd, SilenceRange, LongestBlock DEF Flags, Clocks, Watched, Silence, Ready, Processes, Alive, Off
  <1>5. PingsFit'
    BY DEF Flags, Clocks, PingsFit, Watched, Ready, Processes, Alive, Off
  <1> QED BY <1>0, <1>1, <1>2, <1>3, <1>4, <1>5

LEMMA BlockKeeps ==
  ASSUME WatchdogInv, Block
  PROVE  WatchdogInv'
  <1> USE Durations DEF WatchdogInv, Block, Idle, managerVars, workerVars, ipcVars
  <1>0. Flags'
    BY DEF Flags
  <1>1. Clocks'
    BY LongestBlock, BackoffRange DEF Flags, Clocks, Off, Processes, Alive, Watched, PingsFit, Ready
  <1>2. Processes'
    BY DEF Flags, Clocks, Processes, Alive, Off
  <1>3. Cooling'
    BY BackoffRange, TimeoutsAssumption DEF Flags, Clocks, Cooling, Processes, Alive, Off
  <1>4. Watched'
    BY IntervalsAdd, SilenceRange, LongestBlock DEF Flags, Clocks, Watched, Silence, Ready, Processes, Alive, Off
  <1>5. PingsFit'
    BY DEF Flags, Clocks, PingsFit, Watched, Ready, Processes, Alive, Off
  <1> QED BY <1>0, <1>1, <1>2, <1>3, <1>4, <1>5

LEMMA UnblockKeeps ==
  ASSUME WatchdogInv, Unblock
  PROVE  WatchdogInv'
  <1> USE Durations DEF WatchdogInv, Unblock, managerVars, workerVars, ipcVars
  <1>0. Flags'
    BY DEF Flags
  <1>1. Clocks'
    BY LongestBlock, BackoffRange DEF Flags, Clocks, Off, Processes, Alive, Watched, PingsFit, Ready
  <1>2. Processes'
    BY DEF Flags, Clocks, Processes, Alive, Off
  <1>3. Cooling'
    BY BackoffRange, TimeoutsAssumption DEF Flags, Clocks, Cooling, Processes, Alive, Off
  <1>4. Watched'
    BY IntervalsAdd, SilenceRange, LongestBlock DEF Flags, Clocks, Watched, Silence, Ready, Processes, Alive, Off
  <1>5. PingsFit'
    BY DEF Flags, Clocks, PingsFit, Watched, Ready, Processes, Alive, Off
  <1> QED BY <1>0, <1>1, <1>2, <1>3, <1>4, <1>5

LEMMA InitDoneKeeps ==
  ASSUME WatchdogInv, InitDone
  PROVE  WatchdogInv'
  <1> USE Durations DEF WatchdogInv, InitDone, managerVars, workerVars, ipcVars
  <1>0. Flags'
    BY DEF Flags
  <1>1. Clocks'
    BY LongestBlock, BackoffRange DEF Flags, Clocks, Off, Processes, Alive, Watched, PingsFit, Ready
  <1>2. Processes'
    BY DEF Flags, Clocks, Processes, Alive, Off
  <1>3. Cooling'
    BY BackoffRange, TimeoutsAssumption DEF Flags, Clocks, Cooling, Processes, Alive, Off
  <1>4. Watched'
    BY IntervalsAdd, SilenceRange, LongestBlock DEF Flags, Clocks, Watched, Silence, Ready, Processes, Alive, Off
  <1>5. PingsFit'
    BY DEF Flags, Clocks, PingsFit, Watched, Ready, Processes, Alive, Off
  <1> QED BY <1>0, <1>1, <1>2, <1>3, <1>4, <1>5

LEMMA InitFailsKeeps ==
  ASSUME WatchdogInv, InitFails
  PROVE  WatchdogInv'
  <1> USE Durations DEF WatchdogInv, InitFails, managerVars, workerVars, ipcVars
  <1>0. Flags'
    BY DEF Flags
  <1>1. Clocks'
    BY LongestBlock, BackoffRange DEF Flags, Clocks, Off, Processes, Alive, Watched, PingsFit, Ready
  <1>2. Processes'
    BY DEF Flags, Clocks, Processes, Alive, Off
  <1>3. Cooling'
    BY BackoffRange, TimeoutsAssumption DEF Flags, Clocks, Cooling, Processes, Alive, Off
  <1>4. Watched'
    BY IntervalsAdd, SilenceRange, LongestBlock DEF Flags, Clocks, Watched, Silence, Ready, Processes, Alive, Off
  <1>5. PingsFit'
    BY DEF Flags, Clocks, PingsFit, Watched, Ready, Processes, Alive, Off
  <1> QED BY <1>0, <1>1, <1>2, <1>3, <1>4, <1>5

LEMMA HandlePingKeeps ==
  ASSUME WatchdogInv, HandlePing
  PROVE  WatchdogInv'
  <1> USE Durations DEF WatchdogInv, HandlePing, Contact, managerVars, workerVars, ipcVars
  <1>0. Flags'
    BY DEF Flags
  <1>1. Clocks'
    BY LongestBlock, BackoffRange DEF Flags, Clocks, Off, Processes, Alive, Watched, PingsFit, Ready
  <1>2. Processes'
    BY DEF Flags, Clocks, Processes, Alive, Off
  <1>3. Cooling'
    BY BackoffRange, TimeoutsAssumption DEF Flags, Clocks, Cooling, Processes, Alive, Off
  <1>4. Watched'
    BY IntervalsAdd, SilenceRange, LongestBlock DEF Flags, Clocks, Watched, Silence, Ready, Processes, Alive, Off
  <1>5. PingsFit'
    BY DEF Flags, Clocks, PingsFit, Watched, Ready, Processes, Alive, Off
  <1> QED BY <1>0, <1>1, <1>2, <1>3, <1>4, <1>5

LEMMA SelfExitKeeps ==
  ASSUME WatchdogInv, SelfExit
  PROVE  WatchdogInv'
  <1> USE Durations DEF WatchdogInv, SelfExit, managerVars, workerVars, ipcVars
  <1>0. Flags'
    BY DEF Flags
  <1>1. Clocks'
    BY LongestBlock, BackoffRange DEF Flags, Clocks, Off, Processes, Alive, Watched, PingsFit, Ready
  <1>2. Processes'
    BY DEF Flags, Clocks, Processes, Alive, Off
  <1>3. Cooling'
    BY BackoffRange, TimeoutsAssumption DEF Flags, Clocks, Cooling, Processes, Alive, Off
  <1>4. Watched'
    BY IntervalsAdd, SilenceRange, LongestBlock DEF Flags, Clocks, Watched, Silence, Ready, Processes, Alive, Off
  <1>5. PingsFit'
    BY DEF Flags, Clocks, PingsFit, Watched, Ready, Processes, Alive, Off
  <1> QED BY <1>0, <1>1, <1>2, <1>3, <1>4, <1>5

LEMMA CheckPassesKeeps ==
  ASSUME WatchdogInv, CheckPasses
  PROVE  WatchdogInv'
  <1> USE Durations DEF WatchdogInv, CheckPasses, managerVars, workerVars, ipcVars
  <1>0. Flags'
    BY DEF Flags
  <1>1. Clocks'
    BY LongestBlock, BackoffRange DEF Flags, Clocks, Off, Processes, Alive, Watched, PingsFit, Ready
  <1>2. Processes'
    BY DEF Flags, Clocks, Processes, Alive, Off
  <1>3. Cooling'
    BY BackoffRange, TimeoutsAssumption DEF Flags, Clocks, Cooling, Processes, Alive, Off
  <1>4. Watched'
    BY IntervalsAdd, SilenceRange, LongestBlock DEF Flags, Clocks, Watched, Silence, Ready, Processes, Alive, Off
  <1>5. PingsFit'
    BY DEF Flags, Clocks, PingsFit, Watched, Ready, Processes, Alive, Off
  <1> QED BY <1>0, <1>1, <1>2, <1>3, <1>4, <1>5

LEMMA CrashKeeps ==
  ASSUME WatchdogInv, Crash
  PROVE  WatchdogInv'
  <1> USE Durations DEF WatchdogInv, Crash, managerVars, workerVars, ipcVars
  <1>0. Flags'
    BY DEF Flags
  <1>1. Clocks'
    BY LongestBlock, BackoffRange DEF Flags, Clocks, Off, Processes, Alive, Watched, PingsFit, Ready
  <1>2. Processes'
    BY DEF Flags, Clocks, Processes, Alive, Off
  <1>3. Cooling'
    BY BackoffRange, TimeoutsAssumption DEF Flags, Clocks, Cooling, Processes, Alive, Off
  <1>4. Watched'
    BY IntervalsAdd, SilenceRange, LongestBlock DEF Flags, Clocks, Watched, Silence, Ready, Processes, Alive, Off
  <1>5. PingsFit'
    BY DEF Flags, Clocks, PingsFit, Watched, Ready, Processes, Alive, Off
  <1> QED BY <1>0, <1>1, <1>2, <1>3, <1>4, <1>5

LEMMA TickKeeps ==
  ASSUME WatchdogInv, Tick
  PROVE  WatchdogInv'
  <1> USE Durations DEF WatchdogInv, Tick, Idle, Capped, CountDown, managerVars, workerVars, ipcVars
  <1>0. Flags'
    BY DEF Flags
  <1>1. Clocks'
    BY LongestBlock, BackoffRange DEF Flags, Clocks, Off, Processes, Alive, Watched, PingsFit, Ready
  <1>2. Processes'
    BY DEF Flags, Clocks, Processes, Alive, Off
  <1>3. Cooling'
    BY BackoffRange, TimeoutsAssumption DEF Flags, Clocks, Cooling, Processes, Alive, Off
  <1>4. Watched'
    <2>1. CASE Ready
      <3>1. /\ watchdog > 0 /\ watchdog' = watchdog - 1 /\ watchdog \in Nat
            /\ ~pong /\ UNCHANGED <<missedPings, pendingPong, blocked, inTouch, pong, pings>>
        BY <2>1 DEF Watched
      <3>2. Silence' = Silence + 1 /\ Silence \in Nat
        BY <2>1, <3>1, SilenceRange DEF Silence, Watched, Clocks
      <3>3. /\ contactAge' <= contactAge + 1
            /\ blocked => blockedFor' <= blockedFor + 1
        BY LongestBlock DEF Clocks
      <3>4. ASSUME pendingPong
            PROVE  pings > 0 /\ Intervals(missedPings) + (WatchdogInterval - watchdog') <= blockedFor'
        <4>1. blocked /\ pings > 0
          BY <2>1, <3>1, <3>4 DEF Watched, Ready
        <4>2. Intervals(missedPings) + WatchdogInterval < BlockCap
          BY <2>1, MissesAreShort, Zenon
        <4> QED BY <2>1, <3>1, <3>4, <4>1, <4>2, SilenceRange, LongestBlock DEF Watched, Clocks
      <3> QED BY <2>1, <3>1, <3>2, <3>3, <3>4, LongestBlock DEF Watched, Clocks, Flags
    <2>2. CASE ~Ready
      BY <2>2 DEF Ready, Watched, Alive
    <2> QED BY <2>1, <2>2
  <1>5. PingsFit'
    BY DEF Flags, Clocks, PingsFit, Watched, Ready, Processes, Alive, Off
  <1> QED BY <1>0, <1>1, <1>2, <1>3, <1>4, <1>5

LEMMA NextInv == WatchdogInv /\ [Next]_vars => WatchdogInv'
  <1> SUFFICES ASSUME WatchdogInv, [Next]_vars PROVE WatchdogInv'
    OBVIOUS
  <1>1. CASE Next
    BY <1>1, HandleReadyKeeps, StartTimeoutKeeps, WatchdogTickKeeps, WatchdogIdleKeeps,
       HandlePongKeeps, HandleExitKeeps, RespawnKeeps, CooldownElapsedKeeps, BlockKeeps,
       UnblockKeeps, InitDoneKeeps, InitFailsKeeps, HandlePingKeeps, SelfExitKeeps,
       CheckPassesKeeps, CrashKeeps, TickKeeps
    DEF Next
  <1>2. CASE UNCHANGED vars
    <2> USE <1>2 DEF WatchdogInv, vars, managerVars, workerVars, ipcVars
    <2>1. Flags' /\ Clocks'
      BY DEF Flags, Clocks
    <2>2. Processes' /\ Cooling'
      BY DEF Processes, Cooling, Alive
    <2>3. Watched' /\ PingsFit'
      BY DEF Watched, PingsFit, Silence, Ready, Alive
    <2> QED BY <2>1, <2>2, <2>3
  <1> QED BY <1>1, <1>2

LEMMA WatchdogInductive == Spec => []WatchdogInv
  BY InitInv, NextInv, PTL DEF Spec

-----------------------------------------------------------------------------
(* The theorems                                                            *)

\* A ready worker that stays blocked is restarted after MissedThreshold intervals of the
\* watchdog and one more at the latest, and every clock and counter stays in its range.
THEOREM BlockedAreAlwaysKilled == Spec => []BlockedIsKilled
  <1>1. WatchdogInv => BlockedIsKilled
    <2> SUFFICES ASSUME WatchdogInv PROVE BlockedIsKilled
      OBVIOUS
    <2>1. TypeOK
      BY TypesOf DEF WatchdogInv
    <2>2. ASSUME Ready, blocked PROVE blockedFor <= (MissedThreshold + 1) * WatchdogInterval
      <3>1. blockedFor <= Silence /\ blockedFor \in Nat
        BY <2>2, LongestBlock DEF WatchdogInv, Watched, Clocks
      <3>2. Silence <= Intervals(MissedThreshold + 1)
        BY <2>2, SilenceIsBounded
      <3>3. Silence \in Int
        BY <2>2, SilenceRange, Durations DEF WatchdogInv, Watched, Silence
      <3>4. Intervals(MissedThreshold + 1) = (MissedThreshold + 1) * WatchdogInterval
            /\ Intervals(MissedThreshold + 1) \in Nat
        BY Durations DEF Intervals
      <3> QED BY <3>1, <3>2, <3>3, <3>4
    <2> QED BY <2>1, <2>2 DEF BlockedIsKilled, Ready
  <1> QED BY <1>1, WatchdogInductive, PTL

\* A step of OnlyBlockedIsKilled.
KilledWasBlocked ==
  /\ mstate = "ready" /\ hasChild /\ wproc' = "exited" /\ ~hasChild'
       => blockedFor >= MissedThreshold * WatchdogInterval
  /\ SelfExit => ~inTouch

LEMMA KillIsWatchdogs ==
  ASSUME [Next]_vars, mstate = "ready", hasChild, wproc' = "exited", ~hasChild'
  PROVE  WatchdogTick /\ Missed > missedPings /\ Missed >= MissedThreshold
  <1> USE DEF managerVars, workerVars, ipcVars
  <1>1. CASE WatchdogTick
    BY <1>1 DEF WatchdogTick
  <1>2. CASE HandleReady \/ StartTimeout \/ WatchdogIdle \/ HandlePong
    BY <1>2 DEF HandleReady, StartTimeout, WatchdogIdle, HandlePong
  <1>3. CASE HandleExit \/ Respawn \/ CooldownElapsed
    BY <1>3 DEF HandleExit, Respawn, Started, CooldownElapsed
  <1>4. CASE Block \/ Unblock \/ InitDone \/ InitFails \/ HandlePing
    BY <1>4 DEF Block, Unblock, InitDone, InitFails, HandlePing
  <1>5. CASE SelfExit \/ CheckPasses \/ Crash \/ Tick
    BY <1>5 DEF SelfExit, CheckPasses, Crash, Tick
  <1>6. CASE UNCHANGED vars
    BY <1>6 DEF vars
  <1> QED BY <1>1, <1>2, <1>3, <1>4, <1>5, <1>6 DEF Next

\* The watchdog kills a worker only when it was blocked for MissedThreshold whole
\* intervals, and no worker that ever answered a ping gives up on its parent.
THEOREM NoOthersAreKilled == Spec => OnlyBlockedIsKilled
  <1>1. WatchdogInv /\ [Next]_vars => [KilledWasBlocked]_vars
    <2> SUFFICES ASSUME WatchdogInv, [Next]_vars PROVE KilledWasBlocked
      OBVIOUS
    <2> USE DEF WatchdogInv
    <2>1. ASSUME mstate = "ready", hasChild, wproc' = "exited", ~hasChild'
          PROVE  blockedFor >= MissedThreshold * WatchdogInterval
      <3>1. WatchdogTick /\ Missed > missedPings /\ Missed >= MissedThreshold
        BY <2>1, KillIsWatchdogs
      <3>2. /\ Ready /\ watchdog = 0 /\ pendingPong /\ missedPings + 1 >= MissedThreshold
            /\ missedPings \in Nat
        BY <3>1, Durations DEF WatchdogTick, Missed, Ready, Clocks
      <3>3. missedPings + 1 = MissedThreshold
        BY <3>2, Durations DEF Watched
      <3>4. Intervals(missedPings) + WatchdogInterval <= blockedFor
        BY <3>2, Durations DEF Watched
      <3>5. Intervals(MissedThreshold) = Intervals(missedPings) + WatchdogInterval
        BY <3>2, <3>3, IntervalsAdd
      <3> QED BY <3>4, <3>5, LongestBlock, Durations DEF Intervals, Clocks
    <2>2. ASSUME SelfExit, inTouch PROVE FALSE
      <3>1. Ready /\ contactAge > HeartbeatTimeout
        BY <2>2 DEF SelfExit, Processes, Ready
      <3>2. contactAge <= Silence
        BY <2>2, <3>1 DEF Watched
      <3>3. Silence <= Intervals(MissedThreshold + 1) /\ Silence \in Int
        BY <3>1, SilenceIsBounded, SilenceRange, Durations DEF Watched, Silence
      <3> QED BY <3>1, <3>2, <3>3, LongestBlock, IntervalsAdd, Durations DEF Clocks
    <2> QED BY <2>1, <2>2 DEF KilledWasBlocked
  <1> QED BY <1>1, WatchdogInductive, PTL DEF Spec, OnlyBlockedIsKilled, KilledWasBlocked

\* The cooldown forgives no crash of a manager that is starting a worker: it is over long
\* after the start has failed or succeeded.
THEOREM CooldownFindsThemDead == Spec => CooldownOnlyWhenDead
  <1>1. WatchdogInv /\ [Next]_vars
          => [cooldownOn /\ ~cooldownOn' /\ crashCount > 0 => mstate = "dead"]_vars
    <2> SUFFICES ASSUME WatchdogInv, [Next]_vars, cooldownOn, ~cooldownOn', crashCount > 0
                 PROVE  mstate = "dead"
      OBVIOUS
    <2> USE DEF managerVars, workerVars, ipcVars
    <2>1. CASE CooldownElapsed
      <3>1. sinceCrash = DeadCooldown
        BY <2>1 DEF CooldownElapsed, CooldownDue
      <3>2. mstate # "initializing"
        BY <3>1, Durations, TimeoutsAssumption DEF WatchdogInv, Cooling, Clocks
      <3> QED BY <3>2 DEF WatchdogInv, Processes, Flags
    <2>2. CASE HandleReady \/ StartTimeout \/ WatchdogTick \/ WatchdogIdle \/ HandlePong
      BY <2>2 DEF HandleReady, StartTimeout, WatchdogTick, WatchdogIdle, HandlePong
    <2>3. CASE HandleExit \/ Respawn
      BY <2>3 DEF HandleExit, Respawn
    <2>4. CASE Block \/ Unblock \/ InitDone \/ InitFails \/ HandlePing
      BY <2>4 DEF Block, Unblock, InitDone, InitFails, HandlePing
    <2>5. CASE SelfExit \/ CheckPasses \/ Crash \/ Tick
      BY <2>5 DEF SelfExit, CheckPasses, Crash, Tick
    <2>6. CASE UNCHANGED vars
      BY <2>6 DEF vars
    <2> QED BY <2>1, <2>2, <2>3, <2>4, <2>5, <2>6 DEF Next
  <1> QED BY <1>1, WatchdogInductive, PTL DEF Spec, CooldownOnlyWhenDead
=============================================================================
