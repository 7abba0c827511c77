---------------------------- MODULE WorkflowManager ----------------------------
(***************************************************************************)
(* The workflow manager of a project worker (workflow-manager.ts) over its *)
(* event log: serialised invocations, the checkpoint, hold and release,    *)
(* the debounced reload of the automation files, and the crash and restart *)
(* of the worker between any two steps.                                    *)
(*                                                                         *)
(* The workflow state is what the rules made of the events: the set of the *)
(* ids they were given.  A call of processEvents is a record [evs, ckpt,   *)
(* by]: its events, the checkpoint its caller records when it returns (0:  *)
(* none) and the loader that awaits it.  Id 0 stands for every event that  *)
(* is not in the log (project:initialize, an emitted or scheduled event,   *)
(* the file:change of every file).                                         *)
(*                                                                         *)
(* Node runs one thread: a microtask (the continuation of a resolved       *)
(* promise: `ready` calls, a loader at a micro stage) precedes every timer *)
(* and every input.                                                        *)
(***************************************************************************)
EXTENDS EventLog

CONSTANTS
    MaxEvents,   \* bound: changes that happen
    MaxSeq,      \* bound: sequence numbers given out
    MaxManual,   \* bound: events and savings of the scheduler, events emitted by hand, edits of automation files, user reloads
    MaxFaults    \* bound: crashes, failed writes of the state file, errors of the runtime

ASSUME ManagerBounds == {MaxEvents, MaxSeq, MaxManual, MaxFaults} \subseteq Nat

Ids == 1..MaxEvents
Loaders == {"boot", "start", "refresh"}
NoRun == [stage |-> "none"]
Absent == [ckpt |-> -1]          \* no state file, or persisted = null
Torn == [ckpt |-> -2]            \* a state file that does not parse

VARIABLES
    happened,   \* ghost: number of file changes so far
    state,      \* this.state
    persisted,  \* this.persisted: [state, ckpt] or Absent
    disk,       \* the state file
    saving,     \* what the scheduler is writing to it, or Absent
    loaded,     \* this.loadedFiles is not empty
    runtime,    \* this.runtime is not null
    held, run, pending,
    flushes,    \* batches behind a setTimeout(0)
    waiting,    \* calls behind reloadPromise
    ready,      \* calls about to enter processEvents
    promise,    \* reloadPromise is set
    timer,      \* reloadTimer is armed
    retry,      \* the 2 s retry timer is armed
    changed,    \* changedAutomationFiles is not empty
    reloading,
    loader,     \* where each start() in progress is, and what fullRefresh saved
    manual, faults,   \* counts for the bounds
    calm        \* ghost: none of the disturbances that are known to lose events

reloadVars == <<waiting, promise, timer, retry, changed, reloading>>
queueVars == <<held, run, pending, flushes, ready>>
memoryVars == <<state, persisted, loaded, runtime, loader>>
ghostVars == <<happened, manual, faults, calm>>
diskVars == <<disk, saving>>
vars == <<logVars, reloadVars, queueVars, memoryVars, ghostVars, diskVars>>

Idle == [pc |-> "idle", hadFiles |-> FALSE, hadRuntime |-> FALSE]
At(pcs) == \E l \in Loaders : loader[l].pc \in pcs
Micro == {"replay", "started", "end"}
Quiet == ready = {} /\ ~At(Micro)

\* initialize() awaits the first start() before the watcher and the HTTP server run.
Open == Quiet /\ loader["boot"] = Idle

Init ==
    /\ LogInit
    /\ happened = 0 /\ state = {} /\ persisted = Absent
    /\ disk = Absent /\ saving = Absent
    /\ loaded = FALSE /\ runtime = FALSE /\ held = FALSE
    /\ run = NoRun /\ pending = {} /\ flushes = {} /\ waiting = {} /\ ready = {}
    /\ promise = FALSE /\ timer = FALSE /\ retry = FALSE /\ changed = FALSE
    /\ reloading = FALSE
    /\ loader = [l \in Loaders |-> IF l = "boot" THEN [Idle EXCEPT !.pc = "load"] ELSE Idle]
    /\ manual = 0 /\ faults = 0 /\ calm = TRUE

\* writeFile truncates the file before it writes.
Readable == IF run.stage = "saving" \/ saving # Absent THEN {disk, Torn} ELSE {disk}

\* A write of the state file ends: it is done, or it failed before or after it truncated
\* the file or met another write, which saveState swallows.
Write(snap) ==
    \/ disk' = snap /\ UNCHANGED faults
    \/ faults < MaxFaults /\ faults' = faults + 1 /\ disk' \in {disk, Torn}

\* start() reads what is in memory.
Current(read) ==
    IF read \in {Absent, Torn} THEN persisted = Absent
    ELSE persisted # Absent /\ read.state = persisted.state

Happened == 1..happened
FileIds(log) == {log[i].id : i \in {j \in DOMAIN log : log[j].kind = "file"}}

\* No entry leaves the ring before the rules have seen it.
RingSuffices == FileIds(ring) \ FileIds(ring') \subseteq state

CallOf(evs, ckpt, by) == [evs |-> evs, ckpt |-> ckpt, by |-> by]

\* Mutant: also a reload in progress is waited for.
MustWaitAlways == promise

\* processEvents up to its first await: only a reload that has not begun is waited for.
MustWait == promise /\ ~reloading
Enter(call) ==
    IF MustWait THEN waiting' = waiting \union {call} /\ UNCHANGED ready
                ELSE ready' = ready \union {call} /\ UNCHANGED waiting

Above(seq) == {ring[i].id : i \in {j \in DOMAIN ring : ring[j].kind = "file" /\ ring[j].seq > seq}}

\* Mutant: no flush while a reload is in progress.
FlushPendingLater ==
    IF pending # {} /\ ~held /\ ~reloading
      THEN flushes' = flushes \union {pending} /\ pending' = {}
      ELSE UNCHANGED <<flushes, pending>>

\* What was queued during a run goes behind a zero timeout, unless on hold.
FlushPending ==
    IF pending # {} /\ ~held
      THEN flushes' = flushes \union {pending} /\ pending' = {}
      ELSE UNCHANGED <<flushes, pending>>

\* Mutant: the queue is replaced.
QueuedLast(call) == call.evs
Queued(call) == pending \union call.evs

\* The checkpoint of a call, recorded when the call returned, for whatever reason.
Covered(p, seq) == IF seq > 0 /\ p # Absent THEN [p EXCEPT !.ckpt = seq] ELSE p

\* The loader that awaited a call goes on.
Awaited == [init |-> "replay", replaying |-> "started", announcing |-> "end"]
Resumed(by) ==
    IF by \in Loaders THEN [loader EXCEPT ![by].pc = Awaited[@]] ELSE loader

-----------------------------------------------------------------------------
(* Invocations *)

\* processEvents after its await, and its return when nothing runs.
Proceed(call) ==
    /\ call \in ready
    /\ ready' = ready \ {call}
    /\ IF runtime /\ run = NoRun
         THEN /\ run' = [stage |-> "rules", call |-> call, base |-> state]
              /\ calm' = (calm /\ ~At({"read"}))
              /\ UNCHANGED <<pending, persisted, loader>>
         ELSE /\ pending' = IF runtime THEN Queued(call) ELSE pending
              /\ persisted' = Covered(persisted, call.ckpt)
              /\ loader' = Resumed(call.by)
              /\ calm' = (calm /\ (runtime \/ (call.ckpt > 0 /\ run.stage # "rules") \/ call.evs = {0}))
              /\ UNCHANGED run
    /\ UNCHANGED <<logVars, reloadVars, held, flushes, state, loaded, runtime, happened, manual, faults, diskVars>>

\* The runtime throws (a predicate, not an action): processEvents and runRule swallow it.
RulesThrow ==
    /\ run.stage = "rules" /\ faults < MaxFaults
    /\ faults' = faults + 1
    /\ run' = NoRun
    /\ FlushPending
    /\ persisted' = Covered(persisted, run.call.ckpt)
    /\ loader' = Resumed(run.call.by)
    /\ calm' = (calm /\ persisted # Absent /\ run.call.evs \ {0} \subseteq state)
    /\ UNCHANGED <<logVars, reloadVars, held, ready, state, loaded, runtime, happened, manual, diskVars>>

\* The rules are done: the new state is persisted in memory and writeFile is called.
RulesEnd ==
    /\ Quiet /\ run.stage = "rules"
    /\ LET new == run.base \union (run.call.evs \ {0})
           ckpt == IF persisted = Absent THEN 0 ELSE persisted.ckpt
       IN  /\ state' = new
           /\ persisted' = [state |-> new, ckpt |-> ckpt]
           /\ run' = [stage |-> "saving", call |-> run.call, snap |-> persisted']
    /\ UNCHANGED <<logVars, reloadVars, held, pending, flushes, ready, loaded, runtime, loader, ghostVars, diskVars>>

\* The write is over: audit entries, then `finally`, then the caller's checkpoint.
SaveEnds ==
    /\ Quiet /\ run.stage = "saving"
    /\ Write(run.snap)
    /\ \/ UNCHANGED logVars
       \/ nextSeq <= MaxSeq /\ LogRecord
    /\ calm' = (calm /\ RingSuffices)
    /\ run' = NoRun
    /\ FlushPending
    /\ persisted' = Covered(persisted, run.call.ckpt)
    /\ loader' = Resumed(run.call.by)
    /\ UNCHANGED <<reloadVars, held, ready, state, loaded, runtime, happened, manual, saving>>

FlushTimer(batch) ==
    /\ Quiet /\ batch \in flushes
    /\ flushes' = flushes \ {batch}
    /\ Enter(CallOf(batch, 0, "none"))
    /\ UNCHANGED <<logVars, promise, timer, retry, changed, reloading, held, run, pending, memoryVars, ghostVars, diskVars>>

\* The ticker finds a schedule due.
ScheduleFires ==
    /\ Open /\ runtime /\ manual < MaxManual
    /\ manual' = manual + 1
    /\ Enter(CallOf({0}, 0, "none"))
    /\ UNCHANGED <<logVars, promise, timer, retry, changed, reloading, held, run, pending, flushes, memoryVars, happened, faults, calm, diskVars>>

\* The ticker drops what is no schedule any more, and saves beside whatever runs.
SchedulePrunes ==
    /\ Open /\ runtime /\ persisted # Absent /\ saving = Absent /\ manual < MaxManual
    /\ manual' = manual + 1
    /\ saving' = persisted
    /\ calm' = (calm /\ ~At({"read"}))
    /\ UNCHANGED <<logVars, reloadVars, queueVars, memoryVars, happened, faults, disk>>

SchedulerSaved ==
    /\ Quiet /\ saving # Absent
    /\ Write(saving)
    /\ saving' = Absent
    /\ UNCHANGED <<logVars, reloadVars, queueVars, memoryVars, happened, manual, calm>>

\* emitEvent and runRule wait also for a reload that has begun, and are over when they
\* find no rules; runRule answers null, and is over, when it finds a run in progress.
ManualEvent ==
    /\ Open /\ manual < MaxManual
    /\ manual' = manual + 1
    /\ LET call == CallOf({0}, 0, "none")
       IN  \/ promise /\ waiting' = waiting \union {call} /\ UNCHANGED ready
           \/ ~promise /\ runtime /\ ready' = ready \union {call} /\ UNCHANGED waiting
           \/ ~promise /\ (run # NoRun \/ ~runtime) /\ UNCHANGED <<waiting, ready>>
    /\ UNCHANGED <<logVars, promise, timer, retry, changed, reloading, held, run, pending, flushes, memoryVars, happened, faults, calm, diskVars>>

Hold ==
    /\ Open /\ ~held
    /\ held' = TRUE
    /\ UNCHANGED <<logVars, reloadVars, run, pending, flushes, ready, memoryVars, ghostVars, diskVars>>

Release ==
    /\ Open /\ held
    /\ held' = FALSE
    /\ pending' = {}
    /\ IF pending = {} THEN UNCHANGED <<waiting, ready>> ELSE Enter(CallOf(pending, 0, "none"))
    /\ UNCHANGED <<logVars, promise, timer, retry, changed, reloading, run, flushes, memoryVars, ghostVars, diskVars>>

-----------------------------------------------------------------------------
(* The event log *)

\* A file changes, and REST or the watcher says so (onFileChanges).  A change of an
\* automation file has id 0.
Change(kind) ==
    /\ Open /\ nextSeq <= MaxSeq
    /\ IF kind = "file"
         THEN /\ happened < MaxEvents
              /\ happened' = happened + 1
              /\ LogAppend(happened', kind)
              /\ UNCHANGED manual
         ELSE /\ manual < MaxManual
              /\ manual' = manual + 1
              /\ LogAppend(0, kind)
              /\ UNCHANGED happened
    /\ calm' = (calm /\ RingSuffices)
    /\ UNCHANGED <<reloadVars, queueVars, memoryVars, faults, diskVars>>

\* The watcher's event is dropped, though it may report another edit than REST's.
\* (That of an automation file leaves no trace at all.)
DropDuplicate ==
    /\ Open /\ happened < MaxEvents /\ Suppressible("file")
    /\ happened' = happened + 1
    /\ calm' = FALSE
    /\ UNCHANGED <<logVars, reloadVars, queueVars, memoryVars, manual, faults, diskVars>>

\* handleEventLogDrain.
Drain ==
    /\ Quiet
    /\ LogDrain
    /\ LET evs == FileIds(toDrain)
           seq == Newest(toDrain)
           reload == changed \/ \E i \in DOMAIN toDrain : toDrain[i].kind = "automation"
           parked == promise \/ reload
       IN  /\ changed' = reload
           /\ timer' = (timer \/ reload)
           /\ promise' = parked
           /\ IF evs = {}
                THEN /\ persisted' = Covered(persisted, seq)
                     /\ UNCHANGED <<pending, waiting, ready>>
                ELSE /\ UNCHANGED persisted
                     /\ IF held THEN pending' = pending \union evs /\ UNCHANGED <<waiting, ready>>
                        ELSE /\ UNCHANGED pending
                             /\ IF parked /\ ~reloading
                                  THEN waiting' = waiting \union {CallOf(evs, seq, "none")} /\ UNCHANGED ready
                                  ELSE ready' = ready \union {CallOf(evs, seq, "none")} /\ UNCHANGED waiting
    /\ UNCHANGED <<retry, reloading, held, run, flushes, state, loaded, runtime, loader, ghostVars, diskVars>>

Compact ==
    /\ Quiet /\ LogCompact
    /\ calm' = (calm /\ RingSuffices)
    /\ UNCHANGED <<reloadVars, queueVars, memoryVars, happened, manual, faults, diskVars>>

-----------------------------------------------------------------------------
(* start(), and the reload that wraps it *)

\* 'workflow-reload' from a client calls start() beside everything else.
UserStart ==
    /\ Open /\ loader["start"] = Idle /\ manual < MaxManual
    /\ manual' = manual + 1
    /\ loader' = [loader EXCEPT !["start"].pc = "load"]
    /\ calm' = FALSE
    /\ UNCHANGED <<logVars, reloadVars, queueVars, state, persisted, loaded, runtime, happened, faults, diskVars>>

\* The debounce timer; one that fires during a reload does nothing.
ReloadTimer ==
    /\ Quiet /\ timer
    /\ timer' = FALSE
    /\ IF reloading THEN UNCHANGED <<reloading, changed, loader, loaded, runtime>>
       ELSE /\ reloading' = TRUE
            /\ changed' = FALSE
            /\ loader' = [loader EXCEPT !["refresh"] = [pc |-> "load", hadFiles |-> loaded, hadRuntime |-> runtime]]
            /\ loaded' = FALSE
            /\ runtime' = FALSE
    /\ UNCHANGED <<logVars, waiting, promise, retry, queueVars, state, persisted, ghostVars, diskVars>>

\* Mutant: the retry announces a reload and arms nothing.
RetryTimerUnarmed ==
    /\ Quiet /\ retry
    /\ retry' = FALSE /\ changed' = TRUE /\ promise' = TRUE
    /\ UNCHANGED <<logVars, waiting, timer, reloading, queueVars, memoryVars, ghostVars, diskVars>>

\* Nothing could be loaded: the reload is tried again.
RetryTimer ==
    /\ Quiet /\ retry
    /\ retry' = FALSE /\ changed' = TRUE /\ timer' = TRUE /\ promise' = TRUE
    /\ UNCHANGED <<logVars, waiting, reloading, queueVars, memoryVars, ghostVars, diskVars>>

\* loadTaggedDefinitions: all broken or empty, no file at all, or definitions.
LoadDefinitions(l, found) ==
    /\ Quiet /\ loader[l].pc = "load"
    /\ LET now == CASE found = "definitions" -> TRUE [] found = "broken" -> FALSE [] OTHER -> loaded
           kept == l = "refresh" /\ ~now /\ loader[l].hadFiles
       IN  /\ runtime' = (found = "definitions" \/ (kept /\ loader[l].hadRuntime))
           /\ loaded' = (now \/ kept)
           /\ loader' = [loader EXCEPT ![l].pc =
                IF found = "definitions" THEN "read"
                ELSE IF l # "refresh" THEN "idle"
                ELSE IF kept THEN "end" ELSE "files"]
    /\ calm' = (calm /\ found = "definitions")
    /\ UNCHANGED <<logVars, reloadVars, queueVars, state, persisted, happened, manual, faults, diskVars>>

ReadState(l, read) ==
    /\ Quiet /\ loader[l].pc = "read"
    /\ IF read \in {Absent, Torn}
         THEN /\ state' = {}
              /\ loader' = [loader EXCEPT ![l].pc = "init"]
              /\ IF MustWait /\ l # "refresh"
                   THEN waiting' = waiting \union {CallOf({0}, 0, l)} /\ UNCHANGED ready
                   ELSE ready' = ready \union {CallOf({0}, 0, l)} /\ UNCHANGED waiting
              /\ UNCHANGED persisted
         ELSE /\ state' = read.state
              /\ persisted' = read
              /\ loader' = [loader EXCEPT ![l].pc = "replay"]
              /\ UNCHANGED <<waiting, ready>>
    /\ calm' = (calm /\ run = NoRun /\ Current(read))
    /\ UNCHANGED <<logVars, promise, timer, retry, changed, reloading, held, run, pending, flushes, loaded, runtime, happened, manual, faults, diskVars>>

\* The events above the checkpoint; the checkpoint it records may be an audit entry's.
Replayed == Since(IF persisted = Absent THEN 0 ELSE persisted.ckpt)
Replay(l) ==
    /\ ready = {} /\ loader[l].pc = "replay"
    /\ LET due == {i \in DOMAIN Replayed : Replayed[i].src = "external"}
           evs == {Replayed[i].id : i \in due}
       IN  IF evs = {}
             THEN loader' = [loader EXCEPT ![l].pc = "started"] /\ UNCHANGED <<waiting, ready>>
             ELSE /\ loader' = [loader EXCEPT ![l].pc = "replaying"]
                  /\ Enter(CallOf(evs, Newest(Replayed), l))
    /\ UNCHANGED <<logVars, promise, timer, retry, changed, reloading, held, run, pending, flushes, state, persisted, loaded, runtime, ghostVars, diskVars>>

Started(l) ==
    /\ ready = {} /\ loader[l].pc = "started"
    /\ loader' = [loader EXCEPT ![l].pc = IF l = "refresh" THEN "files" ELSE "idle"]
    /\ UNCHANGED <<logVars, reloadVars, queueVars, state, persisted, loaded, runtime, ghostVars, diskVars>>

\* fullRefresh announces every file of the workspace.
AnnounceFiles ==
    /\ Quiet /\ loader["refresh"].pc = "files"
    /\ loader' = [loader EXCEPT !["refresh"].pc = "announcing"]
    /\ ready' = ready \union {CallOf({0}, 0, "refresh")}
    /\ UNCHANGED <<logVars, reloadVars, held, run, pending, flushes, state, persisted, loaded, runtime, ghostVars, diskVars>>

\* The end of the timer's callback: everybody who waited may proceed.
EndReload ==
    /\ ready = {} /\ loader["refresh"].pc = "end"
    /\ loader' = [loader EXCEPT !["refresh"] = Idle]
    /\ reloading' = FALSE
    /\ promise' = FALSE
    /\ ready' = waiting
    /\ waiting' = {}
    /\ retry' = (retry \/ ~loaded)
    /\ UNCHANGED <<logVars, timer, changed, held, run, pending, flushes, state, persisted, loaded, runtime, ghostVars, diskVars>>

-----------------------------------------------------------------------------
(* The worker dies and another one starts. *)

Crash ==
    /\ faults < MaxFaults
    /\ faults' = faults + 1 /\ calm' = FALSE
    /\ LogReload
    /\ disk' \in Readable /\ saving' = Absent
    /\ state' = {} /\ persisted' = Absent /\ loaded' = FALSE /\ runtime' = FALSE
    /\ held' = FALSE /\ run' = NoRun /\ pending' = {} /\ flushes' = {} /\ ready' = {}
    /\ waiting' = {} /\ promise' = FALSE /\ timer' = FALSE /\ retry' = FALSE
    /\ changed' = FALSE /\ reloading' = FALSE
    /\ loader' = [l \in Loaders |-> IF l = "boot" THEN [Idle EXCEPT !.pc = "load"] ELSE Idle]
    /\ UNCHANGED <<happened, manual>>

-----------------------------------------------------------------------------
Invocation ==
    \/ \E call \in ready : Proceed(call)
    \/ RulesEnd \/ RulesThrow \/ SaveEnds
    \/ \E batch \in flushes : FlushTimer(batch)

Loading ==
    \/ ReloadTimer \/ RetryTimer \/ AnnounceFiles \/ EndReload
    \/ \E l \in Loaders : Replay(l) \/ Started(l)
    \/ \E l \in Loaders, read \in Readable : ReadState(l, read)
    \/ \E l \in Loaders, found \in {"definitions", "broken", "missing"} : LoadDefinitions(l, found)

Input ==
    \/ DropDuplicate \/ \E kind \in Kinds : Change(kind)
    \/ ScheduleFires \/ SchedulePrunes \/ ManualEvent \/ Hold \/ Release \/ UserStart

Next ==
    \/ Invocation \/ Loading \/ Input
    \/ Drain \/ Compact \/ SchedulerSaved
    \/ Crash

Spec == Init /\ [][Next]_vars

\* Timers fire, promises settle and rules end; nobody has to act from outside.  A
\* timer or a finished write waits for the microtasks (Quiet) but is not overtaken
\* for ever: Node serves them in turn.
Fairness ==
    /\ WF_vars(\E call \in ready : Proceed(call))
    /\ SF_vars(RulesEnd \/ RulesThrow \/ SaveEnds)
    /\ SF_vars(\E batch \in flushes : FlushTimer(batch))
    /\ SF_vars(Drain)
    /\ WF_vars(Loading)

FairSpec == Spec /\ Fairness

-----------------------------------------------------------------------------
(* Properties *)

InHand ==
    FileIds(toDrain) \union pending \union (UNION flushes)
      \union (UNION {c.evs : c \in waiting \union ready})
      \union (IF run.stage = "rules" THEN run.call.evs ELSE {})

\* What the replay of a start() in progress will bring back.
Due == IF At({"load", "read"}) THEN Above(disk.ckpt)
       ELSE IF At({"init", "replay"}) THEN Above(persisted.ckpt) ELSE {}

\* Every reported change is in the workflow state, still in memory, or due for the replay
\* of the start() in progress: queueing behind a run, hold and release, failed and
\* overlapping writes, the reload and its early returns lose nothing.  What is known to
\* lose events ends `calm`:
\*   - a crash, a second start() beside a reload, automation files that do not load;
\*   - two edits taken for one, and an overflow of the log;
\*   - rules that throw on events they had not seen (processEvents swallows the error, and
\*     the checkpoint moves past them);
\*   - a start() that reads while a run is in progress or begins, while the scheduler
\*     begins to write, or after a failed write, another state than the one in memory;
\*   - events that find no rules beside a run that saves their checkpoint.
\* (The numbers that drain and replay go by are unique and increase, whatever is
\* deduplicated and compacted.)
NothingIsLost == LogTypeOK /\ (calm => Happened \subseteq state \union InHand \union Due)

\* Events that wait in the queue have somebody who takes them: a run that will flush
\* them when it ends, or a user who releases the hold.
QueueIsWoken == pending # {} /\ ~held => run # NoRun

\* A call parked behind a reload is woken: the reload is in progress, or its timer is
\* armed.  (A timer that fires during a reload returns without resolving anything.)
WaitersAreWoken == waiting # {} => promise /\ (timer \/ reloading)

\* No event stays in the hands of the manager for ever, unless it is on hold: the
\* rules get it or it is dropped, whatever faults, reloads and retries come.
NothingIsStuck == \A id \in Ids : (id \in InHand) ~> (id \notin InHand \/ held)

\* What event-log.ts:14 says of the checkpoint, "the last processed checkpoint": the
\* state file holds what the entries up to its checkpoint did.
CheckpointIsProcessed ==
    disk.ckpt >= 0 =>
        \A i \in DOMAIN file :
            file[i].kind = "file" /\ file[i].seq <= disk.ckpt => file[i].id \in disk.state
===============================================================================
