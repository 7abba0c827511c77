--------------------------- MODULE ContextLifecycle ---------------------------
(***************************************************************************)
(* The lifecycle status of a project's contexts: the derivation            *)
(* (packages/contexts, lifecycle.ts) and the store that runs it again when *)
(* its inputs change, writes the statuses down and tells the workflow's    *)
(* rules what changed (context-lifecycle-store.ts), under workflow reloads *)
(* that take the rules away for a while, reloads asked for by a client,    *)
(* broken contexts.dsl files, overlapping writes, shutdowns and crashes.   *)
(*                                                                         *)
(* The tree of contexts has no circle, and stays the same while it parses. *)
(* initialize() is one step: nothing else reads the statuses before it.    *)
(***************************************************************************)
EXTENDS Naturals, FiniteSets

CONSTANTS
    Contexts, Rules, Tests,
    Children, Depends,     \* of each context: contexts
    Requires,              \* of each context: rules and tests
    Slots,                 \* bound: writes in flight
    MaxChanges,            \* bound: results, edits of the DSL and reloads
    MaxStops,              \* bound: crashes and shutdowns
    MaxFaults              \* bound: writes that fail

Requirements == Rules \union Tests
None == "none"

ASSUME LifecycleBounds == {MaxChanges, MaxStops, MaxFaults} \subseteq Nat
ASSUME TreeAssumption ==
    /\ Children \in [Contexts -> SUBSET Contexts] /\ Depends \in [Contexts -> SUBSET Contexts]
    /\ Requires \in [Contexts -> SUBSET Requirements]
    /\ Contexts \intersect Requirements = {}
\* No circle: of every set of contexts, one has its children and dependencies elsewhere.
ASSUME NoCircle ==
    \A T \in (SUBSET Contexts) \ {{}} :
        \E c \in T : (Children[c] \union Depends[c]) \intersect T = {}

VARIABLES
    worker,      \* "down", "up", "stopping"
    (* inputs *)
    parsed,      \* contexts.dsl parses; else there is no model
    passing,     \* rules and tests whose last result is good
    declared,    \* the rules of the workflow's runtime
    reloading,   \* fullRefresh is at work
    old,         \* the rules it puts back if it fails
    saving,      \* the result that changed, while it is being saved and nobody was told
    (* the store *)
    statuses,
    timer,       \* the debounce timer is armed
    writes,      \* in flight: what they write, and the changes to tell of afterwards
    disk,        \* context-lifecycle.json
    (* history *)
    told,        \* of each context: the last status rules were told of
    untold,      \* ghost: contexts whose changes got lost, or out of order
    doubt,       \* ghost: a write failed, or two were in flight at once
    blind,       \* ghost: the statuses were derived during a reload that has not succeeded,
                 \* or before a reload that a client asked for
    changes, stops, faults   \* counts for the bounds

ruleVars == <<declared, reloading, old>>
inputVars == <<parsed, passing, ruleVars, saving>>
ghostVars == <<untold, doubt>>
boundVars == <<changes, stops, faults>>
vars == <<worker, inputVars, statuses, timer, writes, disk, told, ghostVars, blind, boundVars>>

Regressions == {"regressed", "dependency-regressed"}
Statuses == {"pending", "ready", "in-progress", "done"} \union Regressions
Unknown == [c \in Contexts |-> None]

NoWrite == [to |-> Unknown, changed |-> {}, alone |-> TRUE, last |-> FALSE, busy |-> FALSE]

Init ==
    /\ worker = "down" /\ parsed = TRUE /\ saving = {}
    /\ declared = Rules /\ reloading = FALSE /\ old = {}
    /\ passing \in SUBSET Requirements
    /\ statuses = Unknown /\ disk = Unknown /\ told = Unknown
    /\ timer = FALSE /\ writes = [w \in Slots |-> NoWrite]
    /\ untold = {} /\ doubt = FALSE /\ blind = FALSE
    /\ changes = 0 /\ stops = 0 /\ faults = 0

InFlight == {w \in Slots : writes[w].busy}

-----------------------------------------------------------------------------
(* deriveLifecycleStatuses *)

\* A rule that is not declared does not pass; the results of tests need no declaration.
Passes(r) == r \in passing /\ r \in Tests \union declared

\* `all' and `any' of what the context needs pass; its dependencies are done, or one of
\* them is broken.
StatusAfter(prior, all, any, depsDone, depBroken) ==
    CASE prior \in {"done", "regressed"} ->
           IF ~all THEN "regressed" ELSE IF depsDone THEN "done" ELSE "dependency-regressed"
      [] prior = "dependency-regressed" ->
           IF ~depsDone THEN "dependency-regressed" ELSE IF all THEN "done" ELSE "in-progress"
      [] OTHER ->
           IF depBroken THEN IF prior \in {"ready", "in-progress"} THEN "dependency-regressed" ELSE "pending"
           ELSE IF ~depsDone THEN "pending"
           ELSE IF all THEN "done" ELSE IF any THEN "in-progress" ELSE "ready"

\* What becomes of c, once its children and its dependencies have their next status.
DerivedFrom(prior, next, c) ==
    LET needs == Requires[c] \union Children[c]
        met == {r \in Requires[c] : Passes(r)} \union {d \in Children[c] : next[d] = "done"}
        deps == {next[d] : d \in Depends[c]}
    IN  StatusAfter(prior[c], met = needs, met # {}, deps \subseteq {"done"},
                    deps \intersect Regressions # {})

\* Children before their parents, dependencies before their dependents.
Derived(prior) == LET next[c \in Contexts] == DerivedFrom(prior, next, c) IN next

-----------------------------------------------------------------------------
(* recomputeNow *)

\* What is written: the statuses at this time, by whatever slot is free.
Writes(to, changed, last) ==
    \E w \in Slots \ InFlight :
        /\ writes' = [v \in Slots |->
                        IF v = w THEN [to |-> to, changed |-> changed, alone |-> InFlight = {},
                                       last |-> last, busy |-> TRUE]
                        ELSE [writes[v] EXCEPT !.alone = ~writes[v].busy]]
        /\ IF InFlight = {}
             THEN UNCHANGED ghostVars
             ELSE /\ doubt' = TRUE
                  /\ untold' = untold \union changed \union UNION {writes[v].changed : v \in InFlight}

\* Mutant: that there is no model is not written down.
RecomputePersistsTransitions(prior) ==
    LET next == IF parsed THEN Derived(prior) ELSE Unknown
    IN  /\ statuses' = next
        /\ blind' = reloading
        /\ IF next = prior \/ ~parsed THEN UNCHANGED <<writes, ghostVars>>
           ELSE Writes(next, {c \in Contexts : next[c] # prior[c]}, FALSE)

\* Without a model the statuses are cleared, and nobody is told.  A context that is new
\* to the statuses has changed.
Recompute(prior) ==
    LET next == IF parsed THEN Derived(prior) ELSE Unknown
    IN  /\ statuses' = next
        /\ blind' = reloading
        /\ IF next = prior THEN UNCHANGED <<writes, ghostVars>>
           ELSE Writes(next, IF parsed THEN {c \in Contexts : next[c] # prior[c]} ELSE {}, FALSE)

Start ==
    /\ worker = "down"
    /\ worker' = "up"
    /\ Recompute(disk)
    /\ UNCHANGED <<inputVars, timer, disk, told, boundVars>>

\* Mutant: no recompute while the last one is still being written.
TimerFiresUnlessWriting ==
    /\ timer
    /\ timer' = FALSE
    /\ IF InFlight = {} THEN Recompute(statuses) ELSE UNCHANGED <<statuses, writes, ghostVars, blind>>
    /\ UNCHANGED <<worker, inputVars, disk, told, boundVars>>

TimerFires ==
    /\ timer
    /\ timer' = FALSE
    /\ Recompute(statuses)
    /\ UNCHANGED <<worker, inputVars, disk, told, boundVars>>

\* The write is over, one way or the other; then the rules are told.
Tells(w) ==
    /\ told' = [c \in Contexts |-> IF c \in writes[w].changed THEN writes[w].to[c] ELSE told[c]]
    /\ untold' = IF writes[w].alone THEN untold \ writes[w].changed ELSE untold
    /\ writes' = [writes EXCEPT ![w] = NoWrite]

WriteEnds(w) ==
    /\ w \in InFlight
    /\ disk' = writes[w].to
    /\ doubt' = IF writes[w].alone THEN FALSE ELSE doubt
    /\ Tells(w)
    /\ UNCHANGED <<worker, inputVars, statuses, timer, blind, boundVars>>

\* Mutant: the error ends the recompute.
WriteFailsSilently(w) ==
    /\ w \in InFlight
    /\ faults < MaxFaults /\ faults' = faults + 1
    /\ doubt' = TRUE
    /\ writes' = [writes EXCEPT ![w] = NoWrite]
    /\ UNCHANGED <<worker, inputVars, statuses, timer, disk, told, untold, blind, changes, stops>>

WriteFails(w) ==
    /\ w \in InFlight
    /\ faults < MaxFaults /\ faults' = faults + 1
    /\ doubt' = TRUE
    /\ Tells(w)
    /\ UNCHANGED <<worker, inputVars, statuses, timer, disk, blind, changes, stops>>

-----------------------------------------------------------------------------
(* The inputs *)

Up == worker # "down"
Change == changes < MaxChanges /\ changes' = changes + 1 /\ UNCHANGED <<stops, faults>>
Others == UNCHANGED <<worker, statuses, writes, disk, told, ghostVars>>

Toggled(results) == (passing \ results) \union (results \ passing)

\* A rule ran, or a test: the result is there before it is saved, and announced after.
ResultChanges(r) ==
    /\ Up /\ saving = {}
    /\ r \in Rules => r \in declared
    /\ Change
    /\ passing' = Toggled({r})
    /\ saving' = {r}
    /\ UNCHANGED <<parsed, ruleVars, timer>> /\ Others /\ UNCHANGED blind

\* scheduleRecompute: one timer for all that happens before it fires.
ResultAnnounced ==
    /\ Up /\ saving # {}
    /\ saving' = {}
    /\ timer' = TRUE
    /\ UNCHANGED <<parsed, passing, ruleVars, boundVars>> /\ Others /\ UNCHANGED blind

\* shutdown() unsubscribes from the ContextStore.
DslChanges ==
    /\ worker = "up"
    /\ Change
    /\ parsed' = ~parsed /\ timer' = TRUE
    /\ UNCHANGED <<passing, ruleVars, saving>> /\ Others /\ UNCHANGED blind

\* The rules there are, or those that a reload puts back if it fails.
Standing == IF reloading THEN old ELSE declared

\* fullRefresh drops the runtime, and with it the rules.
ReloadBegins ==
    /\ worker = "up" /\ ~reloading
    /\ Change
    /\ reloading' = TRUE /\ old' = declared /\ declared' = {}
    /\ UNCHANGED <<parsed, passing, saving, timer>> /\ Others /\ UNCHANGED blind

\* What start() finds: the rules of the automation files, and the results of the state
\* file, which may be older than those in memory.
Loaded ==
    /\ declared' \in SUBSET Rules
    /\ \E results \in SUBSET Rules : passing' = Toggled(results)

\* Mutant: the reload announces declarations, not results.
ReloadEndsSilently ==
    /\ Up /\ reloading
    /\ Loaded /\ reloading' = FALSE /\ old' = {}
    /\ UNCHANGED <<parsed, saving, timer, boundVars>> /\ Others /\ blind' = FALSE

\* New rules, or the old ones for want of new ones; the results are announced.
ReloadEnds ==
    /\ Up /\ reloading
    /\ Loaded /\ reloading' = FALSE /\ old' = {}
    /\ timer' = TRUE
    /\ UNCHANGED <<parsed, saving, boundVars>> /\ Others /\ blind' = FALSE

\* start() throws: the old rules are put back; nothing is announced.
ReloadFails ==
    /\ Up /\ reloading
    /\ Change
    /\ declared' = old /\ reloading' = FALSE /\ old' = {}
    /\ UNCHANGED <<parsed, passing, saving, timer>> /\ Others /\ UNCHANGED blind

\* A client's 'workflow-reload' calls start() beside all this; nothing is announced.
ClientReloads ==
    /\ worker = "up"
    /\ Change
    /\ Loaded
    /\ UNCHANGED <<parsed, reloading, old, saving, timer>> /\ Others
    /\ blind' = (blind \/ passing' # passing \/ Standing' # Standing)

-----------------------------------------------------------------------------
(* The end of a worker *)

Shutdown ==
    /\ worker = "up" /\ stops < MaxStops
    /\ stops' = stops + 1
    /\ worker' = "stopping" /\ timer' = FALSE
    /\ IF statuses = Unknown THEN UNCHANGED <<writes, ghostVars>> ELSE Writes(statuses, {}, TRUE)
    /\ UNCHANGED <<inputVars, statuses, disk, told, blind, changes, faults>>

\* A file that was being written is as it was, or new, or does not parse.  So is the
\* file of the results, which loses at most the one it had no time for.  The rules are
\* loaded again before anything else.
Cut ==
    /\ worker' = "down" /\ statuses' = Unknown /\ timer' = FALSE
    /\ writes' = [w \in Slots |-> NoWrite]
    /\ disk' \in {disk} \union (IF InFlight = {} THEN {} ELSE {Unknown} \union {writes[w].to : w \in InFlight})
    /\ untold' = IF doubt THEN Contexts ELSE untold \union UNION {writes[w].changed : w \in InFlight}
    /\ doubt' = FALSE /\ blind' = FALSE /\ saving' = {}
    /\ declared' = Standing /\ reloading' = FALSE /\ old' = {}
    /\ passing' \in {passing, Toggled(saving)}
    /\ UNCHANGED <<parsed, told>>

Exit ==
    /\ worker = "stopping" /\ \A w \in InFlight : ~writes[w].last
    /\ Cut /\ UNCHANGED boundVars

Crash ==
    /\ Up /\ stops < MaxStops
    /\ stops' = stops + 1
    /\ Cut /\ UNCHANGED <<changes, faults>>

-----------------------------------------------------------------------------
StoreStep == Start \/ TimerFires \/ Exit \/ ResultAnnounced \/ ReloadEnds \/ \E w \in Slots : WriteEnds(w)

Next ==
    \/ StoreStep
    \/ \E w \in Slots : WriteFails(w)
    \/ \E r \in Requirements : ResultChanges(r)
    \/ DslChanges \/ ReloadBegins \/ ReloadFails \/ ClientReloads
    \/ Shutdown \/ Crash

Spec == Init /\ [][Next]_vars

\* Timers fire, writes and reloads end, and a process that exited is started again.
FairSpec == Spec /\ WF_vars(StoreStep)

-----------------------------------------------------------------------------
(* Properties *)

\* Types; and what is in flight was derived, not cleared, if there is something to tell.
LifecycleTypeOK ==
    /\ {statuses, disk, told} \subseteq [Contexts -> Statuses \union {None}]
    /\ \A w \in Slots : /\ writes[w].to \in [Contexts -> Statuses \union {None}]
                        /\ \A c \in writes[w].changed : writes[w].to[c] \in Statuses
    /\ worker = "down" => InFlight = {} /\ ~timer /\ saving = {} /\ ~reloading

Current ==
    \A c \in Contexts :
        statuses[c] = "done" <=>
            /\ \A r \in Requires[c] : Passes(r)
            /\ \A d \in Children[c] \union Depends[c] : statuses[d] = "done"

\* Whenever no recompute is due, a context is done exactly if all it requires passes, all
\* its children and dependencies are done: no change of a result, of the DSL or of the
\* rules is overlooked, in whatever order they come and whatever went wrong before.  Two
\* are: the rules that a reload puts back which failed after a recompute, and what a
\* reload finds that a client asked for.  The types hold always.
StatusIsCurrent ==
    /\ LifecycleTypeOK
    /\ (worker = "up" /\ parsed /\ ~reloading /\ ~timer /\ saving = {} /\ ~blind) => Current

\* Between writes the file holds the statuses, and will again after the next write if
\* one failed or two overlapped: what a restart compares with is what was last derived.
FileIsCurrent ==
    (worker # "down" /\ InFlight = {} /\ ~doubt) => disk = statuses

\* Between writes, rules were told of every context's status, across crashes and broken
\* DSL files, unless the change was cut off or overtaken by a crash or another change, or
\* a crash came when the file was out of date.
RulesWereTold ==
    (worker # "down" /\ InFlight = {}) =>
        \A c \in Contexts \ untold : statuses[c] \in {None, told[c]}

\* The statuses catch up with the results again and again, through reloads, shutdowns and
\* crashes, unless the DSL is broken, or a reload that failed or that a client asked for
\* changed the rules or results behind their back.
StatusCatchesUp == []<>(~parsed \/ blind \/ (worker = "up" /\ Current))

\* When no recompute is due, one more would change no status and tell nothing.
\* "emits no transitions on a no-op recompute" (context-lifecycle-store.spec.ts:235).
NoOpIsSilent ==
    (worker = "up" /\ parsed /\ ~reloading /\ ~timer /\ saving = {} /\ ~blind) => Derived(statuses) = statuses
===============================================================================
