--------------------------- MODULE BuildExecutor ----------------------------
(***************************************************************************)
(* Builds with dependencies and a cache (packages/build-system).           *)
(*                                                                         *)
(* executeBatch resolves the rules into waves and runs the rules of a wave *)
(* a slice at a time, each slice under one Promise.all.  A rule is skipped *)
(* after a failure below it, forced after a rebuild below it, and else     *)
(* answered from the cache when the hashes of its input files are the ones *)
(* that were saved after its last successful build.                        *)
(*                                                                         *)
(* Several batches may run at once (the HTTP route and the agent's         *)
(* runBuild tool start them independently), files are edited meanwhile,    *)
(* and all of them share the workspace and the cache directory.            *)
(*                                                                         *)
(* Data: a rule reads its own source files, abstracted to a version, and   *)
(* what its dependencies built; a command reads and writes at one instant. *)
(* The order of the rules within a wave is left open.                      *)
(***************************************************************************)
EXTENDS Naturals, FiniteSets

CONSTANTS
  Rules,           \* the build rules
  RuleSets,        \* the dependsOn functions to consider
  Builds,          \* callers of executeBatch
  MaxConcurrency,  \* maxConcurrency of the BuildContext
  MaxBatches,      \* bound: batches started
  MaxEdits         \* bound: edits of source files

ASSUME SizesAssumption ==
  /\ IsFiniteSet(Rules)
  /\ RuleSets \subseteq [Rules -> SUBSET Rules]
  /\ MaxConcurrency \in Nat \ {0}
  /\ MaxBatches \in Nat
  /\ MaxEdits \in Nat

VARIABLES
  deps,      \* dependsOn of every rule
  source,    \* version of a rule's input files
  output,    \* what a rule's output files were built from
  cache,     \* version saved in .antimatter-cache, NoEntry when absent
  outcome,   \* build -> what became of its executeBatch
  wave,      \* build -> number of the wave it executes
  todo,      \* build -> eligible rules of the wave not yet started
  at,        \* build -> where each rule of the current slice is
  entry,     \* build -> the cache entries it loaded
  status,    \* build -> results
  batches,   \* batches started
  edits,     \* edits made
  edited,    \* history: a file was edited after the last batch started
  calm,      \* history: nothing failed, no file was edited during a batch
  lastRun    \* history: how a rule's last command ended

fileVars == <<source, output, cache>>
batchVars == <<outcome, wave, todo, at, entry, status>>
historyVars == <<edited, calm, lastRun>>
vars == <<deps, fileVars, batchVars, batches, edits, historyVars>>

NoEntry == 0
NoOutput == [source |-> 0, from |-> <<>>]
Steps == {"idle", "load", "compare", "run", "save"}
Outcomes == {"none", "running", "answered", "rejected"}
Results == {"none", "success", "failure", "cached", "skipped"}

-----------------------------------------------------------------------------
(* DependencyResolver                                                      *)

\* Everything r depends on, directly or not.
Below(r) ==
  LET reach[n \in Nat] ==
        IF n = 0 THEN deps[r]
        ELSE reach[n - 1] \union UNION {deps[d] : d \in reach[n - 1]}
  IN reach[Cardinality(Rules)]

\* detectCycles.
Cyclic == \E r \in Rules : r \in Below(r)

\* Mutant: a rule enters a wave with its first dependency.
WaveTooEarly(n) ==
  LET waves[i \in 1..(Cardinality(Rules) + 1)] ==
        LET before == UNION {waves[j] : j \in 1..(i - 1)}
        IN {r \in Rules \ before : deps[r] = {} \/ deps[r] \intersect before # {}}
  IN waves[n]

\* topologicalSort: the n-th wave holds the rules whose in-degree drops to
\* zero when the waves before it are taken away.
Wave(n) ==
  LET waves[i \in 1..(Cardinality(Rules) + 1)] ==
        LET before == UNION {waves[j] : j \in 1..(i - 1)}
        IN {r \in Rules \ before : deps[r] \subseteq before}
  IN waves[n]

-----------------------------------------------------------------------------
Init ==
  /\ deps \in RuleSets
  /\ source = [r \in Rules |-> 1]
  /\ output = [r \in Rules |-> NoOutput]
  /\ cache = [r \in Rules |-> NoEntry]
  /\ outcome = [b \in Builds |-> "none"]
  /\ wave = [b \in Builds |-> 0]
  /\ todo = [b \in Builds |-> {}]
  /\ at = [b \in Builds |-> [r \in Rules |-> "idle"]]
  /\ entry = [b \in Builds |-> [r \in Rules |-> NoEntry]]
  /\ status = [b \in Builds |-> [r \in Rules |-> "none"]]
  /\ batches = 0
  /\ edits = 0
  /\ edited = FALSE
  /\ calm = TRUE
  /\ lastRun = [r \in Rules |-> "none"]

Running(b) == outcome[b] = "running"

InFlight(b) == {r \in Rules : at[b][r] # "idle"}

\* What a command of r makes of the files as they are now.
Built(r) == [source |-> source[r], from |-> [d \in deps[r] |-> output[d]]]

\* Mutant: a skipped dependency is not a failed one.
DependencyFailedOnly(b, r) == \E d \in deps[r] : status[b][d] = "failure"

\* hasFailedDependency: skipped rules join failedRules.
DependencyFailed(b, r) ==
  \E d \in deps[r] : status[b][d] \in {"failure", "skipped"}

\* Mutant: no incremental invalidation.
ForceNever(b, r) == FALSE

\* forceRebuild: a dependency was built, not cached, in this batch.
ForceRebuild(b, r) == \E d \in deps[r] : status[b][d] = "success"

-----------------------------------------------------------------------------
(* BuildExecutor.executeBatch                                              *)

\* resolve() throws for a circular dependency, before anything runs.
StartBatch(b) ==
  /\ ~Running(b)
  /\ InFlight(b) = {}
  /\ batches < MaxBatches
  /\ batches' = batches + 1
  /\ status' = [status EXCEPT ![b] = [r \in Rules |-> "none"]]
  /\ wave' = [wave EXCEPT ![b] = 0]
  /\ outcome' = [outcome EXCEPT ![b] = IF Cyclic THEN "rejected" ELSE "running"]
  /\ edited' = FALSE
  /\ UNCHANGED <<deps, fileVars, todo, at, entry, edits, calm, lastRun>>

\* The next wave: rules above a failure are skipped, the others eligible.
NextWave(b) ==
  LET rules == Wave(wave[b] + 1)
      skipped == {r \in rules : DependencyFailed(b, r)} IN
  /\ Running(b)
  /\ InFlight(b) = {} /\ todo[b] = {}
  /\ rules # {}
  /\ wave' = [wave EXCEPT ![b] = @ + 1]
  /\ todo' = [todo EXCEPT ![b] = rules \ skipped]
  /\ status' = [status EXCEPT ![b] =
       [r \in Rules |-> IF r \in skipped THEN "skipped" ELSE @[r]]]
  /\ UNCHANGED <<deps, fileVars, outcome, at, entry, batches, edits, historyVars>>

\* The next slice of the wave: its rules start together.
NextSlice(b) ==
  /\ InFlight(b) = {}
  /\ todo[b] # {}
  /\ \E slice \in SUBSET todo[b] :
       /\ Cardinality(slice) = IF Cardinality(todo[b]) < MaxConcurrency
                               THEN Cardinality(todo[b]) ELSE MaxConcurrency
       /\ at' = [at EXCEPT ![b] =
            [r \in Rules |-> IF r \notin slice THEN "idle"
                             ELSE IF ForceRebuild(b, r) THEN "run" ELSE "load"]]
       /\ todo' = [todo EXCEPT ![b] = @ \ slice]
  /\ UNCHANGED <<deps, fileVars, outcome, wave, entry, status, batches, edits,
                 historyVars>>

EndBatch(b) ==
  /\ Running(b)
  /\ InFlight(b) = {} /\ todo[b] = {}
  /\ Wave(wave[b] + 1) = {}
  /\ outcome' = [outcome EXCEPT ![b] = "answered"]
  /\ UNCHANGED <<deps, fileVars, wave, todo, at, entry, status, batches, edits,
                 historyVars>>

-----------------------------------------------------------------------------
(* BuildExecutor.executeRule and CacheManager                              *)

\* A rule of the slice is done; its result counts when the slice is.
Done(b, r, result) ==
  /\ at' = [at EXCEPT ![b][r] = "idle"]
  /\ entry' = [entry EXCEPT ![b][r] = NoEntry]
  /\ status' = [status EXCEPT ![b][r] = result]

\* isCacheValid: loadCache reads the entry ...
LoadCache(b, r) ==
  /\ at[b][r] = "load"
  /\ entry' = [entry EXCEPT ![b][r] = cache[r]]
  /\ at' = [at EXCEPT ![b][r] = IF cache[r] = NoEntry THEN "run" ELSE "compare"]
  /\ UNCHANGED <<deps, fileVars, outcome, wave, todo, status, batches, edits,
                 historyVars>>

\* ... and compares it with a snapshot of the input files taken later.
CompareInputs(b, r) ==
  /\ at[b][r] = "compare"
  /\ \/ /\ entry[b][r] = source[r]
        /\ Done(b, r, "cached")
     \/ /\ entry[b][r] # source[r]
        /\ at' = [at EXCEPT ![b][r] = "run"]
        /\ UNCHANGED <<entry, status>>
  /\ UNCHANGED <<deps, fileVars, outcome, wave, todo, batches, edits, historyVars>>

\* The snapshot throws (an input file is deleted or unreadable): outside the
\* try of executeRule, so Promise.all and with it executeBatch is rejected.  The
\* other rules of the slice go on, and nobody waits for them.
CompareThrows(b, r) ==
  /\ at[b][r] = "compare"
  /\ outcome' = [outcome EXCEPT ![b] = "rejected"]
  /\ todo' = [todo EXCEPT ![b] = {}]
  /\ calm' = FALSE
  /\ Done(b, r, "none")
  /\ UNCHANGED <<deps, fileVars, wave, batches, edits, edited, lastRun>>

CommandSucceeds(b, r) ==
  /\ at[b][r] = "run"
  /\ output' = [output EXCEPT ![r] = Built(r)]
  /\ lastRun' = [lastRun EXCEPT ![r] = "success"]
  /\ at' = [at EXCEPT ![b][r] = "save"]
  /\ UNCHANGED <<deps, source, cache, outcome, wave, todo, entry, status, batches,
                 edits, edited, calm>>

\* A nonzero exit code or a runner that throws: the cache entry stays.
CommandFails(b, r) ==
  /\ at[b][r] = "run"
  /\ lastRun' = [lastRun EXCEPT ![r] = "failure"]
  /\ calm' = FALSE
  /\ Done(b, r, "failure")
  /\ UNCHANGED <<deps, fileVars, outcome, wave, todo, batches, edits, edited>>

\* saveCache takes its snapshot of the inputs after the command.
SaveCache(b, r) ==
  /\ at[b][r] = "save"
  /\ cache' = [cache EXCEPT ![r] = source[r]]
  /\ Done(b, r, "success")
  /\ UNCHANGED <<deps, source, output, outcome, wave, todo, batches, edits,
                 historyVars>>

\* A CacheError turns a successful command into a failed rule.
SaveFails(b, r) ==
  /\ at[b][r] = "save"
  /\ calm' = FALSE
  /\ Done(b, r, "failure")
  /\ UNCHANGED <<deps, fileVars, outcome, wave, todo, batches, edits, edited,
                 lastRun>>

-----------------------------------------------------------------------------
\* An edit of a rule's source files, by a person or an agent.
Edit(r) ==
  /\ edits < MaxEdits
  /\ edits' = edits + 1
  /\ source' = [source EXCEPT ![r] = @ + 1]
  /\ edited' = TRUE
  /\ calm' = (calm /\ \A b \in Builds : ~Running(b))
  /\ UNCHANGED <<deps, output, cache, batchVars, batches, lastRun>>

\* DELETE /cache.
ClearCache(r) ==
  /\ cache[r] # NoEntry
  /\ cache' = [cache EXCEPT ![r] = NoEntry]
  /\ UNCHANGED <<deps, source, output, batchVars, batches, edits, historyVars>>

RuleStep(b, r) ==
  \/ LoadCache(b, r)
  \/ CompareInputs(b, r)
  \/ CompareThrows(b, r)
  \/ CommandSucceeds(b, r)
  \/ CommandFails(b, r)
  \/ SaveCache(b, r)
  \/ SaveFails(b, r)

BatchStep(b) ==
  NextWave(b) \/ NextSlice(b) \/ EndBatch(b) \/ \E r \in Rules : RuleStep(b, r)

Next ==
  \/ \E b \in Builds : StartBatch(b) \/ BatchStep(b)
  \/ \E r \in Rules : Edit(r) \/ ClearCache(r)

Spec == Init /\ [][Next]_vars

-----------------------------------------------------------------------------
(* Properties                                                              *)

\* The types of all variables.
TypeOK ==
  /\ deps \in RuleSets
  /\ source \in [Rules -> 1..(MaxEdits + 1)]
  /\ cache \in [Rules -> 0..(MaxEdits + 1)]
  /\ outcome \in [Builds -> Outcomes]
  /\ wave \in [Builds -> 0..Cardinality(Rules)]
  /\ todo \in [Builds -> SUBSET Rules]
  /\ at \in [Builds -> [Rules -> Steps]]
  /\ entry \in [Builds -> [Rules -> 0..(MaxEdits + 1)]]
  /\ status \in [Builds -> [Rules -> Results]]
  /\ batches \in 0..MaxBatches
  /\ edits \in 0..MaxEdits
  /\ edited \in BOOLEAN
  /\ calm \in BOOLEAN
  /\ lastRun \in [Rules -> {"none", "success", "failure"}]

\* No command runs before everything it depends on, directly or not, was
\* built or found cached in the same batch (waves and slices of executeBatch);
\* and the types are kept.
DependenciesFirst ==
  /\ TypeOK
  /\ \A b \in Builds, r \in Rules : at[b][r] \in {"run", "save"} =>
       \A d \in Below(r) : status[b][d] \in {"success", "cached"}

\* Incremental invalidation: as long as nothing failed and no file was edited
\* during a batch, once the batches that followed the last edit are all over,
\* however they overlapped, every rule is built from the current sources and
\* from the current outputs below it.
CalmIsCurrent ==
  calm /\ ~edited /\ batches > 0 /\ ~Cyclic /\ (\A b \in Builds : ~Running(b))
    => \A r \in Rules : output[r] = Built(r)

\* The executor, its waves and slices and its cache are an implementation of the
\* service: executeBatch settles every rule once, in dependency order, and
\* answers exactly then.
Service == INSTANCE BuildService
IsBuildService == Service!ServiceSpec

(* What the tests say and the code does not do                             *)

\* "should not cache failed builds": a rule whose last command failed is not
\* answered from the cache.
FailedIsNotCached ==
  [][\A b \in Builds, r \in Rules :
       status'[b][r] = "cached" /\ status[b][r] # "cached"
         => lastRun[r] # "failure"]_vars
=============================================================================
