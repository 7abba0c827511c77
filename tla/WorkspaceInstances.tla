-------------------------- MODULE WorkspaceInstances --------------------------
(***************************************************************************)
(* The EC2 instances of the workspaces: start and status as the Lambda     *)
(* functions run them (workspace-ec2-service.ts), step by step between the *)
(* requests they send to AWS, the admin routes that stop and terminate     *)
(* instances, and AWS itself as far as the code relies on it.              *)
(*                                                                         *)
(* A Lambda container handles one request at a time.  An instance stands   *)
(* for its tags and its IP address, which it keeps until it is terminated. *)
(* Session tokens, and their cache, are left out.                          *)
(***************************************************************************)
EXTENDS Naturals, FiniteSets

CONSTANTS
    Projects,
    Containers,            \* bound: requests at one time
    Instances,             \* bound: the account's limit
    SharedMode,            \* the deployed stacks say TRUE
    MaxStarts,             \* bound: requests to start
    MaxTroubles            \* bound: failing requests to AWS and operations of an admin

ASSUME InstanceBounds ==
    {MaxStarts, MaxTroubles} \subseteq Nat /\ SharedMode \in BOOLEAN /\ IsFiniteSet(Instances)

Nil == "none"
Missing == "missing"
ASSUME NilIsNew == {Nil, Missing} \intersect (Projects \union Instances) = {}

VARIABLES
    (* AWS *)
    state, project,    \* of each instance; project is its tag antimatter:projectId
    newer,             \* the pairs of existing instances whose first was launched or started later
    terminating,       \* requests to terminate duplicates, on their way
    volume,            \* of each project: what it is attached to; Missing before its creation
    targets,           \* of the load balancer
    (* the containers *)
    request,
    starts, troubles,  \* counts for the bounds
    disturbed          \* ghost: something in this history excuses a second server

awsVars == <<state, project, newer, volume>>
countVars == <<starts, troubles>>
instancesVars == <<awsVars, terminating, targets, request, countVars, disturbed>>

NoRequest == [kind |-> Nil, at |-> "idle", project |-> Nil, inst |-> Nil,
              stale |-> {}]

InstancesInit ==
    /\ state = [i \in Instances |-> Nil] /\ project = [i \in Instances |-> Nil]
    /\ newer = {} /\ terminating = {}
    /\ volume = [p \in Projects |-> Missing]
    /\ targets = {}
    /\ request = [c \in Containers |-> NoRequest]
    /\ starts = 0 /\ troubles = 0 /\ disturbed = FALSE

In(states) == {i \in Instances : state[i] \in states}
Existing == In({"pending", "running", "stopping", "stopped"})
Active == In({"pending", "running"})
Of(p) == {i \in Instances : project[i] = p}

Newest(insts) == CHOOSE i \in insts : \A j \in insts \ {i} : <<i, j>> \in newer
Others(i) == {pair \in newer : i \notin {pair[1], pair[2]}}
Launched(i) == newer' = Others(i) \union ({i} \X (Existing \ {i}))

Now(c, at) == [request[c] EXCEPT !.at = at]
Goto(c, r) == request' = [request EXCEPT ![c] = r]
Answer(c) == Goto(c, NoRequest)
Trouble == troubles < MaxTroubles /\ troubles' = troubles + 1 /\ UNCHANGED starts

-----------------------------------------------------------------------------
(* Requests arrive *)

\* What makes a second server likely: a start beside another start, or while the
\* project's server (any server, when they are shared) is in none of the states that
\* the code looks for.
Hasty(p) ==
    \/ \E c \in Containers : request[c].kind = "start"
    \/ In({"stopping"}) \intersect (IF SharedMode THEN Instances ELSE Of(p)) # {}
    \/ SharedMode /\ In({"pending"}) \ Of(p) # {}

Arrives(c, p, kind) ==
    /\ request[c].at = "idle"
    /\ Goto(c, [NoRequest EXCEPT !.kind = kind, !.at = "find", !.project = p])
    /\ disturbed' = (disturbed \/ (kind = "start" /\ Hasty(p)))
    /\ IF kind = "start" THEN starts < MaxStarts /\ starts' = starts + 1 ELSE UNCHANGED starts
    /\ UNCHANGED <<awsVars, terminating, targets, troubles>>

-----------------------------------------------------------------------------
(* findInstance and getWorkspaceStatus *)

Rank(i) == CASE state[i] = "running" -> 3 [] state[i] = "pending" -> 2
             [] state[i] = "stopped" -> 1 [] OTHER -> 0

\* Running before pending before stopped, then the newest.
Keeper(insts) ==
    Newest({i \in insts : \A j \in insts : Rank(i) >= Rank(j)})

\* Mutant: duplicates are terminated only beside a running server.
ExtrasOfRunning(insts) ==
    IF Cardinality(insts) < 2 \/ Rank(Keeper(insts)) < 3 THEN {} ELSE insts \ {Keeper(insts)}
Extras(insts) == IF Cardinality(insts) < 2 THEN {} ELSE insts \ {Keeper(insts)}

\* The duplicates go asynchronously.
Dedupe(insts) == terminating' = terminating \union Extras(insts)

\* Mutants: only a running server is good enough; a stopped one is not.
GoesUnlessRunning(c, found) ==
    IF request[c].kind = "status" \/ found = "running" THEN "idle"
    ELSE IF found = "stopped" THEN "resume"
    ELSE IF SharedMode THEN "reuse" ELSE "launch"
GoesToLaunch(c, found) ==
    IF request[c].kind = "status" \/ found \in {"pending", "running"} THEN "idle"
    ELSE IF SharedMode /\ found # "stopped" THEN "reuse" ELSE "launch"

\* getWorkspaceStatus answers; startWorkspace goes on by what it found.
Goes(c, found) ==
    IF request[c].kind = "status" \/ found \in {"pending", "running"} THEN "idle"
    ELSE IF found = "stopped" THEN "resume"
    ELSE IF SharedMode THEN "reuse" ELSE "launch"

Proceed(c, i, found) ==
    IF Goes(c, found) = "idle" THEN Answer(c)
                               ELSE Goto(c, [Now(c, Goes(c, found)) EXCEPT !.inst = i])

Find(c) ==
    LET found == Of(request[c].project) \intersect Existing
        i == Keeper(found)
    IN  /\ request[c].at = "find"
        /\ Dedupe(found)
        /\ \/ found = {} /\ IF SharedMode THEN Goto(c, Now(c, "find any")) ELSE Proceed(c, Nil, Nil)
           \/ found # {} /\ state[i] = "running" /\ Goto(c, [Now(c, "health") EXCEPT !.inst = i])
           \/ found # {} /\ state[i] # "running" /\ Proceed(c, i, state[i])
        /\ UNCHANGED <<awsVars, targets, countVars, disturbed>>

\* findAnyRunningServer: the first of AWS's list.
FindAny(c) ==
    /\ request[c].at = "find any"
    /\ \/ \E i \in In({"running"}) : Goto(c, [Now(c, "health") EXCEPT !.inst = i])
       \/ In({"running"}) = {} /\ Proceed(c, Nil, Nil)
    /\ UNCHANGED <<awsVars, terminating, targets, countVars, disturbed>>

-----------------------------------------------------------------------------
(* ensureTargetRegistered *)

Health(c) ==
    /\ request[c].at = "health"
    /\ IF request[c].inst \in targets
         THEN Answer(c)
         ELSE Goto(c, [Now(c, IF targets = {} THEN "register" ELSE "deregister") EXCEPT !.stale = targets])
    /\ UNCHANGED <<awsVars, terminating, targets, countVars, disturbed>>

Deregister(c) ==
    /\ request[c].at = "deregister"
    /\ targets' = targets \ request[c].stale
    /\ Goto(c, Now(c, "register"))
    /\ UNCHANGED <<awsVars, terminating, countVars, disturbed>>

\* Mutant: the stale targets go last, the new one among them.
RegisterFirst(c) ==
    /\ request[c].at = "register"
    /\ targets' = {}
    /\ Answer(c)
    /\ UNCHANGED <<awsVars, terminating, countVars, disturbed>>

Register(c) ==
    /\ request[c].at = "register"
    /\ targets' = targets \union {request[c].inst}
    /\ Answer(c)
    /\ UNCHANGED <<awsVars, terminating, countVars, disturbed>>

\* Failures of the load balancer are logged, and the answer is the same.
TargetFails(c) ==
    /\ request[c].at \in {"health", "deregister", "register"}
    /\ Trouble /\ Answer(c)
    /\ UNCHANGED <<awsVars, terminating, targets, disturbed>>

-----------------------------------------------------------------------------
(* startWorkspace: another server, a stopped one, a new one *)

Reuse(c) ==
    /\ request[c].at = "reuse"
    /\ \/ \E i \in In({"running"}) : Goto(c, [Now(c, "health") EXCEPT !.inst = i])
       \/ In({"running"}) = {} /\ Goto(c, Now(c, "resume any"))
    /\ UNCHANGED <<awsVars, terminating, targets, countVars, disturbed>>

\* findAnyManagedServer asks for stopped servers only.
ResumeAny(c) ==
    /\ request[c].at = "resume any"
    /\ IF In({"stopped"}) # {}
         THEN Goto(c, [Now(c, "start it") EXCEPT !.inst = Newest(In({"stopped"}))])
         ELSE Goto(c, Now(c, "launch"))
    /\ UNCHANGED <<awsVars, terminating, targets, countVars, disturbed>>

\* It looks the instance up again, for its token.
Resume(c) ==
    LET found == Of(request[c].project) \intersect Existing
    IN  /\ request[c].at = "resume"
        /\ Dedupe(found)
        /\ Goto(c, Now(c, "start it"))
        /\ UNCHANGED <<awsVars, targets, countVars, disturbed>>

\* AWS refuses to start what is stopping or terminated, and the request fails.
StartIt(c) ==
    /\ request[c].at = "start it"
    /\ IF state[request[c].inst] = "stopped"
         THEN state' = [state EXCEPT ![request[c].inst] = "pending"] /\ Launched(request[c].inst)
         ELSE UNCHANGED <<state, newer>>
    /\ Answer(c)
    /\ UNCHANGED <<project, volume, terminating, targets, countVars, disturbed>>

\* findOrCreateVolume, then RunInstances with what the user data says.
Launch(c) ==
    LET p == request[c].project
    IN  /\ request[c].at = "launch"
        /\ volume' = IF volume[p] = Missing THEN [volume EXCEPT ![p] = Nil] ELSE volume
        /\ Goto(c, Now(c, "run"))
        /\ UNCHANGED <<state, project, newer, terminating, targets, countVars, disturbed>>

RunInstance(c) ==
    /\ request[c].at = "run" /\ In({Nil}) # {}
    /\ LET i == CHOOSE i \in In({Nil}) : TRUE
       IN  /\ state' = [state EXCEPT ![i] = "pending"] /\ Launched(i)
           /\ project' = [project EXCEPT ![i] = request[c].project]
           /\ Goto(c, [Now(c, "attach") EXCEPT !.inst = i])
    /\ UNCHANGED <<volume, terminating, targets, countVars, disturbed>>

\* A volume that is attached elsewhere is not waited for: the server does without.
Attach(c) ==
    LET p == request[c].project
    IN  /\ request[c].at = "attach"
        /\ volume' = IF volume[p] = Nil /\ request[c].inst \in Existing
                       THEN [volume EXCEPT ![p] = request[c].inst] ELSE volume
        /\ Answer(c)
        /\ UNCHANGED <<state, project, newer, terminating, targets, countVars, disturbed>>

AttachFails(c) ==
    /\ request[c].at = "attach"
    /\ Trouble /\ Answer(c)
    /\ disturbed' = TRUE
    /\ UNCHANGED <<awsVars, terminating, targets>>

AtLimit(c) == request[c].at = "run" /\ In({Nil}) = {}

\* Any other failure, a limit of the account among them, is the client's: 500.
CallFails(c) ==
    /\ request[c].at \in {"find", "find any", "reuse", "resume any", "resume", "start it",
                          "launch", "run"}
    /\ IF AtLimit(c) THEN UNCHANGED countVars ELSE Trouble
    /\ Answer(c)
    /\ UNCHANGED <<awsVars, terminating, targets, disturbed>>

-----------------------------------------------------------------------------
(* AWS and the admin routes *)

Becomes(i, new) ==
    /\ state' = [state EXCEPT ![i] = new]
    /\ newer' = IF new = "gone" THEN Others(i) ELSE newer
    /\ UNCHANGED <<project, targets, request>>

Kept == UNCHANGED <<terminating, volume, countVars, disturbed>>
Released(i) == volume' = [p \in Projects |-> IF volume[p] = i THEN Nil ELSE volume[p]]

Boots(i) == state[i] = "pending" /\ Becomes(i, "running") /\ Kept
Halts(i) == state[i] = "stopping" /\ Becomes(i, "stopped") /\ Kept

\* Its address stays in the target group.
Terminates(i) ==
    /\ i \in terminating
    /\ Becomes(i, "gone") /\ Released(i)
    /\ terminating' = terminating \ {i} /\ UNCHANGED <<countVars, disturbed>>

\* Nobody waits for that request: its failure is logged.
TerminationFails(i) ==
    /\ i \in terminating
    /\ Trouble
    /\ terminating' = terminating \ {i}
    /\ UNCHANGED <<awsVars, targets, request, disturbed>>

AdminStops(i) ==
    /\ state[i] = "running"
    /\ Trouble
    /\ disturbed' = (disturbed \/ \E c \in Containers : request[c].kind = "start")
    /\ Becomes(i, "stopping") /\ UNCHANGED <<terminating, volume>>

AdminTerminates(i) ==
    /\ i \in Existing
    /\ Trouble
    /\ Becomes(i, "gone") /\ Released(i) /\ UNCHANGED <<terminating, disturbed>>

AdminStarts(i) ==
    /\ state[i] = "stopped"
    /\ Trouble
    /\ state' = [state EXCEPT ![i] = "pending"] /\ Launched(i)
    /\ disturbed' = (disturbed \/ Active # {} \/ \E c \in Containers : request[c].kind = "start")
    /\ UNCHANGED <<project, volume, terminating, targets, request>>

-----------------------------------------------------------------------------
FindStep(c) == Find(c) \/ FindAny(c)
TargetStep(c) == Health(c) \/ Deregister(c) \/ Register(c)
StartStep(c) ==
    \/ Reuse(c) \/ ResumeAny(c) \/ Resume(c) \/ StartIt(c)
    \/ Launch(c) \/ RunInstance(c) \/ Attach(c)

RequestStep(c) == FindStep(c) \/ TargetStep(c) \/ StartStep(c) \/ (AtLimit(c) /\ CallFails(c))

Status(p) == \E c \in Containers : Arrives(c, p, "status")

AwsStep(i) == Boots(i) \/ Halts(i) \/ Terminates(i)

InstancesNext ==
    \/ \E c \in Containers :
         \/ \E p \in Projects : Arrives(c, p, "start") \/ Arrives(c, p, "status")
         \/ FindStep(c) \/ TargetStep(c) \/ StartStep(c)
         \/ TargetFails(c) \/ AttachFails(c) \/ CallFails(c)
    \/ \E i \in Instances : AwsStep(i) \/ TerminationFails(i) \/ AdminStops(i) \/ AdminTerminates(i) \/ AdminStarts(i)

InstancesSpec == InstancesInit /\ [][InstancesNext]_instancesVars

\* AWS answers and instances change their state.  Nothing is assumed of the clients: one
\* polls until its server runs, at most 180 times, and then never again.
InstancesFairness ==
    /\ \A c \in Containers : WF_instancesVars(RequestStep(c))
    /\ \A i \in Instances : WF_instancesVars(AwsStep(i))

FairInstances == InstancesSpec /\ InstancesFairness

-----------------------------------------------------------------------------
(* Properties *)

\* Types; and what the requests hold on to exists.
InstancesTypeOK ==
    /\ \A i \in Instances : state[i] = Nil <=> project[i] = Nil
    /\ targets \subseteq In({"pending", "running", "stopping", "stopped", "gone"})
    /\ terminating \subseteq Instances \ In({Nil})
    /\ \A p \in Projects : volume[p] \in {Missing, Nil} \union (Of(p) \intersect Existing)
    /\ \A c \in Containers : request[c].at \in {"health", "register", "deregister", "start it", "attach"}
                                => request[c].inst \in Instances

\* Requests that come one after the other, each after the servers came to rest, never
\* start a second server: not for a project, and none at all when projects share one.
\* The types hold whatever comes.
OneServer ==
    /\ InstancesTypeOK
    /\ ~disturbed =>
         /\ SharedMode => Cardinality(Active) <= 1
         /\ \A p \in Projects : Cardinality(Of(p) \intersect Active) <= 1

\* Such a server has its project's data volume when it runs, whatever was stopped,
\* terminated and launched again before, if AWS did not refuse to attach it.
ServerHasItsData ==
    ~disturbed =>
        \A i \in In({"running"}) :
            \/ volume[project[i]] = i
            \/ \E c \in Containers : request[c].at = "attach" /\ request[c].inst = i

\* Clients ask for the project again and again: those that wait for it, and whoever opens
\* it anew (startWorkspace does the same as a poll for a server that is there).
AskedFor(p) == []<><<Status(p)>>_instancesVars

\* However many servers concurrent starts gave a project: as long as it is asked for, that
\* alone brings it back to one (or none: two requests may each keep what the other
\* terminates).
DuplicatesGo ==
    \A p \in Projects : AskedFor(p) => <>[](Cardinality(Of(p) \intersect Existing) <= 1)

\* As long as projects are asked for and some server runs, the load balancer has one that
\* runs among its targets again and again, though every request that finds its own server
\* unregistered throws out the others.  Only the next request brings a route back that was
\* thrown out: a client that was told RUNNING asks no more, and a reconnect does not ask.
RouteReturns ==
    (\A p \in Projects : AskedFor(p)) /\ <>[](In({"running"}) # {})
        => []<>(targets \intersect In({"running"}) # {})

\* "Multiple projects share a single EC2 instance" (workspace-ec2-service.ts:6): but the
\* server that another project just launched is not looked for until it runs.
SharedServerIsOne == SharedMode => Cardinality(Active) <= 1
==============================================================================
