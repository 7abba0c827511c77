----------------------- MODULE ContextLifecycleProofs -----------------------
(* The file of statuses follows the statuses, the rules are told of them, and *)
(* they are current, for every tree of contexts, number of slots and bound.   *)
(* What is derived matters to the last of these only: the equation Derived    *)
(* is defined by has a solution, because the tree has no circle.              *)
EXTENDS ContextLifecycle, TLAPS

Fields == {"to", "changed", "alone", "last", "busy"}

\* The writes are records of flags; without a worker none is in
\* flight, and no recompute is due.
WriteShape ==
    /\ writes = [w \in Slots |-> writes[w]]
    /\ \A w \in Slots : /\ DOMAIN writes[w] = Fields
                        /\ writes[w].alone \in BOOLEAN /\ writes[w].busy \in BOOLEAN
    /\ worker = "down" => InFlight = {} /\ ~timer

\* A write that nothing disturbed is the only one and carries the statuses; and without
\* doubt every write is one.
Undisturbed(w) == InFlight = {w} /\ writes[w].to = statuses

FileInv ==
    /\ WriteShape
    /\ doubt \in BOOLEAN
    /\ \A w \in InFlight : writes[w].alone \/ ~doubt => Undisturbed(w)
    /\ FileIsCurrent

\* A new write is the only one, or leaves doubt.
LEMMA WritesStep ==
    ASSUME FileInv, NEW to, NEW changed, NEW last, Writes(to, changed, last),
           statuses' = to, worker' # "down"
    PROVE  FileInv'
<1> PICK w \in Slots \ InFlight :
        /\ writes' = [v \in Slots |->
                        IF v = w THEN [to |-> to, changed |-> changed, alone |-> InFlight = {},
                                       last |-> last, busy |-> TRUE]
                        ELSE [writes[v] EXCEPT !.alone = ~writes[v].busy]]
        /\ IF InFlight = {} THEN UNCHANGED ghostVars ELSE doubt' = TRUE
    BY DEF Writes
<1>1. writes'[w] = [to |-> to, changed |-> changed, alone |-> InFlight = {}, last |-> last, busy |-> TRUE]
    OBVIOUS
<1>2. ASSUME NEW v \in Slots, v # w
      PROVE  /\ DOMAIN writes'[v] = Fields /\ writes'[v].busy = writes[v].busy
             /\ writes'[v].alone = ~writes[v].busy
    <2>1. writes'[v] = [writes[v] EXCEPT !.alone = ~writes[v].busy]
        BY <1>2
    <2>2. DOMAIN writes[v] = Fields
        BY DEF FileInv, WriteShape
    <2> QED BY <2>1, <2>2 DEF Fields
<1>3. InFlight' = InFlight \union {w}
    BY <1>1, <1>2 DEF InFlight
<1>4. WriteShape'
    BY <1>1, <1>2, <1>3 DEF FileInv, WriteShape, Fields
<1>5. ASSUME NEW v \in InFlight', writes'[v].alone \/ ~doubt'
      PROVE  v = w /\ InFlight = {}
    BY <1>1, <1>2, <1>5 DEF InFlight, FileInv
<1>6. doubt' \in BOOLEAN
    BY DEF FileInv, ghostVars
<1> QED
    BY <1>1, <1>3, <1>4, <1>5, <1>6 DEF FileInv, Undisturbed, FileIsCurrent

LEMMA FileInit == Init => FileInv
<1> SUFFICES ASSUME Init PROVE FileInv
    OBVIOUS
<1>1. writes = [w \in Slots |-> NoWrite]
    BY DEF Init
<1>2. \A w \in Slots : writes[w] = NoWrite
    BY <1>1
<1>3. InFlight = {}
    BY <1>2 DEF InFlight, NoWrite
<1>4. DOMAIN NoWrite = Fields /\ NoWrite.alone = TRUE /\ NoWrite.busy = FALSE
    BY DEF NoWrite, Fields
<1>5. writes = [w \in Slots |-> writes[w]]
    BY <1>1, <1>2
<1>6. WriteShape
    BY <1>2, <1>3, <1>4, <1>5 DEF WriteShape, Init
<1> QED BY <1>3, <1>6 DEF Init, FileInv, FileIsCurrent

LEMMA FileNext == FileInv /\ [Next]_vars => FileInv'
<1> SUFFICES ASSUME FileInv, [Next]_vars PROVE FileInv'
    OBVIOUS
<1>A. ASSUME NEW prior, Recompute(prior), worker' # "down", UNCHANGED disk,
             \/ prior = statuses /\ worker # "down"
             \/ prior = disk /\ InFlight = {}
      PROVE  FileInv'
    <2> DEFINE next == IF parsed THEN Derived(prior) ELSE Unknown
    <2>1. statuses' = next
        BY <1>A DEF Recompute
    <2>2. CASE next = prior
        <3>1. UNCHANGED <<writes, ghostVars>>
            BY <1>A, <2>2 DEF Recompute
        <3> QED BY <1>A, <2>1, <2>2, <3>1
                DEF FileInv, WriteShape, InFlight, Undisturbed, FileIsCurrent, ghostVars
    <2>3. CASE next # prior
        <3>1. Writes(next, IF parsed THEN {c \in Contexts : next[c] # prior[c]} ELSE {}, FALSE)
            BY <1>A, <2>3 DEF Recompute
        <3> HIDE DEF next
        <3> QED BY <1>A, <2>1, <3>1, WritesStep
    <2> QED BY <2>2, <2>3
<1>B. ASSUME NEW w \in InFlight, writes' = [writes EXCEPT ![w] = NoWrite],
             worker' = worker, timer' = timer
      PROVE  WriteShape' /\ InFlight' = InFlight \ {w} /\ \A v \in InFlight' : writes'[v] = writes[v]
    BY <1>B DEF FileInv, WriteShape, InFlight, NoWrite, Fields
<1>C. ASSUME Cut PROVE FileInv'
    <2>1. writes' = [w \in Slots |-> NoWrite] /\ worker' = "down" /\ ~timer' /\ doubt' = FALSE
        BY <1>C DEF Cut
    <2>2. InFlight' = {}
        BY <2>1 DEF InFlight, NoWrite
    <2> QED BY <2>1, <2>2 DEF FileInv, WriteShape, NoWrite, Fields, FileIsCurrent
<1>D. ASSUME UNCHANGED <<worker, statuses, writes, disk, doubt>>, worker # "down" \/ timer' = timer
      PROVE  FileInv'
    BY <1>D DEF FileInv, WriteShape, InFlight, Undisturbed, FileIsCurrent
<1>1. CASE Start
    BY <1>1, <1>A DEF Start, FileInv, WriteShape
<1>2. CASE TimerFires
    BY <1>2, <1>A DEF TimerFires, FileInv, WriteShape
<1>3. ASSUME NEW w \in Slots, WriteEnds(w) PROVE FileInv'
    <2>1. /\ w \in InFlight /\ UNCHANGED <<worker, statuses, timer>>
          /\ writes' = [writes EXCEPT ![w] = NoWrite] /\ disk' = writes[w].to
          /\ doubt' = IF writes[w].alone THEN FALSE ELSE doubt
        BY <1>3 DEF WriteEnds, Tells
    <2>2. WriteShape' /\ InFlight' = InFlight \ {w} /\ \A v \in InFlight' : writes'[v] = writes[v]
        BY <2>1, <1>B
    <2> QED BY <2>1, <2>2 DEF FileInv, Undisturbed, FileIsCurrent
<1>4. ASSUME NEW w \in Slots, WriteFails(w) PROVE FileInv'
    <2>1. /\ w \in InFlight /\ UNCHANGED <<worker, statuses, timer>>
          /\ writes' = [writes EXCEPT ![w] = NoWrite] /\ doubt' = TRUE
        BY <1>4 DEF WriteFails, Tells
    <2>2. WriteShape' /\ InFlight' = InFlight \ {w} /\ \A v \in InFlight' : writes'[v] = writes[v]
        BY <2>1, <1>B
    <2> QED BY <2>1, <2>2 DEF FileInv, Undisturbed, FileIsCurrent
<1>5. CASE Shutdown
    <2>1. CASE statuses = Unknown
        <3>1. worker' = "stopping" /\ UNCHANGED <<statuses, writes, disk, doubt>> /\ worker = "up"
            BY <1>5, <2>1 DEF Shutdown, ghostVars
        <3> QED BY <3>1 DEF FileInv, WriteShape, InFlight, Undisturbed, FileIsCurrent
    <2>2. CASE statuses # Unknown
        BY <1>5, <2>2, WritesStep DEF Shutdown
    <2> QED BY <2>1, <2>2
<1>6. CASE Exit \/ Crash
    BY <1>6, <1>C DEF Exit, Crash
<1>7. CASE \/ ResultAnnounced \/ ReloadEnds \/ (\E r \in Requirements : ResultChanges(r))
           \/ DslChanges \/ ReloadBegins \/ ReloadFails \/ ClientReloads
    BY <1>7, <1>D DEF ResultAnnounced, ReloadEnds, ResultChanges, DslChanges, ReloadBegins,
                      ReloadFails, ClientReloads, Others, ghostVars, Up
<1>8. CASE UNCHANGED vars
    BY <1>8, <1>D DEF vars, ghostVars
<1> QED
    BY <1>1, <1>2, <1>3, <1>4, <1>5, <1>6, <1>7, <1>8 DEF Next, StoreStep

\* Between writes the file holds the statuses that were last derived, unless a write
\* failed or two overlapped and none came after them (recomputeNow and persist).
THEOREM FileFollowsStatuses == Spec => []FileIsCurrent
<1>1. FileInv => FileIsCurrent
    BY DEF FileInv
<1> QED BY <1>1, FileInit, FileNext, PTL DEF Spec

-----------------------------------------------------------------------------
(* What the rules were told *)

\* The only write in flight will tell of c.
ToTell(c) == \E w \in InFlight : writes[w].alone /\ c \in writes[w].changed

\* What overlapping writes tell of is given up at once; of every other context the rules
\* know the status, and that of the file, or are about to.
ToldInv ==
    /\ \A w \in InFlight : writes[w].alone \/ (doubt /\ writes[w].changed \subseteq untold)
    /\ worker = "down" => ~doubt
    /\ \A c \in Contexts \ untold :
         /\ worker # "down" => statuses[c] \in {None, told[c]} \/ ToTell(c)
         /\ ~doubt => disk[c] \in {None, told[c]} \/ ToTell(c)

LEMMA ToldInit == Init => ToldInv
<1> SUFFICES ASSUME Init PROVE ToldInv
    OBVIOUS
<1>1. InFlight = {}
    BY DEF Init, InFlight, NoWrite
<1>2. \A c \in Contexts : disk[c] = None
    BY DEF Init, Unknown
<1> QED BY <1>1, <1>2 DEF Init, ToldInv

\* A new write tells of all that differs from what the rules knew, or leaves that untold.
LEMMA ToldWrites ==
    ASSUME FileInv, ToldInv, NEW prior, NEW to, NEW changed, NEW last,
           Writes(to, changed, last), statuses' = to, worker' # "down", UNCHANGED <<disk, told>>,
           \/ prior = statuses /\ worker # "down"
           \/ prior = disk /\ InFlight = {} /\ worker = "down",
           \A c \in Contexts \ changed : to[c] \in {None, prior[c]}
    PROVE  ToldInv'
<1> PICK w \in Slots \ InFlight :
        /\ writes' = [v \in Slots |->
                        IF v = w THEN [to |-> to, changed |-> changed, alone |-> InFlight = {},
                                       last |-> last, busy |-> TRUE]
                        ELSE [writes[v] EXCEPT !.alone = ~writes[v].busy]]
        /\ IF InFlight = {}
             THEN UNCHANGED ghostVars
             ELSE /\ doubt' = TRUE
                  /\ untold' = untold \union changed \union UNION {writes[v].changed : v \in InFlight}
    BY DEF Writes
<1>1. writes'[w] = [to |-> to, changed |-> changed, alone |-> InFlight = {}, last |-> last, busy |-> TRUE]
    OBVIOUS
<1>2. ASSUME NEW v \in Slots, v # w
      PROVE  /\ writes'[v].busy = writes[v].busy /\ writes'[v].changed = writes[v].changed
             /\ writes'[v].alone = ~writes[v].busy
    <2>1. writes'[v] = [writes[v] EXCEPT !.alone = ~writes[v].busy]
        BY <1>2
    <2>2. DOMAIN writes[v] = Fields
        BY DEF FileInv, WriteShape
    <2> QED BY <2>1, <2>2 DEF Fields
<1>3. InFlight' = InFlight \union {w}
    BY <1>1, <1>2 DEF InFlight
<1>4. CASE InFlight = {}
    <2>1. UNCHANGED <<untold, doubt>> /\ InFlight' = {w} /\ writes'[w].alone /\ writes'[w].changed = changed
        BY <1>1, <1>3, <1>4 DEF ghostVars
    <2>2. ASSUME NEW c \in Contexts \ untold PROVE prior[c] \in {None, told[c]} /\ ~ToTell(c)
        BY <1>4, <2>2 DEF ToldInv, ToTell
    <2>3. ASSUME NEW c \in Contexts \ untold PROVE to[c] \in {None, told[c]} \/ c \in changed
        BY <2>2, <2>3
    <2>4. ASSUME NEW c \in Contexts \ untold, ~doubt PROVE disk[c] \in {None, told[c]}
        BY <2>2, <2>4 DEF ToldInv
    <2> QED BY <2>1, <2>3, <2>4 DEF ToldInv, ToTell
<1>5. CASE InFlight # {}
    <2>1. doubt' = TRUE /\ untold' = untold \union changed \union UNION {writes[v].changed : v \in InFlight}
        BY <1>5
    <2>2. ASSUME NEW v \in InFlight' PROVE writes'[v].changed \subseteq untold'
        <3>1. CASE v = w
            BY <1>1, <2>1, <3>1
        <3>2. CASE v # w
            <4>1. v \in InFlight /\ v \in Slots
                BY <1>3, <3>2 DEF InFlight
            <4> QED BY <1>2, <2>1, <3>2, <4>1
        <3> QED BY <3>1, <3>2
    <2>3. ASSUME NEW c \in Contexts \ untold' PROVE to[c] \in {None, told[c]}
        <3>1. c \notin untold /\ c \notin changed /\ ~ToTell(c)
            BY <2>1, <2>3 DEF ToTell
        <3> QED BY <1>5, <3>1 DEF ToldInv
    <2> QED BY <2>1, <2>2, <2>3 DEF ToldInv
<1> QED BY <1>4, <1>5

LEMMA ToldNext == FileInv /\ ToldInv /\ [Next]_vars => ToldInv'
<1> SUFFICES ASSUME FileInv, ToldInv, [Next]_vars PROVE ToldInv'
    OBVIOUS
<1>A. ASSUME NEW prior, Recompute(prior), worker' # "down", UNCHANGED <<disk, told>>,
             \/ prior = statuses /\ worker # "down"
             \/ prior = disk /\ InFlight = {} /\ worker = "down"
      PROVE  ToldInv'
    <2> DEFINE next == IF parsed THEN Derived(prior) ELSE Unknown
               changed == IF parsed THEN {c \in Contexts : next[c] # prior[c]} ELSE {}
    <2>1. statuses' = next
        BY <1>A DEF Recompute
    <2>2. CASE next = prior
        <3>1. UNCHANGED <<writes, ghostVars>>
            BY <1>A, <2>2 DEF Recompute
        <3> QED BY <1>A, <2>1, <2>2, <3>1 DEF ToldInv, ToTell, InFlight, ghostVars
    <2>3. CASE next # prior
        <3>1. Writes(next, changed, FALSE)
            BY <1>A, <2>3 DEF Recompute
        <3>2. \A c \in Contexts \ changed : next[c] \in {None, prior[c]}
            BY DEF Unknown
        <3> HIDE DEF next, changed
        <3> QED BY <1>A, <2>1, <3>1, <3>2, ToldWrites
    <2> QED BY <2>2, <2>3
<1>B. ASSUME NEW w \in InFlight, Tells(w), UNCHANGED <<worker, statuses>>,
             \/ disk' = writes[w].to /\ doubt' = IF writes[w].alone THEN FALSE ELSE doubt
             \/ UNCHANGED disk /\ doubt' = TRUE
      PROVE  ToldInv'
    <2>1. InFlight' = InFlight \ {w} /\ \A v \in InFlight' : writes'[v] = writes[v]
        BY <1>B DEF Tells, FileInv, WriteShape, InFlight, NoWrite, Fields
    <2>2. worker # "down"
        BY DEF FileInv, WriteShape
    <2>3. CASE writes[w].alone
        <3>1. InFlight = {w} /\ writes[w].to = statuses /\ InFlight' = {}
            BY <2>1, <2>3 DEF FileInv, Undisturbed
        <3>2. untold' = untold \ writes[w].changed
            BY <1>B, <2>3 DEF Tells
        <3>3. ASSUME NEW c \in Contexts \ untold' PROVE statuses[c] \in {None, told'[c]}
            <4>1. CASE c \in writes[w].changed
                BY <1>B, <3>1, <4>1 DEF Tells
            <4>2. CASE c \notin writes[w].changed
                <5>1. told'[c] = told[c] /\ ~ToTell(c) /\ c \notin untold
                    BY <1>B, <3>1, <3>2, <3>3, <4>2 DEF Tells, ToTell
                <5> QED BY <2>2, <5>1 DEF ToldInv
            <4> QED BY <4>1, <4>2
        <3> QED BY <1>B, <2>2, <2>3, <3>1, <3>3 DEF ToldInv
    <2>4. CASE ~writes[w].alone
        <3>1. writes[w].changed \subseteq untold /\ untold' = untold
            BY <1>B, <2>4 DEF ToldInv, Tells
        <3>2. doubt'
            BY <1>B, <2>4 DEF ToldInv
        <3>3. ASSUME NEW c \in Contexts \ untold PROVE told'[c] = told[c] /\ (ToTell(c) => ToTell(c)')
            <4>1. told'[c] = told[c]
                BY <1>B, <3>1, <3>3 DEF Tells
            <4>2. ToTell(c) => ToTell(c)'
                BY <2>1, <2>4 DEF ToTell
            <4> QED BY <4>1, <4>2
        <3> QED BY <1>B, <2>1, <2>2, <3>1, <3>2, <3>3 DEF ToldInv
    <2> QED BY <2>3, <2>4
<1>C. ASSUME Cut PROVE ToldInv'
    <2>1. /\ worker' = "down" /\ ~doubt' /\ told' = told
          /\ doubt => untold' = Contexts
          /\ ~doubt => untold' = untold \union UNION {writes[w].changed : w \in InFlight}
          /\ disk' \in {disk, Unknown} \union {writes[w].to : w \in InFlight}
        BY <1>C DEF Cut
    <2>2. InFlight' = {}
        BY <1>C DEF Cut, InFlight, NoWrite
    <2>3. ASSUME NEW c \in Contexts \ untold' PROVE disk'[c] \in {None, told[c]}
        <3>1. ~doubt /\ c \notin untold /\ \A w \in InFlight : c \notin writes[w].changed
            BY <2>1, <2>3
        <3>2. disk[c] \in {None, told[c]}
            BY <3>1 DEF ToldInv, ToTell
        <3>3. ASSUME NEW w \in InFlight PROVE writes[w].to[c] \in {None, told[c]}
            <4>1. writes[w].to = statuses /\ worker # "down"
                BY <3>1, <3>3 DEF FileInv, WriteShape, Undisturbed
            <4> QED BY <3>1, <4>1 DEF ToldInv, ToTell
        <3> QED BY <2>1, <3>2, <3>3 DEF Unknown
    <2> QED BY <2>1, <2>2, <2>3 DEF ToldInv
<1>D. ASSUME UNCHANGED <<worker, statuses, writes, disk, told, ghostVars>> PROVE ToldInv'
    BY <1>D DEF ToldInv, ToTell, InFlight, ghostVars
<1>1. CASE Start
    BY <1>1, <1>A DEF Start, FileInv, WriteShape
<1>2. CASE TimerFires
    BY <1>2, <1>A DEF TimerFires, FileInv, WriteShape
<1>3. ASSUME NEW w \in Slots, WriteEnds(w) PROVE ToldInv'
    BY <1>3, <1>B DEF WriteEnds
<1>4. ASSUME NEW w \in Slots, WriteFails(w) PROVE ToldInv'
    BY <1>4, <1>B DEF WriteFails
<1>5. CASE Shutdown
    <2>1. CASE statuses = Unknown
        <3>1. worker' = "stopping" /\ UNCHANGED <<statuses, writes, disk, told, ghostVars>> /\ worker = "up"
            BY <1>5, <2>1 DEF Shutdown
        <3> QED BY <3>1 DEF ToldInv, ToTell, InFlight, ghostVars
    <2>2. CASE statuses # Unknown
        BY <1>5, <2>2, ToldWrites DEF Shutdown
    <2> QED BY <2>1, <2>2
<1>6. CASE Exit \/ Crash
    BY <1>6, <1>C DEF Exit, Crash
<1>7. CASE \/ ResultAnnounced \/ ReloadEnds \/ (\E r \in Requirements : ResultChanges(r))
           \/ DslChanges \/ ReloadBegins \/ ReloadFails \/ ClientReloads
    BY <1>7, <1>D DEF ResultAnnounced, ReloadEnds, ResultChanges, DslChanges, ReloadBegins, ReloadFails,
                      ClientReloads, Others
<1>8. CASE UNCHANGED vars
    BY <1>8, <1>D DEF vars
<1> QED
    BY <1>1, <1>2, <1>3, <1>4, <1>5, <1>6, <1>7, <1>8 DEF Next, StoreStep

\* Between writes the rules were told of every status they could be told of: each write
\* (persist) is followed by the events of what it changed (recomputeNow), failed or not,
\* and a restart compares with a file that says no more than was told.
THEOREM RulesAreTold == Spec => []RulesWereTold
<1>1. ToldInv => RulesWereTold
    BY DEF ToldInv, RulesWereTold, ToTell
<1> QED BY <1>1, FileInit, FileNext, ToldInit, ToldNext, PTL DEF Spec

-----------------------------------------------------------------------------
(* What is derived: the equation Derived solves *)

Needs(c) == Children[c] \union Depends[c]

\* g has the next status of the contexts of S, and S all that these are derived from.
Solves(prior, S, g) ==
    /\ S \subseteq Contexts /\ \A c \in S : Needs(c) \subseteq S
    /\ g = [c \in S |-> g[c]]
    /\ \A c \in S : g[c] = DerivedFrom(prior, g, c)

LEMMA SameBelow ==
    ASSUME NEW prior, NEW c, NEW g, NEW h, \A d \in Needs(c) : g[d] = h[d]
    PROVE  DerivedFrom(prior, g, c) = DerivedFrom(prior, h, c)
<1>1. {d \in Children[c] : g[d] = "done"} = {d \in Children[c] : h[d] = "done"}
    BY DEF Needs
<1>2. {g[d] : d \in Depends[c]} = {h[d] : d \in Depends[c]}
    BY DEF Needs
<1> QED BY <1>1, <1>2 DEF DerivedFrom

\* Two solutions agree: of the contexts where they do not, one would have all it is
\* derived from elsewhere.
LEMMA OneSolution ==
    ASSUME NEW prior, NEW S, NEW g, NEW T, NEW h, Solves(prior, S, g), Solves(prior, T, h),
           NEW c \in S \intersect T
    PROVE  g[c] = h[c]
<1> DEFINE D == {d \in S \intersect T : g[d] # h[d]}
<1>1. CASE D = {}
    BY <1>1
<1>2. CASE D # {}
    <2>1. PICK d \in D : Needs(d) \intersect D = {}
        BY <1>2, NoCircle DEF Solves, Needs
    <2>2. \A e \in Needs(d) : g[e] = h[e]
        BY <2>1 DEF Solves
    <2>3. g[d] = DerivedFrom(prior, g, d) /\ h[d] = DerivedFrom(prior, h, d)
        BY DEF Solves
    <2> QED BY <2>2, <2>3, SameBelow
<1> QED BY <1>1, <1>2

\* What some solution says of c.
Says(prior, c, v) == \E S, g : Solves(prior, S, g) /\ c \in S /\ g[c] = v

\* All that solutions say makes one solution, and a context it leaves out whose children
\* and dependencies it has could be added: it has all contexts.
LEMMA Solvable == ASSUME NEW prior PROVE \E g : Solves(prior, Contexts, g)
<1> DEFINE U == {c \in Contexts : \E v : Says(prior, c, v)}
           G == [c \in U |-> CHOOSE v : Says(prior, c, v)]
<1>1. ASSUME NEW S, NEW g, Solves(prior, S, g), NEW c \in S PROVE c \in U /\ G[c] = g[c]
    <2>1. Says(prior, c, g[c]) /\ c \in Contexts
        BY <1>1 DEF Says, Solves
    <2>2. ASSUME NEW v, Says(prior, c, v) PROVE v = g[c]
        BY <1>1, <2>2, OneSolution DEF Says
    <2>3. c \in U /\ G[c] = CHOOSE v : Says(prior, c, v)
        BY <2>1
    <2>4. Says(prior, c, G[c])
        BY <2>1, <2>3
    <2> HIDE DEF U, G
    <2> QED BY <2>2, <2>3, <2>4
<1>2. ASSUME NEW c \in U PROVE Needs(c) \subseteq U /\ G[c] = DerivedFrom(prior, G, c)
    <2>1. PICK S, g : Solves(prior, S, g) /\ c \in S
        BY DEF Says
    <2>2. Needs(c) \subseteq S /\ g[c] = DerivedFrom(prior, g, c)
        BY <2>1 DEF Solves
    <2> HIDE DEF U, G
    <2>3. \A d \in S : d \in U /\ G[d] = g[d]
        BY <1>1, <2>1
    <2> QED BY <2>1, <2>2, <2>3, SameBelow
<1>3. Solves(prior, U, G)
    BY <1>2 DEF Solves
<1>4. U = Contexts
    <2>1. SUFFICES ASSUME U # Contexts PROVE FALSE
        OBVIOUS
    <2>2. PICK c \in Contexts \ U : Needs(c) \intersect (Contexts \ U) = {}
        BY <2>1, NoCircle DEF Needs
    <2>3. Needs(c) \subseteq U /\ c \notin Needs(c)
        BY <2>2, TreeAssumption DEF Needs
    <2> DEFINE h == [d \in U \union {c} |-> IF d = c THEN DerivedFrom(prior, G, c) ELSE G[d]]
    <2>4. ASSUME NEW d \in U PROVE h[d] = G[d]
        BY <2>2
    <2>5. h[c] = DerivedFrom(prior, G, c) /\ h = [d \in U \union {c} |-> h[d]]
        OBVIOUS
    <2> HIDE DEF h, U, G
    <2>6. ASSUME NEW d \in U \union {c} PROVE Needs(d) \subseteq U /\ h[d] = DerivedFrom(prior, G, d)
        BY <1>2, <2>2, <2>3, <2>4, <2>5
    <2>7. ASSUME NEW d \in U \union {c} PROVE DerivedFrom(prior, G, d) = DerivedFrom(prior, h, d)
        BY <2>4, <2>6, SameBelow
    <2>8. U \union {c} \subseteq Contexts
        BY <1>3 DEF Solves
    <2>9. Solves(prior, U \union {c}, h)
        BY <2>5, <2>6, <2>7, <2>8 DEF Solves
    <2> QED BY <1>1, <2>2, <2>9
<1> QED BY <1>3, <1>4

\* What is derived solves the equation it is defined by.
LEMMA DerivedSolves ==
    ASSUME NEW prior
    PROVE  /\ Derived(prior) = [c \in Contexts |-> Derived(prior)[c]]
           /\ \A c \in Contexts : Derived(prior)[c] = DerivedFrom(prior, Derived(prior), c)
<1> DEFINE Eq(g) == g = [c \in Contexts |-> DerivedFrom(prior, g, c)]
<1>1. PICK g : Solves(prior, Contexts, g)
    BY Solvable
<1>2. Eq(g)
    BY <1>1 DEF Solves
<1>3. Derived(prior) = CHOOSE f : Eq(f)
    BY DEF Derived
<1>4. Eq(Derived(prior))
    <2> HIDE DEF Eq
    <2> QED BY <1>2, <1>3
<1> QED BY <1>4

LEMMA DerivedIsStatus == ASSUME NEW prior PROVE Derived(prior) \in [Contexts -> Statuses]
<1>1. ASSUME NEW c \in Contexts PROVE Derived(prior)[c] \in Statuses
    <2>1. PICK all, any, depsDone, depBroken :
            Derived(prior)[c] = StatusAfter(prior[c], all, any, depsDone, depBroken)
        BY DerivedSolves DEF DerivedFrom
    <2> QED BY <2>1 DEF StatusAfter, Statuses, Regressions
<1> QED BY <1>1, DerivedSolves

\* Whatever a context was, it becomes done exactly if all it needs is.
LEMMA DoneAfter ==
    ASSUME NEW prior, NEW all \in BOOLEAN, NEW any \in BOOLEAN, NEW depsDone \in BOOLEAN,
           NEW depBroken \in BOOLEAN, depsDone => ~depBroken
    PROVE  StatusAfter(prior, all, any, depsDone, depBroken) = "done" <=> all /\ depsDone
BY DEF StatusAfter

LEMMA DoneWhenMet ==
    ASSUME NEW prior, NEW c \in Contexts
    PROVE  Derived(prior)[c] = "done" <=>
             /\ \A r \in Requires[c] : Passes(r)
             /\ \A d \in Children[c] \union Depends[c] : Derived(prior)[d] = "done"
<1> DEFINE next == Derived(prior)
           met == {r \in Requires[c] : Passes(r)} \union {d \in Children[c] : next[d] = "done"}
           deps == {next[d] : d \in Depends[c]}
<1>1. next[c] = StatusAfter(prior[c], met = Requires[c] \union Children[c], met # {},
                            deps \subseteq {"done"}, deps \intersect Regressions # {})
    BY DerivedSolves DEF DerivedFrom
<1>2. deps \subseteq {"done"} => ~(deps \intersect Regressions # {})
    BY DEF Regressions
<1>3. Requires[c] \intersect Children[c] = {}
    BY TreeAssumption
<1> HIDE DEF next
<1>4. met = Requires[c] \union Children[c] <=>
        (\A r \in Requires[c] : Passes(r)) /\ (\A d \in Children[c] : next[d] = "done")
    BY <1>3
<1>5. deps \subseteq {"done"} <=> \A d \in Depends[c] : next[d] = "done"
    OBVIOUS
<1> HIDE DEF met, deps
<1>6. next[c] = "done" <=> met = Requires[c] \union Children[c] /\ deps \subseteq {"done"}
    <2> DEFINE all == met = Requires[c] \union Children[c]
               any == met # {}
               depsDone == deps \subseteq {"done"}
               depBroken == deps \intersect Regressions # {}
    <2>1. next[c] = StatusAfter(prior[c], all, any, depsDone, depBroken)
        BY <1>1
    <2>2. all \in BOOLEAN /\ any \in BOOLEAN /\ depsDone \in BOOLEAN /\ depBroken \in BOOLEAN
        OBVIOUS
    <2>3. depsDone => ~depBroken
        BY <1>2
    <2>4. next[c] = "done" <=> all /\ depsDone
        <3> HIDE DEF all, any, depsDone, depBroken
        <3> QED BY <2>1, <2>2, <2>3, DoneAfter
    <2> QED BY <2>4
<1> QED BY <1>4, <1>5, <1>6 DEF next, deps

-----------------------------------------------------------------------------
(* The statuses are current *)

\* Whenever no recompute is due, the statuses are what follows from the results and the
\* standing rules: a reload that fails brings back the rules they were derived with.
CurrentInv ==
    (worker = "up" /\ parsed /\ ~timer /\ saving = {} /\ ~blind) =>
        \A c \in Contexts :
            statuses[c] = "done" <=>
                /\ \A r \in Requires[c] : r \in passing /\ r \in Tests \union Standing
                /\ \A d \in Children[c] \union Depends[c] : statuses[d] = "done"

LEMMA LifecycleInit == Init => LifecycleTypeOK /\ CurrentInv
<1> SUFFICES ASSUME Init PROVE LifecycleTypeOK /\ CurrentInv
    OBVIOUS
<1>1. Unknown \in [Contexts -> Statuses \union {None}]
    BY DEF Unknown
<1>2. \A w \in Slots : writes[w] = NoWrite
    BY DEF Init
<1>3. InFlight = {}
    BY <1>2 DEF InFlight, NoWrite
<1>4. LifecycleTypeOK
    BY <1>1, <1>2, <1>3 DEF Init, LifecycleTypeOK, NoWrite
<1> QED BY <1>4 DEF Init, CurrentInv

LEMMA TypeWrites ==
    ASSUME FileInv, LifecycleTypeOK, NEW to \in [Contexts -> Statuses \union {None}], NEW changed,
           NEW last, Writes(to, changed, last), \A c \in changed : to[c] \in Statuses
    PROVE  \A w \in Slots : /\ writes'[w].to \in [Contexts -> Statuses \union {None}]
                            /\ \A c \in writes'[w].changed : writes'[w].to[c] \in Statuses
<1> PICK w \in Slots :
        writes' = [v \in Slots |->
                     IF v = w THEN [to |-> to, changed |-> changed, alone |-> InFlight = {},
                                    last |-> last, busy |-> TRUE]
                     ELSE [writes[v] EXCEPT !.alone = ~writes[v].busy]]
    BY DEF Writes
<1>1. writes'[w].to = to /\ writes'[w].changed = changed
    OBVIOUS
<1>2. ASSUME NEW v \in Slots, v # w
      PROVE  writes'[v].to = writes[v].to /\ writes'[v].changed = writes[v].changed
    <2>1. writes'[v] = [writes[v] EXCEPT !.alone = ~writes[v].busy]
        BY <1>2
    <2>2. DOMAIN writes[v] = Fields
        BY DEF FileInv, WriteShape
    <2> QED BY <2>1, <2>2 DEF Fields
<1> QED BY <1>1, <1>2 DEF LifecycleTypeOK

\* A recompute leaves statuses that are current; what it writes has the types.
LEMMA RecomputeStep ==
    ASSUME FileInv, LifecycleTypeOK, NEW prior \in [Contexts -> Statuses \union {None}],
           Recompute(prior), UNCHANGED inputVars, UNCHANGED <<disk, told>>, worker' # "down"
    PROVE  LifecycleTypeOK' /\ CurrentInv'
<1> DEFINE next == IF parsed THEN Derived(prior) ELSE Unknown
           changed == IF parsed THEN {c \in Contexts : next[c] # prior[c]} ELSE {}
<1>1. statuses' = next /\ (blind' = reloading)
    BY DEF Recompute
<1>2. next \in [Contexts -> Statuses \union {None}] /\ \A c \in changed : next[c] \in Statuses
    BY DerivedIsStatus DEF Unknown
<1>3. \A w \in Slots : /\ writes'[w].to \in [Contexts -> Statuses \union {None}]
                       /\ \A c \in writes'[w].changed : writes'[w].to[c] \in Statuses
    <2>1. CASE next = prior
        <3>1. UNCHANGED writes
            BY <2>1 DEF Recompute
        <3> QED BY <3>1 DEF LifecycleTypeOK
    <2>2. CASE next # prior
        <3>1. Writes(next, changed, FALSE)
            BY <2>2 DEF Recompute
        <3> HIDE DEF next, changed
        <3> QED BY <1>2, <3>1, TypeWrites
    <2> QED BY <2>1, <2>2
<1>4. LifecycleTypeOK'
    <2> HIDE DEF next
    <2> QED BY <1>1, <1>2, <1>3 DEF LifecycleTypeOK
<1>5. ASSUME parsed', ~blind'
      PROVE  \A c \in Contexts :
                statuses'[c] = "done" <=>
                    /\ \A r \in Requires[c] : r \in passing /\ r \in Tests \union Standing
                    /\ \A d \in Children[c] \union Depends[c] : statuses'[d] = "done"
    <2>1. statuses' = Derived(prior)
        BY <1>1, <1>5 DEF inputVars
    <2>2. Standing = declared
        BY <1>1, <1>5 DEF Standing
    <2>3. \A r : Passes(r) <=> r \in passing /\ r \in Tests \union Standing
        BY <2>2 DEF Passes
    <2> QED BY <2>1, <2>3, DoneWhenMet
<1>6. UNCHANGED <<passing, Standing>>
    BY DEF inputVars, ruleVars, Standing
<1> QED BY <1>4, <1>5, <1>6 DEF CurrentInv

LEMMA LifecycleNext ==
    FileInv /\ LifecycleTypeOK /\ CurrentInv /\ [Next]_vars => LifecycleTypeOK' /\ CurrentInv'
<1> SUFFICES ASSUME FileInv, LifecycleTypeOK, CurrentInv, [Next]_vars
             PROVE  LifecycleTypeOK' /\ CurrentInv'
    OBVIOUS
<1> USE DEF inputVars, ruleVars, boundVars, Standing
<1>A. ASSUME NEW w \in InFlight, Tells(w), UNCHANGED <<worker, statuses, inputVars, timer, blind>>,
             disk' \in {disk, writes[w].to}
      PROVE  LifecycleTypeOK' /\ CurrentInv'
    <2>1. InFlight' \subseteq InFlight
        BY <1>A DEF Tells, InFlight, NoWrite, FileInv, WriteShape
    <2>2. ASSUME NEW v \in Slots
          PROVE  /\ writes'[v].to \in [Contexts -> Statuses \union {None}]
                 /\ \A c \in writes'[v].changed : writes'[v].to[c] \in Statuses
        <3>1. writes'[v] = IF v = w THEN NoWrite ELSE writes[v]
            BY <1>A DEF Tells, FileInv, WriteShape
        <3> QED BY <3>1 DEF LifecycleTypeOK, NoWrite, Unknown
    <2>3. told' \in [Contexts -> Statuses \union {None}]
        BY <1>A DEF Tells, LifecycleTypeOK, InFlight
    <2>4. disk' \in [Contexts -> Statuses \union {None}]
        BY <1>A DEF LifecycleTypeOK, InFlight
    <2> QED BY <1>A, <2>1, <2>2, <2>3, <2>4 DEF LifecycleTypeOK, CurrentInv
<1>B. ASSUME Cut PROVE LifecycleTypeOK' /\ CurrentInv'
    <2>1. /\ worker' = "down" /\ statuses' = Unknown /\ ~timer' /\ saving' = {} /\ ~reloading' /\ told' = told
          /\ disk' \in {disk, Unknown} \union {writes[w].to : w \in InFlight}
        BY <1>B DEF Cut
    <2>2. \A w \in Slots : writes'[w] = NoWrite
        BY <1>B DEF Cut
    <2>3. InFlight' = {}
        BY <2>2 DEF InFlight, NoWrite
    <2>4. Unknown \in [Contexts -> Statuses \union {None}]
        BY DEF Unknown
    <2>5. disk' \in [Contexts -> Statuses \union {None}]
        BY <2>1, <2>4 DEF LifecycleTypeOK, InFlight
    <2> QED BY <2>1, <2>2, <2>3, <2>4, <2>5 DEF LifecycleTypeOK, CurrentInv, NoWrite
<1>C. ASSUME UNCHANGED <<statuses, writes, disk, told>>, worker' = worker, worker # "down"
      PROVE  LifecycleTypeOK'
    BY <1>C DEF LifecycleTypeOK, InFlight
<1>1. CASE Start
    BY <1>1, RecomputeStep DEF Start, LifecycleTypeOK
<1>2. CASE TimerFires
    <2>1. worker # "down"
        BY <1>2 DEF TimerFires, LifecycleTypeOK
    <2> QED BY <1>2, <2>1, RecomputeStep DEF TimerFires, LifecycleTypeOK
<1>3. ASSUME NEW w \in Slots, WriteEnds(w) PROVE LifecycleTypeOK' /\ CurrentInv'
    BY <1>3, <1>A DEF WriteEnds
<1>4. ASSUME NEW w \in Slots, WriteFails(w) PROVE LifecycleTypeOK' /\ CurrentInv'
    BY <1>4, <1>A DEF WriteFails
<1>5. CASE Shutdown
    <2>1. worker' = "stopping" /\ UNCHANGED <<statuses, disk, told>>
        BY <1>5 DEF Shutdown
    <2>2. \A w \in Slots : /\ writes'[w].to \in [Contexts -> Statuses \union {None}]
                           /\ \A c \in writes'[w].changed : writes'[w].to[c] \in Statuses
        <3>1. CASE statuses = Unknown
            BY <1>5, <3>1 DEF Shutdown, LifecycleTypeOK
        <3>2. CASE statuses # Unknown
            BY <1>5, <3>2, TypeWrites DEF Shutdown, LifecycleTypeOK
        <3> QED BY <3>1, <3>2
    <2> QED BY <2>1, <2>2 DEF LifecycleTypeOK, CurrentInv
<1>6. CASE Exit \/ Crash
    BY <1>6, <1>B DEF Exit, Crash
<1>7. CASE ResultAnnounced \/ ReloadEnds \/ DslChanges
    BY <1>7, <1>C DEF ResultAnnounced, ReloadEnds, DslChanges, Others, Up, CurrentInv
<1>8. ASSUME NEW r \in Requirements, ResultChanges(r) PROVE LifecycleTypeOK' /\ CurrentInv'
    BY <1>8, <1>C DEF ResultChanges, Others, Up, CurrentInv
<1>9. CASE ReloadBegins \/ ReloadFails
    BY <1>9, <1>C DEF ReloadBegins, ReloadFails, Others, Up, CurrentInv
<1>11. CASE ClientReloads
    BY <1>11, <1>C DEF ClientReloads, Others, CurrentInv
<1>10. CASE UNCHANGED vars
    BY <1>10 DEF vars, LifecycleTypeOK, CurrentInv, InFlight
<1> QED
    BY <1>1, <1>2, <1>3, <1>4, <1>5, <1>6, <1>7, <1>8, <1>9, <1>10, <1>11 DEF Next, StoreStep

\* Whenever no recompute is due, a context is done exactly if what it requires passes and
\* its children and dependencies are done (deriveLifecycleStatuses, scheduleRecompute),
\* for every tree without a circle, whatever changed, failed or crashed before, but for
\* what a failed reload or one that a client asked for did behind the store's back.
THEOREM StatusesAreCurrent == Spec => []StatusIsCurrent
<1>1. LifecycleTypeOK /\ CurrentInv => StatusIsCurrent
    <2> SUFFICES ASSUME LifecycleTypeOK, CurrentInv,
                        worker = "up" /\ parsed /\ ~reloading /\ ~timer /\ saving = {} /\ ~blind
                 PROVE  Current
        BY DEF StatusIsCurrent
    <2>1. \A r : Passes(r) <=> r \in passing /\ r \in Tests \union Standing
        BY DEF Passes, Standing
    <2> QED BY <2>1 DEF CurrentInv, Current
<1> QED BY <1>1, FileInit, FileNext, LifecycleInit, LifecycleNext, PTL DEF Spec
============================================================================
