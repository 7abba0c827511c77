------------------------- MODULE WorkflowManagerProofs -------------------------
(***************************************************************************)
(* Nobody is forgotten in a queue of the workflow manager, and no change   *)
(* of a file is lost but in the known ways, for every bound and every size *)
(* of the log.                                                             *)
(***************************************************************************)
EXTENDS WorkflowManager, SequenceTheorems, WellFoundedInduction, TLAPS

-----------------------------------------------------------------------------
(* Who waits is woken *)

\* A reload that was announced is under way.
PromiseIsKept == promise => timer \/ reloading

Inv == QueueIsWoken /\ WaitersAreWoken /\ PromiseIsKept

LEMMA EnterKeeps ==
  ASSUME NEW call, Enter(call), WaitersAreWoken, PromiseIsKept
  PROVE  waiting' # {} => promise /\ (timer \/ reloading)
BY DEF Enter, MustWait, WaitersAreWoken, PromiseIsKept

LEMMA InitInv == Init => Inv
BY DEF Init, Inv, QueueIsWoken, WaitersAreWoken, PromiseIsKept

LEMMA StepInv == Inv /\ [Next]_vars => Inv'
<1> SUFFICES ASSUME Inv, [Next]_vars
             PROVE  Inv'
  OBVIOUS
<1> USE DEF Inv, QueueIsWoken, WaitersAreWoken, PromiseIsKept
<1>1. ASSUME NEW call \in ready, Proceed(call)
      PROVE  Inv'
  <2>1. run' # NoRun \/ (run' = run /\ (run # NoRun \/ ~runtime))
    BY <1>1 DEF Proceed, NoRun
  <2> QED
    BY <1>1, <2>1 DEF Proceed, reloadVars
<1>2. ASSUME RulesEnd PROVE Inv'
  <2>1. run' # NoRun
    BY <1>2 DEF RulesEnd, NoRun
  <2> QED
    BY <1>2, <2>1 DEF RulesEnd, reloadVars
<1>2a. ASSUME RulesThrow PROVE Inv'
  BY <1>2a DEF RulesThrow, FlushPending, reloadVars
<1>3. ASSUME SaveEnds PROVE Inv'
  BY <1>3 DEF SaveEnds, FlushPending, reloadVars
<1>4. ASSUME NEW batch \in flushes, FlushTimer(batch) PROVE Inv'
  BY <1>4, EnterKeeps DEF FlushTimer
<1>5. ASSUME ScheduleFires PROVE Inv'
  BY <1>5, EnterKeeps DEF ScheduleFires
<1>5b. ASSUME SchedulePrunes \/ SchedulerSaved PROVE Inv'
  BY <1>5b DEF SchedulePrunes, SchedulerSaved, reloadVars, queueVars
<1>5a. ASSUME ManualEvent PROVE Inv'
  BY <1>5a DEF ManualEvent
<1>6. ASSUME Hold PROVE Inv'
  BY <1>6 DEF Hold, reloadVars
<1>7. ASSUME Release PROVE Inv'
  BY <1>7, EnterKeeps DEF Release
<1>8. ASSUME NEW kind \in Kinds, Change(kind) PROVE Inv'
  BY <1>8 DEF Change, reloadVars, queueVars
<1>9. ASSUME DropDuplicate PROVE Inv'
  BY <1>9 DEF DropDuplicate, reloadVars, queueVars
<1>10. ASSUME Drain PROVE Inv'
  BY <1>10 DEF Drain
<1>11. ASSUME Compact PROVE Inv'
  BY <1>11 DEF Compact, reloadVars, queueVars
<1>12. ASSUME UserStart PROVE Inv'
  BY <1>12 DEF UserStart, reloadVars, queueVars
<1>13. ASSUME ReloadTimer PROVE Inv'
  BY <1>13 DEF ReloadTimer, queueVars
<1>14. ASSUME RetryTimer PROVE Inv'
  BY <1>14 DEF RetryTimer, queueVars
<1>15. ASSUME NEW l \in Loaders, NEW found, LoadDefinitions(l, found) PROVE Inv'
  BY <1>15 DEF LoadDefinitions, reloadVars, queueVars
<1>16. ASSUME NEW l \in Loaders, NEW read, ReadState(l, read) PROVE Inv'
  BY <1>16 DEF ReadState, MustWait
<1>17. ASSUME NEW l \in Loaders, Replay(l) PROVE Inv'
  BY <1>17, EnterKeeps DEF Replay
<1>18. ASSUME NEW l \in Loaders, Started(l) PROVE Inv'
  BY <1>18 DEF Started, reloadVars, queueVars
<1>19. ASSUME AnnounceFiles PROVE Inv'
  BY <1>19 DEF AnnounceFiles, reloadVars
<1>20. ASSUME EndReload PROVE Inv'
  BY <1>20 DEF EndReload
<1>21. ASSUME Crash PROVE Inv'
  BY <1>21 DEF Crash
<1>22. ASSUME UNCHANGED vars PROVE Inv'
  BY <1>22 DEF vars, reloadVars, queueVars
<1> QED
  BY <1>1, <1>2, <1>3, <1>4, <1>5, <1>6, <1>7, <1>8, <1>9, <1>10, <1>11, <1>12, <1>13, <1>14,
     <1>15, <1>16, <1>17, <1>18, <1>19, <1>20, <1>21, <1>22, <1>2a, <1>5a, <1>5b
  DEF Next, Invocation, Loading, Input

\* Queued events always have a run or a hold that answers for them, and calls behind a
\* reload always have that reload: no wake-up of workflow-manager.ts is lost, whatever
\* interleaving of timers, runs, holds, reloads and crashes.
THEOREM QueueIsAlwaysWoken == Spec => []QueueIsWoken
<1>1. Inv => QueueIsWoken
  BY DEF Inv
<1> QED
  BY InitInv, StepInv, <1>1, PTL DEF Spec

\* The same of the calls that wait for a reload.
THEOREM WaitersAreAlwaysWoken == Spec => []WaitersAreWoken
<1>1. Inv => WaitersAreWoken
  BY DEF Inv
<1> QED
  BY InitInv, StepInv, <1>1, PTL DEF Spec

-----------------------------------------------------------------------------
(* The log *)

Entry == {e \in [seq : Nat \ {0}, id : Nat, kind : Kinds, src : Sources] :
              e.kind = "file" => e.id # 0 /\ e.src = "external"}

Sorted(log) == \A i, j \in DOMAIN log : i < j => log[i].seq < log[j].seq

\* A log of at most `changes` changes, by numbers below `next`.
Dated(log, next, changes) ==
    /\ log \in Seq(Entry)
    /\ \A i \in DOMAIN log : log[i].seq < next /\ (log[i].kind = "file" => log[i].id <= changes)

LogInv ==
    /\ Dated(ring, nextSeq, happened) /\ Dated(file, nextSeq, happened) /\ Dated(toDrain, nextSeq, happened)
    /\ Sorted(ring) /\ Sorted(file)
    /\ Len(ring) <= MaxEntries
    /\ nextSeq \in Nat \ {0} /\ happened \in Nat

\* The changes in the ring up to a number.
UpTo(seq) == {ring[i].id : i \in {j \in DOMAIN ring : ring[j].kind = "file" /\ ring[j].seq <= seq}}

\* The end of a log, `from` entries into it.
Ends(part, log, from) ==
    /\ from \in 0..Len(log) /\ Len(part) = Len(log) - from
    /\ \A i \in 1..Len(part) : part[i] = log[i + from]

LEMMA EndIsLog ==
    ASSUME NEW log, NEW next \in Nat, NEW changes \in Nat, Dated(log, next, changes), NEW part \in Seq(Entry),
           NEW from, Ends(part, log, from)
    PROVE  /\ Dated(part, next, changes)
           /\ Sorted(log) => Sorted(part)
           /\ Len(part) <= Len(log)
<1>0. log \in Seq(Entry)
    BY DEF Dated
<1>1. Len(log) \in Nat /\ DOMAIN log = 1..Len(log) /\ Len(part) \in Nat /\ DOMAIN part = 1..Len(part)
    BY <1>0, LenProperties
<1>2. \A i \in DOMAIN part : i + from \in DOMAIN log /\ part[i] = log[i + from]
    BY <1>1 DEF Ends
<1>3. \A i, j \in DOMAIN part : i < j => i + from < j + from
    BY <1>1 DEF Ends
<1> QED BY <1>1, <1>2, <1>3 DEF Dated, Sorted, Ends

LEMMA EndOfLog ==
    ASSUME NEW log \in Seq(Entry), NEW from \in 0..Len(log)
    PROVE  /\ SubSeq(log, from + 1, Len(log)) \in Seq(Entry)
           /\ Ends(SubSeq(log, from + 1, Len(log)), log, from)
<1> DEFINE part == SubSeq(log, from + 1, Len(log))
<1>1. Len(log) \in Nat
    BY LenProperties
<1>2. \A i \in from + 1..Len(log) : log[i] \in Entry
    BY <1>1, ElementOfSeq
<1>3. /\ part \in Seq(Entry)
      /\ Len(part) = IF from + 1 <= Len(log) THEN Len(log) - (from + 1) + 1 ELSE 0
      /\ \A i \in 1..Len(log) - (from + 1) + 1 : part[i] = log[(from + 1) + i - 1]
    BY <1>1, <1>2, SubSeqProperties
<1> QED BY <1>1, <1>3 DEF Ends

LEMMA TrimmedEnds ==
    ASSUME NEW log \in Seq(Entry)
    PROVE  /\ Trimmed(log) \in Seq(Entry) /\ Len(Trimmed(log)) <= MaxEntries
           /\ \E from \in Nat : Ends(Trimmed(log), log, from)
           /\ log # <<>> => /\ Trimmed(log) # <<>>
                            /\ Trimmed(log)[Len(Trimmed(log))] = log[Len(log)]
<1> DEFINE from == IF Len(log) > MaxEntries THEN Len(log) - MaxEntries ELSE 0
<1>1. Len(log) \in Nat /\ MaxEntries \in Nat \ {0}
    BY LenProperties, LogBounds
<1>2. from \in 0..Len(log) /\ Trimmed(log) = SubSeq(log, from + 1, Len(log))
    BY <1>1 DEF Trimmed
<1>3. Trimmed(log) \in Seq(Entry) /\ Ends(Trimmed(log), log, from)
    BY <1>2, EndOfLog
<1>4. Len(Trimmed(log)) = Len(log) - from /\ Len(Trimmed(log)) <= MaxEntries
    BY <1>1, <1>3 DEF Ends
<1>5. ASSUME log # <<>>
      PROVE  /\ Trimmed(log) # <<>>
             /\ Trimmed(log)[Len(Trimmed(log))] = log[Len(log)]
    <2>1. Len(log) # 0
        BY <1>5, EmptySeq
    <2>2. Len(Trimmed(log)) \in 1..Len(Trimmed(log)) /\ Len(Trimmed(log)) + from = Len(log)
        BY <2>1, <1>1, <1>4
    <2>3. Len(<<>>) = 0
        BY EmptySeq
    <2> QED BY <2>1, <2>2, <2>3, <1>3 DEF Ends
<1>6. from \in Nat
    BY <1>1, <1>2
<1> HIDE DEF from
<1> QED BY <1>3, <1>4, <1>5, <1>6

\* A log and one more entry.
Grown(new, log, entry) ==
    /\ Sorted(log) => Sorted(new)
    /\ new # <<>> /\ new[Len(new)] = entry
    /\ \A i \in DOMAIN new : new[i] = entry \/ \E j \in DOMAIN log : new[i] = log[j]
    /\ \A j \in DOMAIN log : \E i \in DOMAIN new : new[i] = log[j]

LEMMA AppendIsLog ==
    ASSUME NEW log, NEW next \in Nat, NEW changes \in Nat, Dated(log, next, changes),
           NEW more \in Nat, changes <= more,
           NEW entry \in Entry, entry.seq = next, entry.kind = "file" => entry.id <= more
    PROVE  Dated(Append(log, entry), next + 1, more) /\ Grown(Append(log, entry), log, entry)
<1> DEFINE new == Append(log, entry)
<1>0. log \in Seq(Entry)
    BY DEF Dated
<1>1. Len(log) \in Nat /\ DOMAIN log = 1..Len(log)
    BY <1>0, LenProperties
<1>2. /\ new \in Seq(Entry) /\ new # <<>> /\ Len(new) = Len(log) + 1
      /\ \A i \in 1..Len(log) : new[i] = log[i]
      /\ new[Len(log) + 1] = entry
    BY <1>0, AppendProperties
<1>3. DOMAIN new = 1..Len(log) + 1
    BY <1>2, LenProperties
<1>4. \A i \in 1..Len(log) : log[i] \in Entry /\ log[i].seq < next /\ (log[i].kind = "file" => log[i].id <= changes)
    BY <1>0, <1>1, ElementOfSeq DEF Dated
<1>5. \A i \in 1..Len(log) : log[i].seq \in Nat /\ log[i].id \in Nat
    BY <1>4 DEF Entry
<1>6. \A i \in DOMAIN new : i \in 1..Len(log) \/ i = Len(log) + 1
    BY <1>1, <1>3
<1> HIDE DEF new
<1>7. Dated(new, next + 1, more)
    <2>1. \A i \in DOMAIN new : new[i].seq < next + 1 /\ (new[i].kind = "file" => new[i].id <= more)
        <3> SUFFICES ASSUME NEW i \in DOMAIN new PROVE new[i].seq < next + 1 /\ (new[i].kind = "file" => new[i].id <= more)
            OBVIOUS
        <3>1. CASE i \in 1..Len(log)
            <4>1. new[i] = log[i]
                BY <3>1, <1>2
            <4>2. log[i].seq < next /\ log[i].seq \in Nat /\ log[i].id \in Nat /\ (log[i].kind = "file" => log[i].id <= changes)
                BY <3>1, <1>4, <1>5
            <4> QED BY <4>1, <4>2
        <3>2. CASE i = Len(log) + 1
            BY <3>2, <1>2
        <3> QED BY <1>6, <3>1, <3>2
    <2> QED BY <2>1, <1>2 DEF Dated
<1>8. ASSUME Sorted(log) PROVE Sorted(new)
    <2> SUFFICES ASSUME NEW i \in DOMAIN new, NEW j \in DOMAIN new, i < j PROVE new[i].seq < new[j].seq
        BY DEF Sorted
    <2>1. i \in 1..Len(log)
        BY <1>1, <1>3
    <2>2. CASE j \in 1..Len(log)
        BY <2>1, <2>2, <1>1, <1>2, <1>8 DEF Sorted
    <2>3. CASE j = Len(log) + 1
        BY <2>1, <2>3, <1>2, <1>4
    <2> QED BY <1>6, <2>2, <2>3
<1>9. \A i \in DOMAIN new : new[i] = entry \/ \E j \in DOMAIN log : new[i] = log[j]
    BY <1>1, <1>2, <1>6
<1>10. \A j \in DOMAIN log : j \in DOMAIN new /\ new[j] = log[j]
    BY <1>1, <1>2, <1>3
<1> QED
    <2>1. new[Len(new)] = entry
        BY <1>2
    <2> QED BY <1>2, <1>7, <1>8, <1>9, <1>10, <2>1 DEF new, Grown

LEMMA LeastNumber ==
    ASSUME NEW T \in SUBSET Nat, T # {}
    PROVE  \E n \in T : \A m \in T : n <= m
<1> DEFINE R == OpToRel(<, Nat)
<1>1. IsWellFoundedOn(R, Nat)
    BY NatLessThanWellFounded
<1>2. \A i, j \in Nat : i < j => <<i, j>> \in R
    BY DEF OpToRel
<1> HIDE DEF R
<1>3. PICK n \in T : \A m \in T : ~(<<m, n>> \in R)
    BY <1>1, WFMin
<1>4. \A m \in T : ~(m < n)
    BY <1>2, <1>3
<1> QED BY <1>4

\* getEntriesSince: what is above a number, and nothing else, in order.
LEMMA SinceIsTheRest ==
    ASSUME LogInv, NEW seq \in Int
    PROVE  /\ Since(seq) \in Seq(Entry)
           /\ \E from \in Nat : Ends(Since(seq), ring, from)
           /\ \A i \in DOMAIN ring : ring[i].seq > seq <=> \E k \in DOMAIN Since(seq) : Since(seq)[k] = ring[i]
<1>0. /\ ring \in Seq(Entry) /\ Len(ring) \in Nat /\ DOMAIN ring = 1..Len(ring)
      /\ \A i, j \in 1..Len(ring) : i < j => ring[i].seq < ring[j].seq
      /\ \A i \in 1..Len(ring) : ring[i].seq \in Nat
    <2>1. ring \in Seq(Entry) /\ Sorted(ring)
        BY DEF LogInv, Dated
    <2>2. Len(ring) \in Nat /\ DOMAIN ring = 1..Len(ring) /\ \A i \in 1..Len(ring) : ring[i] \in Entry
        BY <2>1, LenProperties, ElementOfSeq
    <2> QED BY <2>1, <2>2 DEF Sorted, Entry
<1> DEFINE First(i) == /\ \A j \in 1..i - 1 : ring[j].seq <= seq
                       /\ i <= Len(ring) => ring[i].seq > seq
<1>1. \E i \in 1..Len(ring) + 1 : First(i)
    <2> DEFINE T == {i \in 1..Len(ring) : ring[i].seq > seq}
    <2>1. CASE T = {}
        <3>1. First(Len(ring) + 1)
            BY <2>1, <1>0
        <3> QED BY <3>1, <1>0
    <2>2. CASE T # {}
        <3>1. PICK n \in T : \A m \in T : n <= m
            <4>1. T \in SUBSET Nat
                BY <1>0
            <4> HIDE DEF T
            <4> QED BY <4>1, <2>2, LeastNumber
        <3>2. \A j \in 1..n - 1 : ring[j].seq <= seq
            BY <3>1, <1>0
        <3> QED BY <3>1, <3>2, <1>0
    <2> QED BY <2>1, <2>2
<1>2. FirstAbove(seq) \in 1..Len(ring) + 1 /\ First(FirstAbove(seq))
    <2>1. FirstAbove(seq) = CHOOSE i \in 1..Len(ring) + 1 : First(i)
        BY DEF FirstAbove
    <2> HIDE DEF First
    <2> QED BY <1>1, <2>1
<1> DEFINE from == FirstAbove(seq) - 1
<1>3. from \in 0..Len(ring) /\ Since(seq) = SubSeq(ring, from + 1, Len(ring))
    BY <1>0, <1>2 DEF Since
<1>4. Since(seq) \in Seq(Entry) /\ Ends(Since(seq), ring, from)
    BY <1>0, <1>3, EndOfLog
<1>5. DOMAIN Since(seq) = 1..Len(ring) - from /\ \A k \in 1..Len(ring) - from : Since(seq)[k] = ring[k + from]
    BY <1>4, LenProperties DEF Ends
<1>6. \A i \in 1..Len(ring) : ring[i].seq > seq <=> i > from
    <2> SUFFICES ASSUME NEW i \in 1..Len(ring) PROVE ring[i].seq > seq <=> i > from
        OBVIOUS
    <2>1. CASE i > from
        <3>1. FirstAbove(seq) <= i /\ FirstAbove(seq) \in 1..Len(ring)
            BY <2>1, <1>0, <1>2
        <3>2. ring[FirstAbove(seq)].seq > seq
            BY <3>1, <1>2
        <3>3. i = FirstAbove(seq) \/ ring[FirstAbove(seq)].seq < ring[i].seq
            BY <3>1, <1>0
        <3> QED BY <3>1, <3>2, <3>3, <2>1, <1>0
    <2>2. CASE ~(i > from)
        <3>1. i \in 1..FirstAbove(seq) - 1
            BY <2>2, <1>0, <1>2
        <3>2. ring[i].seq <= seq
            BY <3>1, <1>2
        <3> QED BY <3>2, <2>2, <1>0
    <2> QED BY <2>1, <2>2
<1>7. \A i \in 1..Len(ring) : ring[i].seq > seq => \E k \in DOMAIN Since(seq) : Since(seq)[k] = ring[i]
    <2> SUFFICES ASSUME NEW i \in 1..Len(ring), ring[i].seq > seq
                 PROVE  \E k \in DOMAIN Since(seq) : Since(seq)[k] = ring[i]
        OBVIOUS
    <2>1. i > from
        BY <1>6
    <2> HIDE DEF from
    <2>2. i - from \in 1..Len(ring) - from /\ (i - from) + from = i
        BY <2>1, <1>0, <1>3
    <2> QED BY <2>2, <1>5
<1>8. ASSUME NEW i \in 1..Len(ring), NEW k \in DOMAIN Since(seq), Since(seq)[k] = ring[i]
      PROVE  ring[i].seq > seq
    <2>1. k + from \in 1..Len(ring) /\ k + from > from
        BY <1>0, <1>3, <1>5
    <2> QED BY <2>1, <1>5, <1>6, <1>8
<1>9. from \in Nat
    BY <1>0, <1>3
<1> HIDE DEF from
<1> QED BY <1>0, <1>4, <1>7, <1>8, <1>9

\* The ring only has entries it had, and `entry`.
RingFrom(entry) ==
    \A i \in DOMAIN ring' : ring'[i] = entry \/ \E j \in DOMAIN ring : ring'[i] = ring[j]

LEMMA EndHasNoOthers ==
    ASSUME NEW log \in Seq(Entry), NEW part \in Seq(Entry), NEW from, Ends(part, log, from)
    PROVE  \A i \in DOMAIN part : \E j \in DOMAIN log : part[i] = log[j]
<1>1. Len(log) \in Nat /\ DOMAIN log = 1..Len(log) /\ Len(part) \in Nat /\ DOMAIN part = 1..Len(part)
    BY LenProperties
<1>2. \A i \in DOMAIN part : i + from \in DOMAIN log /\ part[i] = log[i + from]
    BY <1>1 DEF Ends
<1> QED BY <1>2

LEMMA TrimmedIsLog ==
    ASSUME NEW log, NEW next \in Nat, NEW changes \in Nat, Dated(log, next, changes), Sorted(log)
    PROVE  /\ Dated(Trimmed(log), next, changes) /\ Sorted(Trimmed(log)) /\ Len(Trimmed(log)) <= MaxEntries
           /\ \A i \in DOMAIN Trimmed(log) : \E j \in DOMAIN log : Trimmed(log)[i] = log[j]
           /\ log # <<>> => /\ Trimmed(log) # <<>>
                            /\ Trimmed(log)[Len(Trimmed(log))] = log[Len(log)]
<1>1. log \in Seq(Entry)
    BY DEF Dated
<1>2. PICK from \in Nat : Ends(Trimmed(log), log, from)
    BY <1>1, TrimmedEnds
<1> QED BY <1>1, <1>2, TrimmedEnds, EndIsLog, EndHasNoOthers

LEMMA RecordKeepsLog ==
    ASSUME LogInv, LogRecord, happened' = happened
    PROVE  /\ LogInv' /\ nextSeq < nextSeq' /\ toDrain' = toDrain
           /\ \E entry \in Entry : RingFrom(entry) /\ entry.src = "workflow-emit" /\ entry.kind = "automation"
<1> DEFINE entry == [seq |-> nextSeq, id |-> 0, kind |-> "automation", src |-> "workflow-emit"]
           long == Append(ring, entry)
<1>1. entry \in Entry /\ nextSeq' = nextSeq + 1 /\ nextSeq \in Nat /\ happened \in Nat
    BY DEF Entry, LogInv, Kinds, Sources, LogRecord
<1>2. /\ Dated(long, nextSeq', happened) /\ Sorted(long)
      /\ \A i \in DOMAIN long : long[i] = entry \/ \E j \in DOMAIN ring : long[i] = ring[j]
    BY <1>1, AppendIsLog DEF LogInv, Grown
<1>3. /\ Dated(ring', nextSeq', happened) /\ Sorted(ring)' /\ Len(ring') <= MaxEntries
      /\ \A i \in DOMAIN ring' : \E j \in DOMAIN long : ring'[i] = long[j]
    <2>1. ring' = Trimmed(long)
        BY DEF LogRecord
    <2> HIDE DEF long
    <2>2. Sorted(ring)' <=> Sorted(ring')
        BY DEF Sorted
    <2> QED BY <1>1, <1>2, <2>1, <2>2, TrimmedIsLog
<1>4. Dated(file, nextSeq', happened) /\ Dated(toDrain, nextSeq', happened)
    <2> SUFFICES ASSUME NEW log \in {file, toDrain} PROVE Dated(log, nextSeq', happened)
        OBVIOUS
    <2>1. Dated(log, nextSeq, happened)
        BY DEF LogInv
    <2>2. \A i \in DOMAIN log : log[i].seq \in Nat
        BY <2>1, LenProperties DEF Dated, Entry
    <2> QED BY <1>1, <2>1, <2>2 DEF Dated
<1>5. file' = file /\ toDrain' = toDrain /\ Sorted(file)
    BY DEF LogRecord, LogInv
<1>6. RingFrom(entry)
    BY <1>2, <1>3 DEF RingFrom
<1>7. LogInv'
    <2>1. Sorted(file)'
        BY <1>5 DEF Sorted
    <2> HIDE DEF long, entry
    <2> QED BY <1>1, <1>3, <1>4, <1>5, <2>1 DEF LogInv
<1>8. entry.src = "workflow-emit" /\ entry.kind = "automation"
    OBVIOUS
<1> HIDE DEF entry
<1> QED BY <1>1, <1>5, <1>6, <1>7, <1>8

LEMMA AppendKeepsLog ==
    ASSUME LogInv, NEW id \in Nat, NEW kind \in Kinds, LogAppend(id, kind),
           happened' \in Nat, happened <= happened', kind = "file" => id # 0 /\ id <= happened'
    PROVE  /\ LogInv' /\ nextSeq < nextSeq'
           /\ \E entry \in Entry :
                 /\ entry.id = id /\ entry.kind = kind /\ entry.seq = nextSeq
                 /\ RingFrom(entry)
                 /\ \E i \in DOMAIN ring' : ring'[i] = entry
                 /\ \E i \in DOMAIN toDrain' : toDrain'[i] = entry
                 /\ \A j \in DOMAIN toDrain : \E i \in DOMAIN toDrain' : toDrain'[i] = toDrain[j]
<1> DEFINE entry == [seq |-> nextSeq, id |-> id, kind |-> kind, src |-> "external"]
           long == Append(ring, entry)
<1>1. /\ nextSeq' = nextSeq + 1 /\ nextSeq \in Nat /\ happened \in Nat /\ ring' = Trimmed(long)
      /\ file' = Append(file, entry) /\ toDrain' = Append(toDrain, entry)
    BY DEF LogInv, LogAppend
<1>2. entry \in Entry /\ entry.id = id /\ entry.kind = kind /\ entry.seq = nextSeq
    BY DEF Entry, LogInv, Sources
<1> HIDE DEF entry
<1>A. ASSUME NEW log, Dated(log, nextSeq, happened)
      PROVE  Dated(Append(log, entry), nextSeq', happened') /\ Grown(Append(log, entry), log, entry)
    <2>1. entry.kind = "file" => entry.id <= happened'
        BY <1>2
    <2>2. nextSeq \in Nat /\ happened \in Nat /\ nextSeq' = nextSeq + 1
        BY <1>1
    <2>3. Dated(Append(log, entry), nextSeq + 1, happened') /\ Grown(Append(log, entry), log, entry)
        BY <1>2, <1>A, <2>1, <2>2, AppendIsLog
    <2> QED BY <2>2, <2>3
<1>B. Dated(ring, nextSeq, happened) /\ Dated(file, nextSeq, happened) /\ Dated(toDrain, nextSeq, happened)
      /\ Sorted(ring) /\ Sorted(file)
    BY DEF LogInv
<1>3. /\ Dated(long, nextSeq', happened') /\ Sorted(long) /\ long # <<>> /\ long[Len(long)] = entry
      /\ \A i \in DOMAIN long : long[i] = entry \/ \E j \in DOMAIN ring : long[i] = ring[j]
    BY <1>A, <1>B DEF Grown
<1>4. /\ Dated(file', nextSeq', happened') /\ Sorted(file')
    BY <1>1, <1>A, <1>B DEF Grown
<1>5. /\ Dated(toDrain', nextSeq', happened') /\ toDrain' # <<>> /\ toDrain'[Len(toDrain')] = entry
      /\ \A j \in DOMAIN toDrain : \E i \in DOMAIN toDrain' : toDrain'[i] = toDrain[j]
    BY <1>1, <1>A, <1>B DEF Grown
<1> HIDE DEF long
<1>6. /\ Dated(ring', nextSeq', happened') /\ Sorted(ring') /\ Len(ring') <= MaxEntries
      /\ ring' # <<>> /\ ring'[Len(ring')] = entry
      /\ \A i \in DOMAIN ring' : \E j \in DOMAIN long : ring'[i] = long[j]
    <2>1. nextSeq' \in Nat
        BY <1>1
    <2> QED BY <1>1, <1>3, <2>1, TrimmedIsLog
<1>7. RingFrom(entry)
    BY <1>3, <1>6 DEF RingFrom
<1>8. LogInv'
    <2>1. (Sorted(ring)' <=> Sorted(ring')) /\ (Sorted(file)' <=> Sorted(file'))
        BY DEF Sorted
    <2> QED BY <1>1, <1>4, <1>5, <1>6, <2>1 DEF LogInv
<1>9. \A log \in Seq(Entry) : log # <<>> => Len(log) \in DOMAIN log
    BY EmptySeq, LenProperties
<1>10. Len(ring') \in DOMAIN ring' /\ Len(toDrain') \in DOMAIN toDrain'
    BY <1>5, <1>6, <1>9 DEF Dated
<1>11. nextSeq < nextSeq'
    BY <1>1
<1> QED BY <1>2, <1>5, <1>6, <1>7, <1>8, <1>10, <1>11

LEMMA CompactKeepsLog ==
    ASSUME LogInv, LogCompact, happened' = happened
    PROVE  /\ LogInv' /\ nextSeq' = nextSeq /\ toDrain' = toDrain
           /\ \A i \in DOMAIN ring' : \E j \in DOMAIN ring : ring'[i] = ring[j]
<1>1. /\ ring \in Seq(Entry) /\ Dated(ring, nextSeq, happened) /\ Sorted(ring)
      /\ nextSeq \in Nat /\ happened \in Nat
    BY DEF LogInv, Dated
<1>2. RetainFrom \in Int
    <2>1. Len(ring) \in Nat /\ (ring # <<>> => Len(ring) \in 1..Len(ring))
        BY <1>1, LenProperties, EmptySeq
    <2>2. ring # <<>> => ring[Len(ring)] \in Entry
        BY <1>1, <2>1, ElementOfSeq
    <2> QED BY <2>2, LogBounds DEF RetainFrom, Newest, Entry
<1>3. /\ ring' = Since(RetainFrom) /\ file' = Since(RetainFrom)
      /\ nextSeq' = nextSeq /\ toDrain' = toDrain
    BY DEF LogCompact
<1>4. ring' \in Seq(Entry) /\ \E from \in Nat : Ends(ring', ring, from)
    BY <1>2, <1>3, SinceIsTheRest
<1>5. PICK from \in Nat : Ends(ring', ring, from)
    BY <1>4
<1>6. Dated(ring', nextSeq, happened) /\ Sorted(ring') /\ Len(ring') <= Len(ring)
    BY <1>1, <1>4, <1>5, EndIsLog
<1>7. \A i \in DOMAIN ring' : \E j \in DOMAIN ring : ring'[i] = ring[j]
    BY <1>1, <1>4, <1>5, EndHasNoOthers
<1>8. LogInv'
    <2>1. (Sorted(ring)' <=> Sorted(ring')) /\ (Sorted(file)' <=> Sorted(file'))
        BY DEF Sorted
    <2>2. Len(ring') <= MaxEntries
        <3>1. Len(ring) \in Nat /\ Len(ring') \in Nat /\ Len(ring) <= MaxEntries /\ MaxEntries \in Nat
            BY <1>1, <1>4, LenProperties, LogBounds DEF LogInv
        <3> QED BY <3>1, <1>6
    <2> QED BY <1>3, <1>6, <2>1, <2>2 DEF LogInv
<1> QED BY <1>3, <1>7, <1>8

LEMMA ReloadKeepsLog ==
    ASSUME LogInv, LogReload, happened' = happened
    PROVE  LogInv'
<1>1. /\ file \in Seq(Entry) /\ Dated(file, nextSeq, happened) /\ Sorted(file)
      /\ nextSeq \in Nat /\ happened \in Nat
    BY DEF LogInv, Dated
<1>2. /\ ring' = Trimmed(file) /\ nextSeq' = Newest(file) + 1 /\ toDrain' = <<>> /\ file' = file
    BY DEF LogReload
<1>3. /\ Len(file) \in Nat /\ DOMAIN file = 1..Len(file) /\ (file # <<>> => Len(file) \in 1..Len(file))
      /\ \A i \in DOMAIN file : file[i] \in Entry
    BY <1>1, LenProperties, EmptySeq, ElementOfSeq
<1>4. \A i \in DOMAIN file : file[i].seq \in Nat /\ file[i].seq <= Newest(file)
    <2> SUFFICES ASSUME NEW i \in DOMAIN file PROVE file[i].seq \in Nat /\ file[i].seq <= Newest(file)
        OBVIOUS
    <2>1. file # <<>>
        BY <1>3, EmptySeq
    <2>2. file[i].seq \in Nat /\ file[Len(file)].seq \in Nat
        BY <1>3, <2>1 DEF Entry
    <2>3. i = Len(file) \/ file[i].seq < file[Len(file)].seq
        BY <1>1, <1>3, <2>1 DEF Sorted
    <2> QED BY <2>1, <2>2, <2>3 DEF Newest
<1>5. Newest(file) \in Nat
    BY <1>3 DEF Newest, Entry
<1>6. Dated(file, nextSeq', happened)
    BY <1>1, <1>2, <1>4, <1>5 DEF Dated
<1>7. Dated(ring', nextSeq', happened) /\ Sorted(ring') /\ Len(ring') <= MaxEntries
    <2>1. nextSeq' \in Nat
        BY <1>2, <1>5
    <2> QED BY <1>1, <1>2, <1>6, <2>1, TrimmedIsLog
<1>8. Dated(toDrain', nextSeq', happened)
    <2>1. DOMAIN toDrain' = {} /\ toDrain' \in Seq(Entry)
        BY <1>2, EmptySeq, LenProperties
    <2> QED BY <2>1 DEF Dated
<1> QED
    <2>1. (Sorted(ring)' <=> Sorted(ring')) /\ (Sorted(file)' <=> Sorted(file'))
        BY DEF Sorted
    <2>2. nextSeq' \in Nat \ {0}
        BY <1>2, <1>5
    <2> QED BY <1>1, <1>2, <1>6, <1>7, <1>8, <2>1, <2>2 DEF LogInv

LEMMA DrainKeepsLog ==
    ASSUME LogInv, LogDrain, happened' = happened
    PROVE  LogInv'
<1>1. Dated(<<>>, nextSeq, happened)
    <2>1. DOMAIN <<>> = {} /\ <<>> \in Seq(Entry)
        BY EmptySeq, LenProperties
    <2> QED BY <2>1 DEF Dated
<1>2. UNCHANGED <<ring, file, nextSeq, happened>> /\ toDrain' = <<>>
    BY DEF LogDrain
<1> QED BY <1>1, <1>2 DEF LogInv, Sorted

LEMMA StutterKeepsLog ==
    ASSUME LogInv, UNCHANGED logVars, happened' \in Nat, happened <= happened'
    PROVE  LogInv'
<1>1. UNCHANGED <<ring, file, nextSeq, toDrain>>
    BY DEF logVars
<1>2. \A log : Dated(log, nextSeq, happened) => Dated(log, nextSeq, happened')
    <2> SUFFICES ASSUME NEW log, Dated(log, nextSeq, happened) PROVE Dated(log, nextSeq, happened')
        OBVIOUS
    <2>1. \A i \in DOMAIN log : log[i].id \in Nat
        BY LenProperties DEF Dated, Entry
    <2> QED BY <2>1 DEF Dated, LogInv
<1> QED BY <1>1, <1>2 DEF LogInv, Sorted

-----------------------------------------------------------------------------
(* Nothing is lost *)

Call == [evs : SUBSET Nat, ckpt : Nat, by : Loaders \union {"none"}]
Saved == [state : SUBSET Nat, ckpt : Nat]
BootCall == CallOf({0}, 0, "boot")

TypesOK ==
    /\ state \in SUBSET Nat /\ pending \in SUBSET Nat /\ flushes \in SUBSET SUBSET Nat
    /\ ready \in SUBSET Call /\ waiting \in SUBSET Call
    /\ persisted \in Saved \union {Absent} /\ saving \in Saved \union {Absent}
    /\ disk \in Saved \union {Absent, Torn}
    /\ run.stage \in {"none", "rules", "saving"}
    /\ run.stage = "none" => run = NoRun
    /\ run.stage # "none" => run.call \in Call
    /\ run.stage = "saving" => run.snap \in Saved
    /\ loader = [l \in Loaders |-> [pc |-> loader[l].pc, hadFiles |-> loader[l].hadFiles,
                                    hadRuntime |-> loader[l].hadRuntime]]

\* While the worker starts, nothing has happened and nobody but initialize() is there.
Booting ==
    loader["boot"].pc # "idle" =>
        /\ loader["boot"].pc \in {"load", "read", "init", "replay", "started"}
        /\ loader["refresh"].pc = "idle"
        /\ happened = 0 /\ toDrain = <<>> /\ \A i \in DOMAIN ring : ring[i].src # "external"
        /\ waiting = {} /\ pending = {} /\ flushes = {}
        /\ ~promise /\ ~timer /\ ~retry /\ ~reloading
        /\ loader["boot"].pc # "init" => ready = {} /\ run = NoRun
        /\ loader["boot"].pc = "init" =>
              \/ ready = {BootCall} /\ run = NoRun
              \/ ready = {} /\ run # NoRun /\ run.call = BootCall

\* At most one start() is in progress, and there is something to save when it is over;
\* there are rules except while it loads them.
LoadersOK ==
    /\ loader["start"].pc = "idle"
    /\ loader["boot"].pc \in {"idle", "replay", "started"} => persisted # Absent
    /\ loader["refresh"].pc \in {"idle", "load", "read", "replay", "replaying", "started",
                                 "files", "announcing", "end"}
    /\ reloading => loader["refresh"].pc # "idle"
    /\ loader["refresh"].pc # "idle" => reloading
    /\ At({"load"}) => ~runtime
    /\ ~At({"load"}) => runtime
    /\ loader["refresh"].pc = "replay" => run = NoRun /\ ready = {} /\ persisted = disk

\* A loader awaits one call, and a call is awaited by a loader that waits.
CallersOK ==
    /\ \A c \in waiting : c.by = "none"
    /\ \A c \in ready : c.by # "none" =>
          \/ c.by = "boot" /\ loader["boot"].pc = "init"
          \/ c.by = "refresh" /\ loader["refresh"].pc \in {"replaying", "announcing"}
    /\ \A c, d \in ready : c.by # "none" /\ d.by # "none" => c = d
    /\ run # NoRun /\ run.call.by # "none" =>
          /\ \A c \in ready : c.by = "none"
          /\ \/ run.call.by = "boot" /\ loader["boot"].pc = "init"
             \/ run.call.by = "refresh" /\ loader["refresh"].pc \in {"replaying", "announcing"}
    /\ \A c \in ready \union waiting : c.by = "none" /\ c.ckpt > 0 => 0 \notin c.evs

\* The state of the last run is the one to save.
StateOK ==
    /\ run.stage = "rules" => run.base = state
    /\ run.stage = "saving" => run.snap.state = state /\ persisted # Absent
    /\ persisted = Absent => state = {}
    /\ persisted # Absent => state = persisted.state

\* A checkpoint that was or will be recorded, if it is not read again before.
Stale == loader["refresh"].pc \in {"load", "read", "replay"} /\ run.stage # "rules"

Checkpoint(seq) ==
    \/ disk \notin {Absent, Torn} /\ seq = disk.ckpt
    \/ saving # Absent /\ seq = saving.ckpt
    \/ run.stage = "saving" /\ seq = run.snap.ckpt
    \/ run # NoRun /\ seq = run.call.ckpt
    \/ \E c \in waiting : seq = c.ckpt
    \/ persisted # Absent /\ seq = persisted.ckpt
    \/ \E c \in ready : seq = c.ckpt

Lasting(seq) ==
    \/ disk \notin {Absent, Torn} /\ seq = disk.ckpt
    \/ saving # Absent /\ seq = saving.ckpt
    \/ run.stage = "saving" /\ seq = run.snap.ckpt
    \/ run # NoRun /\ seq = run.call.ckpt
    \/ \E c \in waiting : seq = c.ckpt
    \/ ~Stale /\ persisted # Absent /\ seq = persisted.ckpt
    \/ ~Stale /\ runtime /\ \E c \in ready : seq = c.ckpt

\* A change that will not be dropped for want of rules.
Kept(id) ==
    \/ id \in state
    \/ id \in pending
    \/ \E batch \in flushes : id \in batch
    \/ \E c \in waiting : id \in c.evs
    \/ run.stage = "rules" /\ id \in run.call.evs
    \/ \E c \in ready : id \in c.evs /\ (runtime \/ c.ckpt = 0)

\* Numbers of the future are no checkpoints.
CheckpointsArePast == \A seq \in Nat : Checkpoint(seq) => seq < nextSeq

\* What a checkpoint covers is kept.
CoveredIsKept == \A seq \in Nat : Lasting(seq) => \A id \in UpTo(seq) : Kept(id)

\* The ring gives up only what the rules have seen.
RingIsEnough == \A id \in Happened : id \in state \/ id \in FileIds(ring)

Seen(id) == Kept(id) \/ id \in FileIds(toDrain) \/ \E c \in ready : id \in c.evs

\* Except while a reload is about to read them again, all changes are in somebody's hands.
NoneDropped == ~Stale => \A id \in Happened : Seen(id)

Shape == TypesOK /\ Booting /\ LoadersOK /\ CallersOK /\ StateOK
CalmInv == Shape /\ CheckpointsArePast /\ CoveredIsKept /\ RingIsEnough /\ NoneDropped

LossInv == LogInv /\ (calm => CalmInv)

-----------------------------------------------------------------------------
(* The log stays in order. *)

LEMMA InitLog == Init => LogInv
<1> SUFFICES ASSUME Init PROVE LogInv
    OBVIOUS
<1>1. ring = <<>> /\ file = <<>> /\ toDrain = <<>> /\ nextSeq = 1 /\ happened = 0
    BY DEF Init, LogInit
<1>2. <<>> \in Seq(Entry) /\ DOMAIN <<>> = {} /\ Len(<<>>) = 0
    BY EmptySeq, LenProperties
<1> QED BY <1>1, <1>2, LogBounds DEF LogInv, Dated, Sorted

LEMMA LogStep == LogInv /\ [Next]_vars => LogInv'
<1> SUFFICES ASSUME LogInv, [Next]_vars PROVE LogInv'
    OBVIOUS
<1>1. happened \in Nat
    BY DEF LogInv
<1>2. ASSUME UNCHANGED <<logVars, happened>> PROVE LogInv'
    BY <1>1, <1>2, StutterKeepsLog
<1>3. ASSUME NEW call \in ready, Proceed(call) PROVE LogInv'
    BY <1>2, <1>3 DEF Proceed
<1>4. ASSUME RulesEnd PROVE LogInv'
    BY <1>2, <1>4 DEF RulesEnd, ghostVars
<1>4a. ASSUME RulesThrow \/ SchedulePrunes \/ SchedulerSaved PROVE LogInv'
    BY <1>2, <1>4a DEF RulesThrow, SchedulePrunes, SchedulerSaved
<1>5. ASSUME SaveEnds PROVE LogInv'
    <2>1. UNCHANGED <<logVars, happened>> \/ (LogRecord /\ happened' = happened)
        BY <1>5 DEF SaveEnds
    <2> QED BY <2>1, <1>2, RecordKeepsLog
<1>6. ASSUME NEW batch \in flushes, FlushTimer(batch) PROVE LogInv'
    BY <1>2, <1>6 DEF FlushTimer, ghostVars
<1>7. ASSUME ScheduleFires \/ ManualEvent PROVE LogInv'
    BY <1>2, <1>7 DEF ScheduleFires, ManualEvent
<1>8. ASSUME Hold \/ Release PROVE LogInv'
    BY <1>2, <1>8 DEF Hold, Release, ghostVars
<1>9. ASSUME NEW kind \in Kinds, Change(kind) PROVE LogInv'
    <2>1. CASE kind = "file"
        <3>1. happened' = happened + 1 /\ LogAppend(happened', kind)
            BY <1>9, <2>1 DEF Change
        <3>2. happened' \in Nat /\ happened <= happened' /\ happened' # 0
            BY <1>1, <3>1
        <3> QED BY <2>1, <3>1, <3>2, AppendKeepsLog
    <2>2. CASE kind # "file"
        <3>1. happened' = happened /\ LogAppend(0, kind)
            BY <1>9, <2>2 DEF Change
        <3>2. happened' \in Nat /\ happened <= happened' /\ 0 \in Nat
            BY <1>1, <3>1
        <3> QED BY <2>2, <3>1, <3>2, AppendKeepsLog
    <2> QED BY <2>1, <2>2
<1>10. ASSUME DropDuplicate PROVE LogInv'
    <2>1. UNCHANGED logVars /\ happened' = happened + 1
        BY <1>10 DEF DropDuplicate
    <2>2. happened' \in Nat /\ happened <= happened'
        BY <1>1, <2>1
    <2> QED BY <2>1, <2>2, StutterKeepsLog
<1>11. ASSUME Drain PROVE LogInv'
    BY <1>11, DrainKeepsLog DEF Drain, ghostVars
<1>12. ASSUME Compact PROVE LogInv'
    BY <1>12, CompactKeepsLog DEF Compact
<1>13. ASSUME UserStart PROVE LogInv'
    BY <1>2, <1>13 DEF UserStart
<1>14. ASSUME ReloadTimer \/ RetryTimer \/ AnnounceFiles \/ EndReload PROVE LogInv'
    BY <1>2, <1>14 DEF ReloadTimer, RetryTimer, AnnounceFiles, EndReload, ghostVars
<1>15. ASSUME NEW l \in Loaders, NEW found, LoadDefinitions(l, found) PROVE LogInv'
    BY <1>2, <1>15 DEF LoadDefinitions
<1>16. ASSUME NEW l \in Loaders, NEW read, ReadState(l, read) PROVE LogInv'
    BY <1>2, <1>16 DEF ReadState
<1>17. ASSUME NEW l \in Loaders, Replay(l) \/ Started(l) PROVE LogInv'
    BY <1>2, <1>17 DEF Replay, Started, ghostVars
<1>18. ASSUME Crash PROVE LogInv'
    BY <1>18, ReloadKeepsLog DEF Crash
<1>19. ASSUME UNCHANGED vars PROVE LogInv'
    BY <1>2, <1>19 DEF vars, ghostVars
<1> QED
    BY <1>3, <1>4, <1>5, <1>6, <1>7, <1>8, <1>9, <1>10, <1>11, <1>12, <1>13, <1>14, <1>15, <1>16,
       <1>17, <1>18, <1>19, <1>4a
    DEF Next, Invocation, Loading, Input

-----------------------------------------------------------------------------
(* No step loses a change. *)

LEMMA LogIds ==
    ASSUME LogInv
    PROVE  /\ \A id \in FileIds(ring) \union FileIds(toDrain) : id \in 1..happened
           /\ \A seq \in Nat : UpTo(seq) \subseteq FileIds(ring)
           /\ toDrain # <<>> => Newest(toDrain) \in Nat /\ Newest(toDrain) < nextSeq
           /\ \A i \in DOMAIN ring : ring[i].seq \in Nat \ {0}
<1>1. \A log : Dated(log, nextSeq, happened) =>
          /\ \A i \in DOMAIN log : log[i] \in Entry
          /\ log # <<>> => Len(log) \in DOMAIN log
    <2> SUFFICES ASSUME NEW log, Dated(log, nextSeq, happened)
                 PROVE  /\ \A i \in DOMAIN log : log[i] \in Entry
                        /\ log # <<>> => Len(log) \in DOMAIN log
        OBVIOUS
    <2> QED BY LenProperties, ElementOfSeq, EmptySeq DEF Dated
<1>2. \A log : Dated(log, nextSeq, happened) => \A id \in FileIds(log) : id \in 1..happened
    BY <1>1 DEF FileIds, Dated, LogInv, Entry
<1>3. \A seq \in Nat : UpTo(seq) \subseteq FileIds(ring)
    BY DEF UpTo, FileIds
<1>4. toDrain # <<>> => Newest(toDrain) \in Nat /\ Newest(toDrain) < nextSeq
    BY <1>1 DEF Newest, Dated, Entry, LogInv
<1>5. \A i \in DOMAIN ring : ring[i].seq \in Nat \ {0}
    BY <1>1 DEF LogInv, Entry
<1> QED BY <1>2, <1>3, <1>4, <1>5 DEF LogInv

\* What the step of an action must not do.
NoFutureMarks == \A seq \in Nat : Checkpoint(seq)' => Checkpoint(seq) \/ seq < nextSeq
KeepsAll == \A id \in Nat \ {0} : Kept(id) => Kept(id)'
CoversOnlyKept ==
    \A seq \in Nat : Lasting(seq)' => Lasting(seq) \/ \A id \in UpTo(seq) : id # 0 => Kept(id)'

LEMMA LastingIsCheckpoint == \A seq \in Nat : Lasting(seq) => Checkpoint(seq)
BY DEF Lasting, Checkpoint

LEMMA WithoutTheLog ==
    ASSUME LogInv, CalmInv, UNCHANGED <<logVars, happened>>, Shape', state \subseteq state',
           NoFutureMarks, KeepsAll, CoversOnlyKept,
           ~Stale' => \A id \in Happened : Seen(id)'
    PROVE  CalmInv'
<1>1. UNCHANGED <<ring, nextSeq, toDrain, happened>>
    BY DEF logVars
<1>2. CheckpointsArePast'
    BY <1>1 DEF CheckpointsArePast, NoFutureMarks, CalmInv
<1>3. CoveredIsKept'
    <2> SUFFICES ASSUME NEW seq \in Nat, Lasting(seq)', NEW id \in UpTo(seq)'
                 PROVE  Kept(id)'
        BY DEF CoveredIsKept
    <2>1. UpTo(seq)' = UpTo(seq)
        BY <1>1 DEF UpTo
    <2>2. id \in Nat \ {0}
        BY <2>1, LogIds DEF LogInv
    <2>3. Lasting(seq) \/ \A i \in UpTo(seq) : i # 0 => Kept(i)'
        BY DEF CoversOnlyKept
    <2>4. Lasting(seq) => Kept(id)
        BY <2>1 DEF CoveredIsKept, CalmInv
    <2>5. Kept(id) => Kept(id)'
        BY <2>2 DEF KeepsAll
    <2> QED BY <2>1, <2>2, <2>3, <2>4, <2>5
<1>4. RingIsEnough'
    BY <1>1 DEF RingIsEnough, CalmInv, FileIds, Happened
<1>5. NoneDropped'
    BY <1>1 DEF NoneDropped, Happened
<1> QED BY <1>2, <1>3, <1>4, <1>5 DEF CalmInv

concerns == <<ring, file, nextSeq, toDrain, happened, state, persisted, disk, saving, runtime, run, pending,
              flushes, waiting, ready, promise, timer, retry, reloading, loader>>

LEMMA NothingChanges ==
    ASSUME CalmInv, UNCHANGED concerns
    PROVE  CalmInv'
<1> USE DEF concerns
<1>1. TypesOK'
    BY DEF TypesOK, CalmInv, Shape
<1>2. Booting'
    BY DEF Booting, CalmInv, Shape
<1>3. LoadersOK'
    BY DEF LoadersOK, CalmInv, Shape, At
<1>4. CallersOK'
    BY DEF CallersOK, CalmInv, Shape
<1>5. StateOK'
    BY DEF StateOK, CalmInv, Shape
<1>6. CheckpointsArePast'
    BY DEF CheckpointsArePast, Checkpoint, CalmInv
<1>7. CoveredIsKept'
    BY DEF CoveredIsKept, Lasting, Kept, Stale, UpTo, CalmInv
<1>8. RingIsEnough'
    BY DEF RingIsEnough, FileIds, Happened, CalmInv
<1>9. NoneDropped'
    BY DEF NoneDropped, Seen, Kept, FileIds, Happened, Stale, CalmInv
<1> QED BY <1>1, <1>2, <1>3, <1>4, <1>5, <1>6, <1>7, <1>8, <1>9 DEF CalmInv, Shape

LEMMA SavedIsReal == \A p \in Saved : p \notin {Absent, Torn} /\ p.ckpt \in Nat
BY DEF Saved, Absent, Torn

LEMMA CoveredIsSaved ==
    ASSUME NEW p \in Saved \union {Absent}, NEW seq \in Nat
    PROVE  /\ Covered(p, seq) \in Saved \union {Absent} /\ (Covered(p, seq) = Absent <=> p = Absent)
           /\ p # Absent => /\ Covered(p, seq).state = p.state
                            /\ \/ Covered(p, seq).ckpt = p.ckpt
                               \/ seq > 0 /\ Covered(p, seq).ckpt = seq
BY DEF Covered, Saved, Absent

LEMMA HoldCalm == LogInv /\ CalmInv /\ Hold => CalmInv'
BY NothingChanges DEF Hold, concerns, logVars, diskVars, reloadVars, memoryVars, ghostVars

\* A call without a checkpoint comes in; it takes what was queued.
CallComes(evs) ==
    /\ \/ ready' = ready \union {CallOf(evs, 0, "none")} /\ UNCHANGED waiting
       \/ waiting' = waiting \union {CallOf(evs, 0, "none")} /\ UNCHANGED ready
    /\ pending' = pending \/ (pending' = {} /\ pending \subseteq evs)
    /\ flushes' = flushes \/ flushes' = flushes \ {evs}
    /\ UNCHANGED <<ring, file, nextSeq, toDrain, happened, state, persisted, disk, saving, runtime, run, promise, timer,
                   retry, reloading, loader>>

LEMMA CallCalm ==
    ASSUME LogInv, CalmInv, NEW evs \in SUBSET Nat, CallComes(evs), Quiet, loader["boot"].pc = "idle"
    PROVE  CalmInv'
<1> DEFINE call == CallOf(evs, 0, "none")
<1> USE DEF CallComes
<1>0. call \in Call /\ call.evs = evs /\ call.ckpt = 0 /\ call.by = "none"
    BY DEF CallOf, Call
<1>R. loader["refresh"].pc # "replay"
    BY DEF Quiet, At, Micro, Loaders
<1> HIDE DEF call
<1>1. TypesOK'
    BY <1>0 DEF TypesOK, CalmInv, Shape, call
<1>2. Booting'
    BY DEF Booting, CalmInv, Shape
<1>3. LoadersOK'
    BY <1>R DEF LoadersOK, CalmInv, Shape, At
<1>4. CallersOK'
    BY <1>0 DEF CallersOK, CalmInv, Shape, call
<1>5. StateOK'
    BY DEF StateOK, CalmInv, Shape
<1>6. NoFutureMarks
    <2>1. 0 < nextSeq
        BY DEF LogInv
    <2> QED BY <1>0, <2>1 DEF NoFutureMarks, Checkpoint, call
<1>7. KeepsAll
    BY <1>0 DEF KeepsAll, Kept, call
<1>8. CoversOnlyKept
    <2>1. UpTo(0) = {}
        BY LogIds DEF UpTo
    <2> QED BY <1>0, <2>1 DEF CoversOnlyKept, Lasting, Stale, call
<1>9. ~Stale' => \A id \in Happened : Seen(id)'
    <2> SUFFICES ASSUME ~Stale', NEW id \in Happened PROVE Seen(id)'
        OBVIOUS
    <2>1. Seen(id) /\ id \in Nat \ {0}
        BY DEF CalmInv, NoneDropped, Stale, Happened, LogInv
    <2>2. Kept(id) => Kept(id)'
        BY <1>7, <2>1 DEF KeepsAll
    <2>3. ready \subseteq ready'
        OBVIOUS
    <2> QED BY <2>1, <2>2, <2>3 DEF Seen
<1> QED BY <1>1, <1>2, <1>3, <1>4, <1>5, <1>6, <1>7, <1>8, <1>9, WithoutTheLog DEF Shape, logVars

LEMMA FlushTimerCalm ==
    ASSUME LogInv, CalmInv, NEW batch \in flushes, FlushTimer(batch)
    PROVE  CalmInv'
<1>1. batch \in SUBSET Nat /\ loader["boot"].pc = "idle"
    BY DEF CalmInv, Shape, TypesOK, Booting
<1>2. CallComes(batch) /\ Quiet
    BY DEF FlushTimer, Enter, CallComes, logVars, diskVars, memoryVars, ghostVars
<1> QED BY <1>1, <1>2, CallCalm

LEMMA ScheduleCalm == LogInv /\ CalmInv /\ ScheduleFires => CalmInv'
<1> SUFFICES ASSUME LogInv, CalmInv, ScheduleFires PROVE CalmInv'
    OBVIOUS
<1>1. loader["boot"].pc = "idle" /\ Quiet
    BY DEF ScheduleFires, Open, Idle
<1>2. CallComes({0})
    BY DEF ScheduleFires, Enter, CallComes, logVars, diskVars, memoryVars, ghostVars
<1> QED BY <1>1, <1>2, CallCalm

LEMMA ManualCalm == LogInv /\ CalmInv /\ ManualEvent => CalmInv'
<1> SUFFICES ASSUME LogInv, CalmInv, ManualEvent PROVE CalmInv'
    OBVIOUS
<1>1. loader["boot"].pc = "idle" /\ Quiet
    BY DEF ManualEvent, Open, Idle
<1>2. CallComes({0}) \/ UNCHANGED concerns
    BY DEF ManualEvent, CallComes, concerns, logVars, diskVars, memoryVars, ghostVars
<1> QED BY <1>1, <1>2, CallCalm, NothingChanges

LEMMA ReleaseCalm == LogInv /\ CalmInv /\ Release => CalmInv'
<1> SUFFICES ASSUME LogInv, CalmInv, Release PROVE CalmInv'
    OBVIOUS
<1>1. loader["boot"].pc = "idle" /\ Quiet /\ pending \in SUBSET Nat
    BY DEF Release, Open, Idle, CalmInv, Shape, TypesOK
<1>2. CallComes(pending) \/ UNCHANGED concerns
    BY DEF Release, Enter, CallComes, concerns, logVars, diskVars, memoryVars, ghostVars
<1> QED BY <1>1, <1>2, CallCalm, NothingChanges

LEMMA RulesEndCalm == LogInv /\ CalmInv /\ RulesEnd => CalmInv'
<1> SUFFICES ASSUME LogInv, CalmInv, RulesEnd PROVE CalmInv'
    OBVIOUS
<1> DEFINE new == run.base \union (run.call.evs \ {0})
           ckpt == IF persisted = Absent THEN 0 ELSE persisted.ckpt
<1>0. /\ UNCHANGED <<ring, file, nextSeq, toDrain, happened, disk, saving, runtime, pending, flushes, waiting, ready,
                     promise, timer, retry, reloading, loader>>
      /\ run.stage = "rules" /\ run # NoRun /\ run.base = state
      /\ state' = new /\ persisted' = [state |-> new, ckpt |-> ckpt]
      /\ run' = [stage |-> "saving", call |-> run.call, snap |-> persisted']
      /\ ready = {} \/ runtime
    BY DEF RulesEnd, NoRun, logVars, diskVars, reloadVars, ghostVars, CalmInv, Shape, StateOK, Quiet
<1>1. /\ run.call \in Call /\ run.call.evs \in SUBSET Nat /\ state \in SUBSET Nat
      /\ persisted \in Saved \union {Absent}
    BY <1>0 DEF CalmInv, Shape, TypesOK, Call
<1>2. new \in SUBSET Nat /\ state \subseteq new /\ new = state \union (run.call.evs \ {0}) /\ ckpt \in Nat
    BY <1>0, <1>1 DEF Saved, Absent
<1>3. ckpt = 0 \/ (persisted # Absent /\ ckpt = persisted.ckpt)
    OBVIOUS
<1> HIDE DEF new, ckpt
<1>4. persisted' \in Saved /\ persisted'.state = state' /\ persisted'.ckpt = ckpt /\ persisted' # Absent
    BY <1>0, <1>2 DEF Saved, Absent
<1>5. run'.stage = "saving" /\ run' # NoRun /\ run'.call = run.call /\ run'.snap = persisted'
    BY <1>0 DEF NoRun
<1>6. ~Stale
    BY <1>0 DEF Stale
<1>7. TypesOK'
    <2>1. loader' = [l \in Loaders |-> [pc |-> loader'[l].pc, hadFiles |-> loader'[l].hadFiles, hadRuntime |-> loader'[l].hadRuntime]]
        BY <1>0 DEF TypesOK, CalmInv, Shape
    <2> QED BY <1>0, <1>1, <1>2, <1>4, <1>5, <2>1 DEF TypesOK, CalmInv, Shape
<1>8. Booting'
    BY <1>0, <1>5 DEF Booting, CalmInv, Shape
<1>9. LoadersOK'
    BY <1>0, <1>4 DEF LoadersOK, CalmInv, Shape, At
<1>10. CallersOK'
    BY <1>0, <1>5 DEF CallersOK, CalmInv, Shape
<1>11. StateOK'
    BY <1>4, <1>5 DEF StateOK
<1>12. NoFutureMarks
    BY <1>0, <1>3, <1>4, <1>5 DEF NoFutureMarks, Checkpoint, LogInv
<1>13. KeepsAll
    BY <1>0, <1>2, <1>5 DEF KeepsAll, Kept
<1>14. CoversOnlyKept
    <2>1. UpTo(0) = {}
        BY LogIds DEF UpTo
    <2> QED BY <1>0, <1>3, <1>4, <1>5, <1>6, <2>1 DEF CoversOnlyKept, Lasting
<1>15. ~Stale' => \A id \in Happened : Seen(id)'
    <2> SUFFICES ASSUME NEW id \in Happened PROVE Seen(id)'
        OBVIOUS
    <2>1. Seen(id) /\ id \in Nat \ {0}
        BY <1>6 DEF CalmInv, NoneDropped, Happened, LogInv
    <2>2. Kept(id) => Kept(id)'
        BY <1>13, <2>1 DEF KeepsAll
    <2> QED BY <2>1, <2>2, <1>0 DEF Seen
<1>16. Shape'
    BY <1>7, <1>8, <1>9, <1>10, <1>11 DEF Shape
<1> QED BY <1>0, <1>2, <1>12, <1>13, <1>14, <1>15, <1>16, WithoutTheLog DEF logVars

LEMMA ProceedCalm ==
    ASSUME LogInv, CalmInv, NEW call \in ready, Proceed(call), calm'
    PROVE  CalmInv'
<1>0. /\ UNCHANGED <<ring, file, nextSeq, toDrain, happened, disk, saving, runtime, flushes, waiting, state, promise,
                     timer, retry, reloading>>
      /\ ready' = ready \ {call}
    BY DEF Proceed, logVars, diskVars, reloadVars
<1>1. /\ call \in Call /\ call.evs \in SUBSET Nat /\ call.ckpt \in Nat /\ call.by \in Loaders \union {"none"}
      /\ call.ckpt < nextSeq /\ state \in SUBSET Nat
    BY DEF CalmInv, Shape, TypesOK, Call, CheckpointsArePast, Checkpoint
<1>2. loader["refresh"].pc # "replay" /\ loader["boot"].pc \in {"idle", "init"}
    BY DEF CalmInv, Shape, LoadersOK, Booting
<1>3. loader["refresh"].pc # "load" => runtime
    BY <1>2 DEF CalmInv, Shape, LoadersOK, At, Loaders
<1>A. ASSUME runtime, run = NoRun PROVE CalmInv'
    <2>0. /\ run' = [stage |-> "rules", call |-> call, base |-> state] /\ UNCHANGED <<pending, persisted, loader>>
          /\ ~At({"read"})
        <3>1. /\ run' = [stage |-> "rules", call |-> call, base |-> state] /\ UNCHANGED <<pending, persisted, loader>>
              /\ calm' = (calm /\ ~At({"read"}))
            BY <1>A DEF Proceed
        <3>2. ~At({"read"})
            BY <3>1, Zenon
        <3> QED BY <3>1, <3>2
    <2>1. run'.stage = "rules" /\ run' # NoRun /\ run'.call = call /\ run'.base = state
        BY <2>0 DEF NoRun
    <2>2. ~Stale /\ run.stage = "none"
        BY <1>2, <1>A, <2>0 DEF Stale, At, NoRun, Loaders, CalmInv, Shape, LoadersOK
    <2>3. TypesOK'
        BY <1>0, <1>1, <2>0, <2>1 DEF TypesOK, CalmInv, Shape
    <2>4. Booting'
        BY <1>0, <1>A, <2>0, <2>1 DEF Booting, CalmInv, Shape
    <2>5. LoadersOK'
        BY <1>0, <1>2, <2>0 DEF LoadersOK, CalmInv, Shape, At
    <2>6. CallersOK'
        BY <1>0, <2>0, <2>1 DEF CallersOK, CalmInv, Shape
    <2>7. StateOK'
        BY <1>0, <2>0, <2>1, <2>2 DEF StateOK, CalmInv, Shape
    <2>8. NoFutureMarks
        BY <1>0, <1>1, <2>0, <2>1 DEF NoFutureMarks, Checkpoint
    <2>9. KeepsAll
        BY <1>0, <2>0, <2>1, <2>2 DEF KeepsAll, Kept
    <2>10. CoversOnlyKept
        BY <1>0, <1>A, <2>0, <2>1, <2>2 DEF CoversOnlyKept, Lasting
    <2>11. ~Stale' => \A id \in Happened : Seen(id)'
        <3> SUFFICES ASSUME NEW id \in Happened PROVE Seen(id)'
            OBVIOUS
        <3>1. Seen(id) /\ id \in Nat \ {0}
            BY <2>2 DEF CalmInv, NoneDropped, Happened, LogInv
        <3>2. Kept(id) => Kept(id)'
            BY <2>9, <3>1 DEF KeepsAll
        <3>3. id \in call.evs => Kept(id)'
            BY <2>1 DEF Kept
        <3> QED BY <3>1, <3>2, <3>3, <1>0 DEF Seen
    <2>12. Shape'
        BY <2>3, <2>4, <2>5, <2>6, <2>7 DEF Shape
    <2> QED BY <1>0, <2>8, <2>9, <2>10, <2>11, <2>12, WithoutTheLog DEF logVars
<1>B. ASSUME ~(runtime /\ run = NoRun) PROVE CalmInv'
    <2>0. /\ run' = run /\ pending' = (IF runtime THEN Queued(call) ELSE pending)
          /\ persisted' = Covered(persisted, call.ckpt)
          /\ loader' = Resumed(call.by)
          /\ runtime \/ (call.ckpt > 0 /\ run.stage # "rules") \/ call.evs = {0}
        <3>1. /\ run' = run /\ pending' = (IF runtime THEN Queued(call) ELSE pending)
              /\ persisted' = Covered(persisted, call.ckpt)
              /\ loader' = Resumed(call.by)
              /\ calm' = (calm /\ (runtime \/ (call.ckpt > 0 /\ run.stage # "rules") \/ call.evs = {0}))
            BY <1>B DEF Proceed
        <3>2. runtime \/ (call.ckpt > 0 /\ run.stage # "rules") \/ call.evs = {0}
            BY <3>1, Zenon
        <3> QED BY <3>1, <3>2
    <2>1. call.by # "boot"
        <3>1. call.by = "boot" => loader["boot"].pc = "init"
            BY DEF CalmInv, Shape, CallersOK
        <3>2. loader["boot"].pc = "init" => run = NoRun /\ runtime
            BY <1>3 DEF CalmInv, Shape, Booting
        <3> QED BY <3>1, <3>2, <1>B
    <2>2. \/ call.by = "none" /\ loader' = loader
          \/ call.by = "refresh" /\ loader["refresh"].pc \in {"replaying", "announcing"}
             /\ loader' = [loader EXCEPT !["refresh"].pc = Awaited[loader["refresh"].pc]]
        BY <1>1, <2>0, <2>1 DEF Resumed, CalmInv, Shape, CallersOK, Loaders
    <2>3. /\ loader' = [l \in Loaders |-> [pc |-> loader'[l].pc, hadFiles |-> loader'[l].hadFiles, hadRuntime |-> loader'[l].hadRuntime]]
          /\ loader'["boot"] = loader["boot"] /\ loader'["start"] = loader["start"]
          /\ \/ call.by = "none" /\ loader' = loader
             \/ /\ call.by = "refresh" /\ loader["refresh"].pc \in {"replaying", "announcing"}
                /\ loader'["refresh"].pc \in {"started", "end"}
        BY <2>2 DEF Awaited, CalmInv, Shape, TypesOK, Loaders
    <2>4. /\ persisted' \in Saved \union {Absent} /\ (persisted' = Absent <=> persisted = Absent)
          /\ persisted' # Absent => /\ persisted'.state = persisted.state
                                    /\ \/ persisted'.ckpt = persisted.ckpt
                                       \/ call.ckpt > 0 /\ persisted'.ckpt = call.ckpt
        BY <1>1, <2>0, CoveredIsSaved DEF CalmInv, Shape, TypesOK
    <2>5. call.by # "none" => runtime
        BY <1>3, <2>2
    <2>6. ~runtime /\ ~Stale => call.evs = {0} /\ call.ckpt = 0
        <3>1. ~runtime => loader["refresh"].pc = "load"
            BY <1>3
        <3>2. call.evs = {0} /\ call.by = "none" => ~(call.ckpt > 0)
            BY DEF CalmInv, Shape, CallersOK
        <3> QED BY <3>1, <3>2, <2>0, <2>5, <1>1 DEF Stale
    <2>7. pending \subseteq pending' /\ (runtime => call.evs \subseteq pending') /\ pending' \in SUBSET Nat
        BY <1>1, <2>0 DEF Queued, CalmInv, Shape, TypesOK
    <2>8. Stale' <=> Stale
        BY <2>0, <2>3 DEF Stale
    <2>9. TypesOK'
        BY <1>0, <2>0, <2>3, <2>4, <2>7 DEF TypesOK, CalmInv, Shape
    <2>10. Booting'
        <3>1. loader["boot"].pc # "idle" => loader["boot"].pc = "init" /\ run = NoRun /\ runtime
            BY <1>2, <1>3 DEF CalmInv, Shape, Booting
        <3> QED BY <3>1, <1>B, <2>3 DEF Booting
    <2>11. LoadersOK'
        <3>1. At({"load"})' <=> At({"load"})
            BY <2>3 DEF At, Loaders
        <3> HIDE DEF At
        <3> QED BY <1>0, <1>2, <2>3, <2>4, <3>1 DEF LoadersOK, CalmInv, Shape
    <2>12. CallersOK'
        <3>1. call.by = "none" => loader' = loader
            BY <2>3
        <3>2. call.by = "refresh" => \A c \in ready' : c.by = "none"
            BY <1>0 DEF CallersOK, CalmInv, Shape
        <3>3. call.by = "refresh" => run = NoRun \/ run.call.by = "none"
            BY DEF CallersOK, CalmInv, Shape
        <3> QED BY <1>0, <2>0, <2>3, <3>1, <3>2, <3>3 DEF CallersOK, CalmInv, Shape
    <2>13. StateOK'
        BY <1>0, <2>0, <2>4 DEF StateOK, CalmInv, Shape
    <2>14. NoFutureMarks
        BY <1>0, <1>1, <2>0, <2>4 DEF NoFutureMarks, Checkpoint
    <2>15. KeepsAll
        <3> SUFFICES ASSUME NEW id \in Nat \ {0}, Kept(id) PROVE Kept(id)'
            BY DEF KeepsAll
        <3>1. id \in call.evs /\ (runtime \/ call.ckpt = 0) => id \in pending'
            BY <2>0, <2>7
        <3> QED BY <1>0, <2>0, <2>7, <3>1 DEF Kept
    <2>16. CoversOnlyKept
        <3> SUFFICES ASSUME NEW seq \in Nat, Lasting(seq)' PROVE Lasting(seq)
            BY DEF CoversOnlyKept
        <3>1. ~Stale /\ call.ckpt > 0 => Lasting(call.ckpt)
            BY <2>6 DEF Lasting
        <3>2. ~Stale /\ persisted # Absent => Lasting(persisted.ckpt)
            BY DEF Lasting
        <3>3. ~Stale' /\ persisted' # Absent /\ seq = persisted'.ckpt => Lasting(seq)
            BY <2>4, <2>8, <3>1, <3>2
        <3> QED BY <1>0, <2>0, <2>8, <3>3 DEF Lasting
    <2>17. ~Stale' => \A id \in Happened : Seen(id)'
        <3> SUFFICES ASSUME ~Stale', NEW id \in Happened PROVE Seen(id)'
            OBVIOUS
        <3>1. Seen(id) /\ id \in Nat \ {0}
            BY <2>8 DEF CalmInv, NoneDropped, Happened, LogInv
        <3>2. Kept(id) => Kept(id)'
            BY <2>15, <3>1 DEF KeepsAll
        <3>3. id \in call.evs => Kept(id)'
            BY <2>6, <2>7, <2>8, <3>1 DEF Kept
        <3> QED BY <3>1, <3>2, <3>3, <1>0 DEF Seen
    <2>18. Shape'
        BY <2>9, <2>10, <2>11, <2>12, <2>13 DEF Shape
    <2> QED BY <1>0, <2>14, <2>15, <2>16, <2>17, <2>18, WithoutTheLog DEF logVars
<1> QED BY <1>A, <1>B

\* The ring of a step has no earlier changes that it had not before.
RingOnlyForgets == \A seq \in Nat : seq < nextSeq => UpTo(seq)' \subseteq UpTo(seq)

LEMMA WithTheLog ==
    ASSUME LogInv, CalmInv, LogInv', Shape', nextSeq <= nextSeq', NoFutureMarks, KeepsAll, CoversOnlyKept,
           RingOnlyForgets, RingIsEnough', NoneDropped'
    PROVE  CalmInv'
<1>0. nextSeq \in Nat /\ nextSeq' \in Nat
    BY DEF LogInv
<1>1. CheckpointsArePast'
    BY <1>0 DEF CheckpointsArePast, NoFutureMarks, CalmInv
<1>2. CoveredIsKept'
    <2> SUFFICES ASSUME NEW seq \in Nat, Lasting(seq)', NEW id \in UpTo(seq)'
                 PROVE  Kept(id)'
        BY DEF CoveredIsKept
    <2>1. Checkpoint(seq)'
        BY DEF Lasting, Checkpoint
    <2>2. seq < nextSeq
        BY <2>1 DEF NoFutureMarks, CheckpointsArePast, CalmInv
    <2>3. id \in UpTo(seq)
        BY <2>2 DEF RingOnlyForgets
    <2>4. id \in Nat \ {0}
        BY <2>3, LogIds DEF LogInv
    <2>5. Lasting(seq) \/ \A i \in UpTo(seq) : i # 0 => Kept(i)'
        BY DEF CoversOnlyKept
    <2>6. Lasting(seq) => Kept(id)
        BY <2>3 DEF CoveredIsKept, CalmInv
    <2>7. Kept(id) => Kept(id)'
        BY <2>4 DEF KeepsAll
    <2> QED BY <2>3, <2>4, <2>5, <2>6, <2>7
<1> QED BY <1>1, <1>2 DEF CalmInv

LEMMA RingForgets ==
    ASSUME LogInv, NEW entry, entry.kind # "file" \/ entry.seq = nextSeq, RingFrom(entry)
    PROVE  RingOnlyForgets
BY DEF RingFrom, RingOnlyForgets, UpTo, LogInv

LEMMA ForgottenIsSeen ==
    ASSUME RingIsEnough, RingSuffices, state \subseteq state', happened' = happened
    PROVE  RingIsEnough'
BY DEF RingIsEnough, RingSuffices, Happened

LEMMA SaveEndsCalm ==
    ASSUME LogInv, CalmInv, SaveEnds, calm', LogInv'
    PROVE  CalmInv'
<1> DEFINE call == run.call
<1>0. /\ UNCHANGED <<happened, state, runtime, ready, waiting, promise, timer, retry, reloading, toDrain, saving>>
      /\ run.stage = "saving" /\ run # NoRun /\ disk' \in {run.snap, disk, Torn} /\ run' = NoRun
      /\ UNCHANGED logVars \/ LogRecord
      /\ persisted' = Covered(persisted, call.ckpt)
      /\ loader' = Resumed(call.by)
      /\ RingSuffices
    <2>1. calm' = (calm /\ RingSuffices)
        BY DEF SaveEnds
    <2>2. RingSuffices
        BY <2>1, Zenon
    <2>3. disk' \in {run.snap, disk, Torn}
        BY DEF SaveEnds, Write
    <2> QED BY <2>2, <2>3 DEF SaveEnds, reloadVars, logVars, LogRecord, NoRun
<1>1. /\ call \in Call /\ call.evs \in SUBSET Nat /\ call.ckpt \in Nat /\ call.by \in Loaders \union {"none"}
      /\ call.ckpt < nextSeq /\ run.snap \in Saved /\ run.snap # Absent /\ run.snap # Torn
      /\ run.snap.ckpt \in Nat
    <2>1. call \in Call /\ run.snap \in Saved
        BY <1>0 DEF CalmInv, Shape, TypesOK
    <2>2. Checkpoint(call.ckpt)
        BY <1>0 DEF Checkpoint
    <2> QED BY <2>1, <2>2 DEF CalmInv, Call, CheckpointsArePast, Saved, Absent, Torn
<1> HIDE DEF call
<1>2. /\ flushes' \in SUBSET SUBSET Nat /\ pending' \in SUBSET Nat
      /\ \A id : id \in pending \/ (\E batch \in flushes : id \in batch)
                  => id \in pending' \/ \E batch \in flushes' : id \in batch
      /\ pending = {} /\ flushes = {} => pending' = {} /\ flushes' = {}
    BY DEF SaveEnds, FlushPending, CalmInv, Shape, TypesOK
<1>3. \/ call.by = "none" /\ loader' = loader
      \/ /\ call.by = "refresh" /\ loader["refresh"].pc \in {"replaying", "announcing"}
         /\ loader' = [loader EXCEPT !["refresh"].pc = Awaited[loader["refresh"].pc]]
      \/ /\ call.by = "boot" /\ loader["boot"].pc = "init"
         /\ loader' = [loader EXCEPT !["boot"].pc = Awaited[loader["boot"].pc]]
    BY <1>0, <1>1 DEF Resumed, CalmInv, Shape, CallersOK, Loaders, call
<1>4. /\ loader' = [l \in Loaders |-> [pc |-> loader'[l].pc, hadFiles |-> loader'[l].hadFiles, hadRuntime |-> loader'[l].hadRuntime]]
      /\ loader'["start"] = loader["start"]
      /\ \/ call.by = "none" /\ loader' = loader
         \/ /\ call.by = "refresh" /\ loader["refresh"].pc \in {"replaying", "announcing"}
            /\ loader'["refresh"].pc \in {"started", "end"} /\ loader'["boot"] = loader["boot"]
         \/ /\ call.by = "boot" /\ loader["boot"].pc = "init"
            /\ loader'["boot"].pc = "replay" /\ loader'["refresh"] = loader["refresh"]
    BY <1>3 DEF Awaited, CalmInv, Shape, TypesOK, Loaders
<1>5. /\ persisted' \in Saved \union {Absent} /\ (persisted' = Absent <=> persisted = Absent)
      /\ persisted' # Absent => /\ persisted'.state = persisted.state
                                /\ \/ persisted'.ckpt = persisted.ckpt
                                   \/ call.ckpt > 0 /\ persisted'.ckpt = call.ckpt
    BY <1>0, <1>1, CoveredIsSaved DEF CalmInv, Shape, TypesOK
<1>6. loader["refresh"].pc # "replay" /\ (Stale' <=> Stale)
    BY <1>0, <1>4 DEF Stale, NoRun, CalmInv, Shape, LoadersOK
<1>7. TypesOK'
    BY <1>0, <1>1, <1>2, <1>4, <1>5 DEF TypesOK, CalmInv, Shape, NoRun
<1>8. Booting'
    <2> SUFFICES ASSUME loader'["boot"].pc # "idle" PROVE Booting'
        BY DEF Booting
    <2>1. loader["boot"].pc = "init" /\ ready = {} /\ call = BootCall /\ loader'["boot"].pc = "replay"
          /\ loader'["refresh"] = loader["refresh"]
        BY <1>0, <1>4 DEF CalmInv, Shape, Booting, call, BootCall, CallOf
    <2>2. \A i \in DOMAIN ring' : ring'[i].src # "external"
        <3>1. CASE UNCHANGED logVars
            BY <2>1, <3>1 DEF logVars, CalmInv, Shape, Booting
        <3>2. CASE LogRecord
            <4>1. PICK entry \in Entry : RingFrom(entry) /\ entry.src = "workflow-emit"
                BY <3>2, <1>0, RecordKeepsLog
            <4> QED BY <4>1, <2>1 DEF RingFrom, CalmInv, Shape, Booting
        <3> QED BY <3>1, <3>2, <1>0
    <2> QED BY <1>0, <1>2, <2>1, <2>2 DEF Booting, CalmInv, Shape
<1>9. LoadersOK'
    <2>1. At({"load"})' <=> At({"load"})
        BY <1>4 DEF At, Loaders
    <2> HIDE DEF At
    <2>2. persisted # Absent
        BY <1>0 DEF StateOK, CalmInv, Shape
    <2> QED BY <1>0, <1>1, <1>4, <1>5, <1>6, <2>1, <2>2 DEF LoadersOK, CalmInv, Shape
<1>10. CallersOK'
    <2>1. call.by = "none" => loader' = loader
        BY <1>4
    <2>2. call.by # "none" => \A c \in ready : c.by = "none"
        BY <1>0 DEF CallersOK, CalmInv, Shape, call
    <2> QED BY <1>0, <2>1, <2>2 DEF CallersOK, CalmInv, Shape
<1>11. StateOK'
    BY <1>0, <1>5 DEF StateOK, CalmInv, Shape, NoRun
<1>12. NoFutureMarks
    BY <1>0, <1>1, <1>5 DEF NoFutureMarks, Checkpoint, NoRun, call
<1>13. KeepsAll
    BY <1>0, <1>2 DEF KeepsAll, Kept, NoRun
<1>14. CoversOnlyKept
    <2> SUFFICES ASSUME NEW seq \in Nat, Lasting(seq)' PROVE Lasting(seq)
        BY DEF CoversOnlyKept
    <2>1. Lasting(call.ckpt) /\ Lasting(run.snap.ckpt)
        BY <1>0 DEF Lasting, call
    <2>2. ~Stale /\ persisted # Absent => Lasting(persisted.ckpt)
        BY DEF Lasting
    <2>3. ~Stale' /\ persisted' # Absent /\ seq = persisted'.ckpt => Lasting(seq)
        BY <1>5, <1>6, <2>1, <2>2
    <2> QED BY <1>0, <1>6, <2>1, <2>3 DEF Lasting, NoRun
<1>15. nextSeq <= nextSeq' /\ RingOnlyForgets
    <2>1. CASE UNCHANGED logVars
        BY <2>1 DEF logVars, LogInv, RingOnlyForgets, UpTo
    <2>2. CASE LogRecord
        <3>1. nextSeq < nextSeq'
            BY <2>2, <1>0, RecordKeepsLog
        <3>2. PICK entry \in Entry : RingFrom(entry) /\ entry.kind = "automation"
            BY <2>2, <1>0, RecordKeepsLog
        <3>3. RingOnlyForgets
            BY <3>2, RingForgets
        <3> QED BY <3>1, <3>3 DEF LogInv
    <2> QED BY <2>1, <2>2, <1>0
<1>16. RingIsEnough'
    BY <1>0, ForgottenIsSeen DEF CalmInv
<1>17. NoneDropped'
    <2> SUFFICES ASSUME ~Stale', NEW id \in Happened' PROVE Seen(id)'
        BY DEF NoneDropped
    <2>1. Seen(id) /\ id \in Nat \ {0}
        BY <1>0, <1>6 DEF CalmInv, NoneDropped, Happened, LogInv
    <2>2. Kept(id) => Kept(id)'
        BY <1>13, <2>1 DEF KeepsAll
    <2>3. FileIds(toDrain)' = FileIds(toDrain)
        BY <1>0 DEF FileIds
    <2> QED BY <2>1, <2>2, <2>3, <1>0 DEF Seen
<1>18. Shape'
    BY <1>7, <1>8, <1>9, <1>10, <1>11 DEF Shape
<1> QED BY <1>12, <1>13, <1>14, <1>15, <1>16, <1>17, <1>18, WithTheLog

\* A run that throws: its events are in the state already (calm').
LEMMA RulesThrowCalm ==
    ASSUME LogInv, CalmInv, RulesThrow, calm'
    PROVE  CalmInv'
<1> DEFINE call == run.call
<1>0. /\ UNCHANGED <<ring, file, nextSeq, toDrain, happened, state, runtime, ready, waiting, promise, timer, retry,
                     reloading, disk, saving>>
      /\ run.stage = "rules" /\ run # NoRun /\ run' = NoRun
      /\ persisted' = Covered(persisted, call.ckpt)
      /\ loader' = Resumed(call.by)
      /\ persisted # Absent /\ call.evs \ {0} \subseteq state
    <2>1. calm' = (calm /\ persisted # Absent /\ call.evs \ {0} \subseteq state)
        BY DEF RulesThrow
    <2>2. persisted # Absent /\ call.evs \ {0} \subseteq state
        BY <2>1, Zenon
    <2> QED BY <2>2 DEF RulesThrow, logVars, diskVars, reloadVars, NoRun
<1>1. call \in Call /\ call.evs \in SUBSET Nat /\ call.ckpt \in Nat /\ call.by \in Loaders \union {"none"}
    BY <1>0 DEF CalmInv, Shape, TypesOK, Call
<1> HIDE DEF call
<1>2. /\ flushes' \in SUBSET SUBSET Nat /\ pending' \in SUBSET Nat
      /\ \A id : id \in pending \/ (\E batch \in flushes : id \in batch)
                  => id \in pending' \/ \E batch \in flushes' : id \in batch
      /\ pending = {} /\ flushes = {} => pending' = {} /\ flushes' = {}
    BY DEF RulesThrow, FlushPending, CalmInv, Shape, TypesOK
<1>3. \/ call.by = "none" /\ loader' = loader
      \/ /\ call.by = "refresh" /\ loader["refresh"].pc \in {"replaying", "announcing"}
         /\ loader' = [loader EXCEPT !["refresh"].pc = Awaited[loader["refresh"].pc]]
      \/ /\ call.by = "boot" /\ loader["boot"].pc = "init"
         /\ loader' = [loader EXCEPT !["boot"].pc = Awaited[loader["boot"].pc]]
    BY <1>0, <1>1 DEF Resumed, CalmInv, Shape, CallersOK, Loaders, call
<1>4. /\ loader' = [l \in Loaders |-> [pc |-> loader'[l].pc, hadFiles |-> loader'[l].hadFiles, hadRuntime |-> loader'[l].hadRuntime]]
      /\ loader'["start"] = loader["start"]
      /\ \/ call.by = "none" /\ loader' = loader
         \/ /\ call.by = "refresh" /\ loader["refresh"].pc \in {"replaying", "announcing"}
            /\ loader'["refresh"].pc \in {"started", "end"} /\ loader'["boot"] = loader["boot"]
         \/ /\ call.by = "boot" /\ loader["boot"].pc = "init"
            /\ loader'["boot"].pc = "replay" /\ loader'["refresh"] = loader["refresh"]
    BY <1>3 DEF Awaited, CalmInv, Shape, TypesOK, Loaders
<1>5. /\ persisted' \in Saved /\ persisted' # Absent /\ persisted'.state = persisted.state
      /\ \/ persisted'.ckpt = persisted.ckpt
         \/ call.ckpt > 0 /\ persisted'.ckpt = call.ckpt
    BY <1>0, <1>1, CoveredIsSaved DEF CalmInv, Shape, TypesOK
<1>6. ~Stale /\ loader["refresh"].pc # "replay"
    BY <1>0 DEF Stale, NoRun, CalmInv, Shape, LoadersOK
<1>7. TypesOK'
    BY <1>0, <1>1, <1>2, <1>4, <1>5 DEF TypesOK, CalmInv, Shape, NoRun
<1>8. Booting'
    <2> SUFFICES ASSUME loader'["boot"].pc # "idle" PROVE Booting'
        BY DEF Booting
    <2>1. loader["boot"].pc = "init" /\ ready = {} /\ call = BootCall /\ loader'["boot"].pc = "replay"
          /\ loader'["refresh"] = loader["refresh"]
        BY <1>0, <1>4 DEF CalmInv, Shape, Booting, call, BootCall, CallOf
    <2> QED BY <1>0, <1>2, <2>1 DEF Booting, CalmInv, Shape
<1>9. LoadersOK'
    <2>1. At({"load"})' <=> At({"load"})
        BY <1>4 DEF At, Loaders
    <2> HIDE DEF At
    <2> QED BY <1>0, <1>4, <1>5, <1>6, <2>1 DEF LoadersOK, CalmInv, Shape
<1>10. CallersOK'
    <2>1. call.by = "none" => loader' = loader
        BY <1>4
    <2>2. call.by # "none" => \A c \in ready : c.by = "none"
        BY <1>0 DEF CallersOK, CalmInv, Shape, call
    <2> QED BY <1>0, <2>1, <2>2 DEF CallersOK, CalmInv, Shape
<1>11. StateOK'
    BY <1>0, <1>5 DEF StateOK, CalmInv, Shape, NoRun
<1>12. NoFutureMarks
    BY <1>0, <1>5 DEF NoFutureMarks, Checkpoint, NoRun, call
<1>13. KeepsAll
    BY <1>0, <1>2 DEF KeepsAll, Kept, NoRun, call
<1>14. CoversOnlyKept
    <2> SUFFICES ASSUME NEW seq \in Nat, Lasting(seq)' PROVE Lasting(seq)
        BY DEF CoversOnlyKept
    <2>1. Lasting(call.ckpt) /\ Lasting(persisted.ckpt)
        BY <1>0, <1>6 DEF Lasting, call
    <2> QED BY <1>0, <1>5, <1>6, <2>1 DEF Lasting, NoRun
<1>15. \A id \in Happened : Seen(id)'
    <2> SUFFICES ASSUME NEW id \in Happened PROVE Seen(id)'
        OBVIOUS
    <2>1. Seen(id) /\ id \in Nat \ {0}
        BY <1>6 DEF CalmInv, NoneDropped, Happened, LogInv
    <2>2. Kept(id) => Kept(id)'
        BY <1>13, <2>1 DEF KeepsAll
    <2> QED BY <2>1, <2>2, <1>0 DEF Seen
<1>16. Shape'
    BY <1>7, <1>8, <1>9, <1>10, <1>11 DEF Shape
<1> QED BY <1>0, <1>12, <1>13, <1>14, <1>15, <1>16, WithoutTheLog DEF logVars

\* Only the state file and what is written to it change.
LEMMA OnlyTheFile ==
    ASSUME LogInv, CalmInv,
           UNCHANGED <<ring, file, nextSeq, toDrain, happened, state, persisted, runtime, run, pending, flushes, waiting,
                       ready, promise, timer, retry, reloading, loader>>,
           loader["refresh"].pc = "replay" => disk' = disk,
           disk' \in Saved \union {Absent, Torn}, saving' \in Saved \union {Absent},
           \A seq \in Nat : Lasting(seq)' => Lasting(seq)
    PROVE  CalmInv'
<1>1. TypesOK'
    BY DEF TypesOK, CalmInv, Shape
<1>2. Booting' /\ CallersOK' /\ StateOK'
    BY DEF Booting, CallersOK, StateOK, CalmInv, Shape
<1>3. LoadersOK'
    BY DEF LoadersOK, At, CalmInv, Shape
<1>4. KeepsAll /\ CoversOnlyKept /\ (Stale' <=> Stale)
    BY DEF KeepsAll, Kept, CoversOnlyKept, Stale
<1>5. NoFutureMarks
    <2> SUFFICES ASSUME NEW seq \in Nat, Checkpoint(seq)' PROVE Checkpoint(seq)
        BY DEF NoFutureMarks
    <2>1. Lasting(seq)' => Checkpoint(seq)
        BY LastingIsCheckpoint
    <2>2. \/ Lasting(seq)'
          \/ persisted # Absent /\ seq = persisted.ckpt
          \/ \E c \in ready : seq = c.ckpt
        BY DEF Checkpoint, Lasting
    <2> QED BY <2>1, <2>2 DEF Checkpoint
<1>6. ~Stale' => \A id \in Happened : Seen(id)'
    BY <1>4 DEF CalmInv, NoneDropped, Seen, Kept, FileIds
<1>7. Shape'
    BY <1>1, <1>2, <1>3 DEF Shape
<1> QED BY <1>4, <1>5, <1>6, <1>7, WithoutTheLog DEF logVars

LEMMA PrunesCalm ==
    ASSUME LogInv, CalmInv, SchedulePrunes, calm'
    PROVE  CalmInv'
<1>0. /\ UNCHANGED <<ring, file, nextSeq, toDrain, happened, state, persisted, runtime, run, pending, flushes, waiting,
                     ready, promise, timer, retry, reloading, loader, disk>>
      /\ saving' = persisted /\ persisted # Absent /\ persisted \in Saved /\ runtime
      /\ loader["refresh"].pc \notin {"load", "read", "replay"}
    <2>1. calm' = (calm /\ ~At({"read"}))
        BY DEF SchedulePrunes
    <2>2. ~At({"read"})
        BY <2>1, Zenon
    <2>3. loader["refresh"].pc \notin {"load", "read", "replay"}
        BY <2>2 DEF SchedulePrunes, Open, Quiet, At, Micro, Loaders, CalmInv, Shape, LoadersOK
    <2> QED BY <2>3 DEF SchedulePrunes, logVars, reloadVars, queueVars, memoryVars, CalmInv, Shape, TypesOK
<1>1. ~Stale
    BY <1>0 DEF Stale
<1>2. \A seq \in Nat : Lasting(seq)' => Lasting(seq)
    BY <1>0, <1>1 DEF Lasting, Stale
<1>3. disk' \in Saved \union {Absent, Torn} /\ saving' \in Saved \union {Absent}
    BY <1>0 DEF CalmInv, Shape, TypesOK
<1> QED BY <1>0, <1>2, <1>3, OnlyTheFile

LEMMA SchedulerSavedCalm == LogInv /\ CalmInv /\ SchedulerSaved => CalmInv'
<1> SUFFICES ASSUME LogInv, CalmInv, SchedulerSaved PROVE CalmInv'
    OBVIOUS
<1>0. /\ UNCHANGED <<ring, file, nextSeq, toDrain, happened, state, persisted, runtime, run, pending, flushes, waiting,
                     ready, promise, timer, retry, reloading, loader>>
      /\ saving # Absent /\ saving \in Saved /\ disk' \in {saving, disk, Torn} /\ saving' = Absent
      /\ loader["refresh"].pc # "replay"
    BY DEF SchedulerSaved, Write, Quiet, At, Micro, Loaders, logVars, reloadVars, queueVars, memoryVars,
           CalmInv, Shape, TypesOK
<1>1. \A seq \in Nat : Lasting(seq)' => Lasting(seq)
    BY <1>0 DEF Lasting, Stale
<1>2. disk' \in Saved \union {Absent, Torn} /\ saving' \in Saved \union {Absent}
    BY <1>0 DEF CalmInv, Shape, TypesOK
<1> QED BY <1>0, <1>1, <1>2, OnlyTheFile

LEMMA ChangeCalm ==
    ASSUME LogInv, CalmInv, NEW kind \in Kinds, Change(kind), calm', LogInv'
    PROVE  CalmInv'
<1>0. /\ UNCHANGED <<state, persisted, disk, saving, runtime, run, pending, flushes, waiting, ready, promise, timer,
                     retry, reloading, loader>>
      /\ loader["boot"].pc = "idle"
      /\ kind = "file" => happened' = happened + 1 /\ LogAppend(happened', kind)
      /\ kind # "file" => happened' = happened /\ LogAppend(0, kind)
      /\ RingSuffices
    <2>1. calm' = (calm /\ RingSuffices)
        BY DEF Change
    <2>2. RingSuffices
        BY <2>1, Zenon
    <2> QED BY <2>2 DEF Change, Open, Idle, reloadVars, queueVars, diskVars, memoryVars
<1> DEFINE id == IF kind = "file" THEN happened' ELSE 0
<1>1. /\ happened \in Nat /\ happened' \in Nat /\ id \in Nat /\ happened <= happened' /\ LogAppend(id, kind)
      /\ kind = "file" => id # 0 /\ id <= happened' /\ id = happened' /\ happened' = happened + 1
      /\ kind # "file" => happened' = happened
    BY <1>0 DEF LogInv
<1> HIDE DEF id
<1>A. /\ id \in Nat /\ LogAppend(id, kind) /\ happened' \in Nat /\ happened <= happened'
      /\ kind = "file" => id # 0 /\ id <= happened'
    BY <1>1
<1>2. PICK entry \in Entry :
         /\ entry.id = id /\ entry.kind = kind /\ entry.seq = nextSeq
         /\ RingFrom(entry)
         /\ \E i \in DOMAIN ring' : ring'[i] = entry
         /\ \E i \in DOMAIN toDrain' : toDrain'[i] = entry
         /\ \A j \in DOMAIN toDrain : \E i \in DOMAIN toDrain' : toDrain'[i] = toDrain[j]
    BY <1>A, AppendKeepsLog
<1>3. nextSeq < nextSeq'
    BY <1>A, AppendKeepsLog
<1>4. TypesOK'
    BY <1>0 DEF TypesOK, CalmInv, Shape
<1>5. Booting'
    BY <1>0 DEF Booting
<1>6. LoadersOK'
    BY <1>0 DEF LoadersOK, CalmInv, Shape, At
<1>7. CallersOK'
    BY <1>0 DEF CallersOK, CalmInv, Shape
<1>8. StateOK'
    BY <1>0 DEF StateOK, CalmInv, Shape
<1>9. NoFutureMarks
    BY <1>0 DEF NoFutureMarks, Checkpoint
<1>10. KeepsAll
    BY <1>0 DEF KeepsAll, Kept
<1>11. CoversOnlyKept
    BY <1>0 DEF CoversOnlyKept, Lasting, Stale
<1>12. nextSeq <= nextSeq' /\ RingOnlyForgets
    BY <1>2, <1>3, RingForgets DEF LogInv
<1>13. FileIds(toDrain) \subseteq FileIds(toDrain') /\ (kind = "file" => happened' \in FileIds(toDrain'))
    BY <1>1, <1>2 DEF FileIds
<1>14. RingIsEnough'
    <2> SUFFICES ASSUME NEW i \in Happened' PROVE i \in state' \/ i \in FileIds(ring)'
        BY DEF RingIsEnough
    <2>1. CASE i \in Happened
        BY <2>1, <1>0 DEF RingIsEnough, CalmInv, RingSuffices
    <2>2. CASE i \notin Happened
        <3>1. kind = "file" /\ i = happened'
            BY <2>2, <1>1 DEF Happened
        <3> QED BY <3>1, <1>1, <1>2 DEF FileIds
    <2> QED BY <2>1, <2>2
<1>15. NoneDropped'
    <2> SUFFICES ASSUME ~Stale', NEW i \in Happened' PROVE Seen(i)'
        BY DEF NoneDropped
    <2>1. CASE i \in Happened
        <3>1. Seen(i) /\ i \in Nat \ {0}
            BY <2>1, <1>0 DEF CalmInv, NoneDropped, Stale, Happened, LogInv
        <3>2. Kept(i) => Kept(i)'
            BY <1>10, <3>1 DEF KeepsAll
        <3> QED BY <3>1, <3>2, <1>0, <1>13 DEF Seen
    <2>2. CASE i \notin Happened
        <3>1. kind = "file" /\ i = happened'
            BY <2>2, <1>1 DEF Happened
        <3> QED BY <3>1, <1>13 DEF Seen
    <2> QED BY <2>1, <2>2
<1>16. Shape'
    BY <1>4, <1>5, <1>6, <1>7, <1>8 DEF Shape
<1> QED BY <1>9, <1>10, <1>11, <1>12, <1>14, <1>15, <1>16, WithTheLog

LEMMA CompactCalm ==
    ASSUME LogInv, CalmInv, Compact, calm', LogInv'
    PROVE  CalmInv'
<1>0. /\ UNCHANGED <<state, persisted, disk, saving, runtime, run, pending, flushes, waiting, ready, promise, timer,
                     retry, reloading, loader, happened>>
      /\ LogCompact /\ RingSuffices
    <2>1. calm' = (calm /\ RingSuffices)
        BY DEF Compact
    <2>2. RingSuffices
        BY <2>1, Zenon
    <2> QED BY <2>2 DEF Compact, reloadVars, queueVars, diskVars, memoryVars
<1>1. /\ nextSeq' = nextSeq /\ toDrain' = toDrain
      /\ \A i \in DOMAIN ring' : \E j \in DOMAIN ring : ring'[i] = ring[j]
    BY <1>0, CompactKeepsLog
<1>2. TypesOK'
    BY <1>0 DEF TypesOK, CalmInv, Shape
<1>3. Booting'
    BY <1>0, <1>1 DEF Booting, CalmInv, Shape
<1>4. LoadersOK'
    BY <1>0 DEF LoadersOK, CalmInv, Shape, At
<1>5. CallersOK'
    BY <1>0 DEF CallersOK, CalmInv, Shape
<1>6. StateOK'
    BY <1>0 DEF StateOK, CalmInv, Shape
<1>7. NoFutureMarks
    BY <1>0 DEF NoFutureMarks, Checkpoint
<1>8. KeepsAll
    BY <1>0 DEF KeepsAll, Kept
<1>9. CoversOnlyKept
    BY <1>0 DEF CoversOnlyKept, Lasting, Stale
<1>10. nextSeq <= nextSeq' /\ RingOnlyForgets
    BY <1>1 DEF RingOnlyForgets, UpTo, LogInv
<1>11. RingIsEnough'
    BY <1>0, ForgottenIsSeen DEF CalmInv
<1>12. NoneDropped'
    BY <1>0, <1>1 DEF NoneDropped, Seen, Kept, FileIds, Happened, Stale, CalmInv
<1>13. Shape'
    BY <1>2, <1>3, <1>4, <1>5, <1>6 DEF Shape
<1> QED BY <1>7, <1>8, <1>9, <1>10, <1>11, <1>12, <1>13, WithTheLog

LEMMA DrainCalm ==
    ASSUME LogInv, CalmInv, Drain, LogInv'
    PROVE  CalmInv'
<1> DEFINE evs == FileIds(toDrain)
           seq == Newest(toDrain)
           call == CallOf(evs, seq, "none")
<1>0. /\ UNCHANGED <<happened, ring, nextSeq, retry, reloading, run, flushes, state, runtime, loader, disk, saving>>
      /\ toDrain # <<>> /\ toDrain' = <<>> /\ ready = {} /\ loader["refresh"].pc # "replay"
      /\ loader["boot"].pc = "idle"
    BY DEF Drain, LogDrain, ghostVars, diskVars, Quiet, At, Micro, Loaders, CalmInv, Shape, Booting
<1>1. /\ evs \in SUBSET Nat /\ 0 \notin evs /\ seq \in Nat /\ seq < nextSeq /\ evs \subseteq 1..happened
    BY <1>0, LogIds DEF LogInv
<1>2. \/ /\ evs = {} /\ persisted' = Covered(persisted, seq)
         /\ UNCHANGED <<pending, waiting, ready>>
      \/ /\ evs # {} /\ persisted' = persisted
         /\ pending' = pending \union evs /\ UNCHANGED <<waiting, ready>>
      \/ /\ evs # {} /\ persisted' = persisted
         /\ ~reloading /\ waiting' = waiting \union {call} /\ UNCHANGED <<pending, ready>>
      \/ /\ evs # {} /\ persisted' = persisted
         /\ ready' = ready \union {call} /\ UNCHANGED <<pending, waiting>>
    BY DEF Drain
<1>3. call \in Call /\ call.evs = evs /\ call.ckpt = seq /\ call.by = "none"
    BY <1>1 DEF Call, CallOf
<1>4. ~Stale => \A id \in UpTo(seq) : Kept(id) \/ id \in evs
    BY <1>0, <1>1, LogIds DEF CalmInv, NoneDropped, Seen, Happened
<1>5. ~Stale => \A id \in Happened : Kept(id) \/ id \in evs
    BY <1>0 DEF CalmInv, NoneDropped, Seen
<1> HIDE DEF evs, seq, call
<1>6. /\ persisted' \in Saved \union {Absent} /\ (persisted' = Absent <=> persisted = Absent)
      /\ persisted' # Absent => /\ persisted'.state = persisted.state
                                /\ \/ persisted'.ckpt = persisted.ckpt
                                   \/ evs = {} /\ persisted'.ckpt = seq
    <2>1. persisted \in Saved \union {Absent}
        BY DEF CalmInv, Shape, TypesOK
    <2>2. /\ Covered(persisted, seq) \in Saved \union {Absent} /\ (Covered(persisted, seq) = Absent <=> persisted = Absent)
          /\ persisted # Absent => /\ Covered(persisted, seq).state = persisted.state
                                   /\ \/ Covered(persisted, seq).ckpt = persisted.ckpt
                                      \/ Covered(persisted, seq).ckpt = seq
        BY <1>1, <2>1, CoveredIsSaved
    <2> QED BY <1>2, <2>1, <2>2
<1>7. Stale' <=> Stale
    BY <1>0 DEF Stale
<1>8. ~reloading => ~Stale
    BY DEF Stale, CalmInv, Shape, LoadersOK
<1>9. TypesOK'
    BY <1>0, <1>1, <1>2, <1>3, <1>6 DEF TypesOK, CalmInv, Shape
<1>10. Booting'
    BY <1>0 DEF Booting
<1>11. LoadersOK'
    BY <1>0, <1>6 DEF LoadersOK, CalmInv, Shape, At
<1>12. CallersOK'
    BY <1>0, <1>1, <1>2, <1>3 DEF CallersOK, CalmInv, Shape
<1>13. StateOK'
    BY <1>0, <1>6 DEF StateOK, CalmInv, Shape
<1>14. NoFutureMarks
    BY <1>0, <1>1, <1>2, <1>3, <1>6 DEF NoFutureMarks, Checkpoint
<1>15. KeepsAll
    BY <1>0, <1>2 DEF KeepsAll, Kept
<1>16. \/ \A id \in evs : Kept(id)'
       \/ ~runtime /\ ready' = {call} /\ UNCHANGED <<waiting, persisted>>
    BY <1>0, <1>2, <1>3 DEF Kept
<1>17. CoversOnlyKept
    <2> SUFFICES ASSUME NEW x \in Nat, Lasting(x)', ~Lasting(x), NEW id \in UpTo(x), id # 0
                 PROVE  Kept(id)'
        BY DEF CoversOnlyKept
    <2>1. x = seq /\ ~Stale /\ \A i \in evs : Kept(i)'
        BY <1>0, <1>2, <1>3, <1>6, <1>7, <1>8, <1>16 DEF Lasting
    <2>2. id \in Nat
        BY LogIds DEF LogInv
    <2>3. Kept(id) => Kept(id)'
        BY <1>15, <2>2 DEF KeepsAll
    <2> QED BY <1>4, <2>1, <2>3
<1>18. RingOnlyForgets /\ RingIsEnough' /\ nextSeq <= nextSeq'
    BY <1>0 DEF RingOnlyForgets, UpTo, RingIsEnough, FileIds, Happened, CalmInv, LogInv
<1>19. NoneDropped'
    <2> SUFFICES ASSUME ~Stale', NEW id \in Happened' PROVE Seen(id)'
        BY DEF NoneDropped
    <2>1. id \in Nat \ {0} /\ id \in Happened
        BY <1>0 DEF Happened, LogInv
    <2>2. Kept(id) => Kept(id)'
        BY <1>15, <2>1 DEF KeepsAll
    <2>3. id \in evs => Seen(id)'
        BY <1>3, <1>16 DEF Seen
    <2> QED BY <1>5, <1>7, <2>1, <2>2, <2>3 DEF Seen
<1>20. Shape'
    BY <1>9, <1>10, <1>11, <1>12, <1>13 DEF Shape
<1> QED BY <1>14, <1>15, <1>17, <1>18, <1>19, <1>20, WithTheLog

\* The steps of a loader that change where it is and nothing that is in somebody's hands.
LEMMA ReloadTimerCalm == LogInv /\ CalmInv /\ ReloadTimer => CalmInv'
<1> SUFFICES ASSUME LogInv, CalmInv, ReloadTimer PROVE CalmInv'
    OBVIOUS
<1>0. /\ UNCHANGED <<ring, file, nextSeq, toDrain, happened, state, persisted, disk, saving, run, pending, flushes, waiting,
                     ready, promise, retry>>
      /\ timer /\ ready = {} /\ timer' = FALSE
    BY DEF ReloadTimer, Quiet, logVars, diskVars, queueVars, ghostVars
<1>1. loader["boot"].pc = "idle"
    BY <1>0 DEF CalmInv, Shape, Booting
<1>2. CASE reloading
    <2>1. UNCHANGED <<reloading, loader, runtime>>
        BY <1>2 DEF ReloadTimer
    <2>2. TypesOK'
        BY <1>0, <2>1 DEF TypesOK, CalmInv, Shape
    <2>3. Booting' /\ LoadersOK' /\ CallersOK' /\ StateOK'
        BY <1>0, <1>1, <2>1 DEF Booting, LoadersOK, CallersOK, StateOK, At, CalmInv, Shape
    <2>4. CheckpointsArePast' /\ CoveredIsKept' /\ RingIsEnough' /\ NoneDropped'
        BY <1>0, <2>1 DEF CheckpointsArePast, Checkpoint, CoveredIsKept, Lasting, Kept, Stale, UpTo, RingIsEnough,
                          FileIds, Happened, NoneDropped, Seen, CalmInv
    <2> QED BY <2>2, <2>3, <2>4 DEF CalmInv, Shape
<1>3. CASE ~reloading
    <2>1. /\ reloading' = TRUE /\ runtime' = FALSE
          /\ loader' = [loader EXCEPT !["refresh"] = [pc |-> "load", hadFiles |-> loaded, hadRuntime |-> runtime]]
        BY <1>3 DEF ReloadTimer
    <2>2. loader["refresh"].pc = "idle"
        BY <1>3 DEF CalmInv, Shape, LoadersOK
    <2>3. /\ loader' = [l \in Loaders |-> [pc |-> loader'[l].pc, hadFiles |-> loader'[l].hadFiles, hadRuntime |-> loader'[l].hadRuntime]]
          /\ loader'["boot"] = loader["boot"] /\ loader'["start"] = loader["start"]
          /\ loader'["refresh"].pc = "load"
        BY <2>1 DEF CalmInv, Shape, TypesOK, Loaders
    <2>4. TypesOK'
        BY <1>0, <2>3 DEF TypesOK, CalmInv, Shape
    <2>5. Booting'
        BY <1>1, <2>3 DEF Booting
    <2>6. LoadersOK'
        <3>1. At({"load"})'
            BY <2>3 DEF At, Loaders
        <3> HIDE DEF At
        <3> QED BY <1>0, <2>1, <2>3, <3>1 DEF LoadersOK, CalmInv, Shape
    <2>7. CallersOK'
        BY <1>0, <2>2, <2>3 DEF CallersOK, CalmInv, Shape
    <2>8. StateOK'
        BY <1>0 DEF StateOK, CalmInv, Shape
    <2>9. ~Stale
        BY <2>2 DEF Stale
    <2>10. NoFutureMarks /\ KeepsAll
        BY <1>0 DEF NoFutureMarks, Checkpoint, KeepsAll, Kept
    <2>11. CoversOnlyKept
        BY <1>0, <2>9 DEF CoversOnlyKept, Lasting
    <2>12. \A id \in Happened : Seen(id)'
        <3> SUFFICES ASSUME NEW id \in Happened PROVE Seen(id)'
            OBVIOUS
        <3>1. Seen(id) /\ id \in Nat \ {0}
            BY <2>9 DEF CalmInv, NoneDropped, Happened, LogInv
        <3>2. Kept(id) => Kept(id)'
            BY <2>10, <3>1 DEF KeepsAll
        <3> QED BY <3>1, <3>2, <1>0 DEF Seen
    <2>13. Shape'
        BY <2>4, <2>5, <2>6, <2>7, <2>8 DEF Shape
    <2> QED BY <1>0, <2>10, <2>11, <2>12, <2>13, WithoutTheLog DEF logVars
<1> QED BY <1>2, <1>3

LEMMA RetryTimerCalm == LogInv /\ CalmInv /\ RetryTimer => CalmInv'
<1> SUFFICES ASSUME LogInv, CalmInv, RetryTimer PROVE CalmInv'
    OBVIOUS
<1>0. /\ UNCHANGED <<ring, file, nextSeq, toDrain, happened, state, persisted, disk, saving, runtime, run, pending,
                     flushes, waiting, ready, reloading, loader>>
      /\ retry
    BY DEF RetryTimer, logVars, diskVars, queueVars, memoryVars, ghostVars
<1>1. loader["boot"].pc = "idle"
    BY <1>0 DEF CalmInv, Shape, Booting
<1>2. TypesOK'
    BY <1>0 DEF TypesOK, CalmInv, Shape
<1>3. Booting' /\ LoadersOK' /\ CallersOK' /\ StateOK'
    BY <1>0, <1>1 DEF Booting, LoadersOK, CallersOK, StateOK, At, CalmInv, Shape
<1>4. CheckpointsArePast' /\ CoveredIsKept' /\ RingIsEnough' /\ NoneDropped'
    BY <1>0 DEF CheckpointsArePast, Checkpoint, CoveredIsKept, Lasting, Kept, Stale, UpTo, RingIsEnough,
                FileIds, Happened, NoneDropped, Seen, CalmInv
<1> QED BY <1>2, <1>3, <1>4 DEF CalmInv, Shape

LEMMA LoadCalm ==
    ASSUME LogInv, CalmInv, NEW l \in Loaders, NEW found, LoadDefinitions(l, found), calm'
    PROVE  CalmInv'
<1>0. /\ UNCHANGED <<ring, file, nextSeq, toDrain, happened, state, persisted, disk, saving, run, pending, flushes, waiting,
                     ready, promise, timer, retry, reloading>>
      /\ ready = {} /\ loader[l].pc = "load"
    BY DEF LoadDefinitions, Quiet, logVars, diskVars, reloadVars, queueVars
<1>1. found = "definitions"
    <2>1. calm' = (calm /\ found = "definitions")
        BY DEF LoadDefinitions
    <2> QED BY <2>1, Zenon
<1>2. runtime' /\ loader' = [loader EXCEPT ![l].pc = "read"]
    <2>1. \E other : runtime' = (found = "definitions" \/ other)
        BY Zenon DEF LoadDefinitions
    <2>2. runtime'
        BY <1>1, <2>1, Zenon
    <2>3. loader' = [loader EXCEPT ![l].pc = "read"]
        BY <1>1 DEF LoadDefinitions
    <2> QED BY <2>2, <2>3, Zenon
<1>3. l # "start"
    BY <1>0 DEF CalmInv, Shape, LoadersOK
<1>4. /\ loader' = [k \in Loaders |-> [pc |-> loader'[k].pc, hadFiles |-> loader'[k].hadFiles, hadRuntime |-> loader'[k].hadRuntime]]
      /\ loader'[l].pc = "read" /\ \A k \in Loaders : k # l => loader'[k] = loader[k]
    BY <1>2 DEF CalmInv, Shape, TypesOK
<1>5. ~At({"load"})'
    BY <1>0, <1>3, <1>4 DEF At, Loaders, CalmInv, Shape, Booting, LoadersOK
<1>6. TypesOK'
    BY <1>0, <1>4 DEF TypesOK, CalmInv, Shape
<1>7. Booting'
    BY <1>0, <1>3, <1>4 DEF Booting, Loaders, CalmInv, Shape
<1>8. LoadersOK'
    <2> HIDE DEF At
    <2> QED BY <1>0, <1>2, <1>3, <1>4, <1>5 DEF LoadersOK, Loaders, CalmInv, Shape
<1>9. CallersOK'
    BY <1>0, <1>3, <1>4 DEF CallersOK, Loaders, CalmInv, Shape
<1>10. StateOK'
    BY <1>0 DEF StateOK, CalmInv, Shape
<1>11. Stale' <=> Stale
    BY <1>0, <1>3, <1>4 DEF Stale, Loaders
<1>12. NoFutureMarks /\ KeepsAll
    BY <1>0 DEF NoFutureMarks, Checkpoint, KeepsAll, Kept
<1>13. CoversOnlyKept
    BY <1>0, <1>11 DEF CoversOnlyKept, Lasting
<1>14. ~Stale' => \A id \in Happened : Seen(id)'
    <2> SUFFICES ASSUME ~Stale', NEW id \in Happened PROVE Seen(id)'
        OBVIOUS
    <2>1. Seen(id) /\ id \in Nat \ {0}
        BY <1>11 DEF CalmInv, NoneDropped, Happened, LogInv
    <2>2. Kept(id) => Kept(id)'
        BY <1>12, <2>1 DEF KeepsAll
    <2> QED BY <2>1, <2>2, <1>0 DEF Seen
<1>15. Shape'
    BY <1>6, <1>7, <1>8, <1>9, <1>10 DEF Shape
<1> QED BY <1>0, <1>12, <1>13, <1>14, <1>15, WithoutTheLog DEF logVars

LEMMA ReadCalm ==
    ASSUME LogInv, CalmInv, NEW l \in Loaders, NEW read \in Readable, ReadState(l, read), calm'
    PROVE  CalmInv'
<1>0. /\ UNCHANGED <<ring, file, nextSeq, toDrain, happened, disk, saving, runtime, run, pending, flushes, promise, timer,
                     retry, reloading>>
      /\ ready = {} /\ loader[l].pc = "read" /\ ~At(Micro)
    BY DEF ReadState, Quiet, logVars, diskVars
<1>1. run = NoRun /\ Current(read)
    <2>1. calm' = (calm /\ run = NoRun /\ Current(read))
        BY DEF ReadState
    <2> QED BY <2>1, Zenon
<1>2. /\ read \in Saved \union {Absent, Torn} /\ run.stage = "none" /\ read \in {disk, Torn}
      /\ state = (IF read \in {Absent, Torn} THEN {} ELSE read.state)
      /\ read \in {Absent, Torn} <=> persisted = Absent
    <2>1. read \in {disk, Torn} /\ disk \in Saved \union {Absent, Torn}
        BY DEF Readable, CalmInv, Shape, TypesOK
    <2> QED BY <1>1, <2>1 DEF Current, NoRun, CalmInv, Shape, StateOK
<1>3. l # "start"
    BY <1>0 DEF CalmInv, Shape, LoadersOK
<1>A. CASE read \in {Absent, Torn}
    <2>1. l = "boot" /\ loader["boot"].pc = "read" /\ loader["refresh"].pc = "idle"
        BY <1>A, <1>0, <1>2, <1>3 DEF Loaders, CalmInv, Shape, Booting, LoadersOK
    <2>2. ~promise /\ happened = 0 /\ waiting = {}
        BY <2>1 DEF CalmInv, Shape, Booting
    <2>3. /\ state' = {} /\ state = {} /\ loader' = [loader EXCEPT ![l].pc = "init"]
          /\ ready' = {BootCall} /\ waiting' = waiting /\ persisted' = persisted
        BY <1>A, <1>0, <1>2, <2>1, <2>2 DEF ReadState, MustWait, BootCall
    <2>4. /\ loader' = [k \in Loaders |-> [pc |-> loader'[k].pc, hadFiles |-> loader'[k].hadFiles, hadRuntime |-> loader'[k].hadRuntime]]
          /\ loader'["boot"].pc = "init" /\ loader'["refresh"] = loader["refresh"] /\ loader'["start"] = loader["start"]
        <3>1. /\ loader' = [k \in Loaders |-> [pc |-> loader'[k].pc, hadFiles |-> loader'[k].hadFiles, hadRuntime |-> loader'[k].hadRuntime]]
              /\ loader'[l].pc = "init" /\ \A k \in Loaders : k # l => loader'[k] = loader[k]
            BY <2>3 DEF CalmInv, Shape, TypesOK
        <3> QED BY <2>1, <3>1 DEF Loaders
    <2>5. BootCall \in Call /\ BootCall.by = "boot" /\ BootCall.ckpt = 0
        BY DEF BootCall, CallOf, Call, Loaders
    <2>6. TypesOK'
        BY <1>0, <2>3, <2>4, <2>5 DEF TypesOK, CalmInv, Shape
    <2>7. Booting'
        BY <1>0, <1>1, <2>1, <2>3, <2>4 DEF Booting, CalmInv, Shape
    <2>8. LoadersOK'
        <3>1. runtime /\ ~At({"load"})'
            BY <2>1, <2>4 DEF At, Loaders, CalmInv, Shape, LoadersOK
        <3> HIDE DEF At
        <3> QED BY <1>0, <2>1, <2>4, <3>1 DEF LoadersOK, CalmInv, Shape
    <2>9. CallersOK'
        BY <1>0, <1>1, <2>2, <2>3, <2>4, <2>5 DEF CallersOK
    <2>10. StateOK'
        BY <1>0, <1>2, <1>A, <2>3 DEF StateOK
    <2>11. NoFutureMarks
        BY <1>0, <2>3, <2>5 DEF NoFutureMarks, Checkpoint, LogInv
    <2>12. KeepsAll
        BY <1>0, <2>3 DEF KeepsAll, Kept
    <2>13. CoversOnlyKept
        <3>1. UpTo(0) = {}
            BY LogIds DEF UpTo
        <3> QED BY <1>0, <2>1, <2>3, <2>4, <2>5, <3>1 DEF CoversOnlyKept, Lasting, Stale
    <2>14. \A id \in Happened : Seen(id)'
        BY <2>2 DEF Happened
    <2>15. Shape'
        BY <2>6, <2>7, <2>8, <2>9, <2>10 DEF Shape
    <2> QED BY <1>0, <2>3, <2>11, <2>12, <2>13, <2>14, <2>15, WithoutTheLog DEF logVars
<1>B. CASE read \notin {Absent, Torn}
    <2>1. disk \in Saved /\ read = disk /\ state' = disk.state /\ state' = state /\ persisted' = disk
          /\ loader' = [loader EXCEPT ![l].pc = "replay"] /\ UNCHANGED <<waiting, ready>>
        BY <1>B, <1>2 DEF ReadState
    <2>1a. disk \notin {Absent, Torn}
        BY <2>1, SavedIsReal
    <2>2. /\ loader' = [k \in Loaders |-> [pc |-> loader'[k].pc, hadFiles |-> loader'[k].hadFiles, hadRuntime |-> loader'[k].hadRuntime]]
          /\ loader'[l].pc = "replay" /\ \A k \in Loaders : k # l => loader'[k] = loader[k]
        BY <2>1 DEF CalmInv, Shape, TypesOK
    <2>3. TypesOK'
        BY <1>0, <2>1, <2>2 DEF TypesOK, CalmInv, Shape
    <2>4. Booting'
        BY <1>0, <1>1, <1>3, <1>B, <2>1, <2>1a, <2>2 DEF Booting, Loaders, CalmInv, Shape
    <2>5. LoadersOK'
        <3>1. At({"load"})' <=> At({"load"})
            BY <1>0, <2>2 DEF At
        <3> HIDE DEF At
        <3> QED BY <1>0, <1>1, <1>3, <1>B, <2>1, <2>1a, <2>2, <3>1 DEF LoadersOK, Loaders, CalmInv, Shape
    <2>6. CallersOK'
        BY <1>0, <1>1, <2>1 DEF CallersOK, CalmInv, Shape
    <2>7. StateOK'
        BY <1>0, <1>1, <1>2, <1>B, <2>1, <2>1a DEF StateOK
    <2>8. Stale' <=> Stale
        BY <1>0, <1>3, <2>2 DEF Stale, Loaders, NoRun
    <2>9. NoFutureMarks /\ KeepsAll
        BY <1>0, <1>B, <2>1, <2>1a DEF NoFutureMarks, Checkpoint, KeepsAll, Kept
    <2>10. CoversOnlyKept
        BY <1>0, <1>B, <2>1, <2>1a, <2>8 DEF CoversOnlyKept, Lasting
    <2>11. ~Stale' => \A id \in Happened : Seen(id)'
        BY <1>0, <2>1, <2>8 DEF CalmInv, NoneDropped, Seen, Kept, FileIds
    <2>12. Shape'
        BY <2>3, <2>4, <2>5, <2>6, <2>7 DEF Shape
    <2> QED BY <1>0, <2>1, <2>9, <2>10, <2>11, <2>12, WithoutTheLog DEF logVars
<1> QED BY <1>A, <1>B

LEMMA ReplayCalm ==
    ASSUME LogInv, CalmInv, NEW l \in Loaders, Replay(l)
    PROVE  CalmInv'
<1> DEFINE due == {i \in DOMAIN Replayed : Replayed[i].src = "external"}
           evs == {Replayed[i].id : i \in due}
           call == CallOf(evs, Newest(Replayed), l)
           seq == IF persisted = Absent THEN 0 ELSE persisted.ckpt
<1>0. /\ UNCHANGED <<ring, file, nextSeq, toDrain, happened, state, persisted, disk, saving, runtime, run, pending, flushes,
                     promise, timer, retry, reloading>>
      /\ ready = {} /\ loader[l].pc = "replay"
    BY DEF Replay, logVars, diskVars, ghostVars
<1>1. seq \in Nat /\ Replayed = Since(seq)
    BY DEF Replayed, CalmInv, Shape, TypesOK, Saved, Absent
<1> HIDE DEF seq
<1>2. /\ Replayed \in Seq(Entry)
      /\ \A i \in DOMAIN Replayed : Replayed[i] \in Entry /\ \E j \in DOMAIN ring : Replayed[i] = ring[j]
      /\ \A i \in DOMAIN ring : ring[i].seq > seq => \E k \in DOMAIN Replayed : Replayed[k] = ring[i]
    <2>1. seq \in Int
        BY <1>1
    <2>2. PICK from \in Nat : Ends(Since(seq), ring, from)
        BY <2>1, SinceIsTheRest
    <2>3. ring \in Seq(Entry) /\ Since(seq) \in Seq(Entry)
        BY <2>1, SinceIsTheRest DEF LogInv, Dated
    <2>4. \A i \in DOMAIN Since(seq) : \E j \in DOMAIN ring : Since(seq)[i] = ring[j]
        BY <2>2, <2>3, EndHasNoOthers
    <2>5. \A i \in DOMAIN Since(seq) : Since(seq)[i] \in Entry
        BY <2>3, LenProperties, ElementOfSeq
    <2>6. \A i \in DOMAIN ring : ring[i].seq > seq => \E k \in DOMAIN Since(seq) : Since(seq)[k] = ring[i]
        BY <2>1, SinceIsTheRest
    <2> QED BY <1>1, <2>3, <2>4, <2>5, <2>6
<1>3. IF evs = {}
        THEN loader' = [loader EXCEPT ![l].pc = "started"] /\ UNCHANGED <<waiting, ready>>
        ELSE loader' = [loader EXCEPT ![l].pc = "replaying"] /\ Enter(call)
    BY DEF Replay
<1>4. evs \in SUBSET Nat
    BY <1>2 DEF Entry
<1>5. l # "start"
    BY <1>0 DEF CalmInv, Shape, LoadersOK
<1>6. l = "boot" => evs = {}
    BY <1>0, <1>2 DEF CalmInv, Shape, Booting
<1>7. \A i \in DOMAIN ring : ring[i].kind = "file" /\ ring[i].seq > seq => ring[i].id \in evs
    BY <1>2 DEF Entry
<1>8. evs # {} => Newest(Replayed) \in Nat /\ Newest(Replayed) < nextSeq
    <2> SUFFICES ASSUME evs # {} PROVE Newest(Replayed) \in Nat /\ Newest(Replayed) < nextSeq
        OBVIOUS
    <2>1. DOMAIN Replayed # {}
        OBVIOUS
    <2>2. Replayed # <<>> /\ Len(Replayed) \in DOMAIN Replayed
        BY <1>2, <2>1, LenProperties, EmptySeq
    <2>3. PICK j \in DOMAIN ring : Replayed[Len(Replayed)] = ring[j]
        BY <1>2, <2>2
    <2>4. ring[j].seq < nextSeq /\ Replayed[Len(Replayed)].seq \in Nat
        BY <1>2, <2>2 DEF LogInv, Dated, Entry
    <2> QED BY <2>2, <2>3, <2>4 DEF Newest
<1> HIDE DEF evs
<1>9. \A x \in Nat, id \in Nat \ {0} : id \in UpTo(x) /\ l = "refresh" => Kept(id) \/ id \in evs
    <2> SUFFICES ASSUME NEW x \in Nat, NEW id \in Nat \ {0}, id \in UpTo(x), l = "refresh" PROVE Kept(id) \/ id \in evs
        OBVIOUS
    <2>1. PICK i \in DOMAIN ring : ring[i].kind = "file" /\ ring[i].id = id
        BY DEF UpTo
    <2>2. loader["boot"].pc = "idle" /\ persisted = disk /\ disk \notin {Absent, Torn} /\ seq = disk.ckpt
        BY <1>0, SavedIsReal DEF CalmInv, Shape, Booting, LoadersOK, TypesOK, seq
    <2>3. Lasting(seq)
        BY <2>2 DEF Lasting
    <2>4. ring[i].seq <= seq => id \in UpTo(seq)
        BY <2>1 DEF UpTo
    <2>5. ring[i].seq \in Nat
        BY LogIds
    <2> QED BY <1>1, <1>7, <2>1, <2>3, <2>4, <2>5 DEF CoveredIsKept, CalmInv
<1>10. l = "refresh" => \A id \in Happened : Kept(id) \/ id \in evs
    <2> SUFFICES ASSUME l = "refresh", NEW id \in Happened PROVE Kept(id) \/ id \in evs
        OBVIOUS
    <2>1. id \in state \/ id \in FileIds(ring)
        BY DEF CalmInv, RingIsEnough
    <2>2. id \in Nat \ {0}
        BY DEF Happened, LogInv
    <2>3. CASE id \in FileIds(ring)
        <3>1. PICK i \in DOMAIN ring : ring[i].kind = "file" /\ ring[i].id = id
            BY <2>3 DEF FileIds
        <3>2. ring[i].seq \in Nat
            BY LogIds
        <3>3. id \in UpTo(ring[i].seq)
            BY <3>1, <3>2 DEF UpTo
        <3> QED BY <2>2, <3>2, <3>3, <1>9
    <2> QED BY <2>1, <2>3 DEF Kept
<1>A. CASE evs = {}
    <2>1. loader' = [loader EXCEPT ![l].pc = "started"] /\ UNCHANGED <<waiting, ready>>
        BY <1>3, <1>A
    <2>2. /\ loader' = [k \in Loaders |-> [pc |-> loader'[k].pc, hadFiles |-> loader'[k].hadFiles, hadRuntime |-> loader'[k].hadRuntime]]
          /\ loader'[l].pc = "started" /\ \A k \in Loaders : k # l => loader'[k] = loader[k]
        BY <2>1 DEF CalmInv, Shape, TypesOK
    <2>3. TypesOK'
        BY <1>0, <2>1, <2>2 DEF TypesOK, CalmInv, Shape
    <2>4. Booting'
        BY <1>0, <1>5, <2>1, <2>2 DEF Booting, Loaders, CalmInv, Shape
    <2>5. LoadersOK'
        <3>1. At({"load"})' <=> At({"load"})
            BY <1>0, <2>2 DEF At
        <3> HIDE DEF At
        <3> QED BY <1>0, <1>5, <2>1, <2>2, <3>1 DEF LoadersOK, Loaders, CalmInv, Shape
    <2>6. CallersOK'
        BY <1>0, <1>5, <2>1, <2>2 DEF CallersOK, Loaders, CalmInv, Shape
    <2>7. StateOK'
        BY <1>0, <2>1 DEF StateOK, CalmInv, Shape
    <2>8. NoFutureMarks /\ KeepsAll
        BY <1>0, <2>1 DEF NoFutureMarks, Checkpoint, KeepsAll, Kept
    <2>9. CoversOnlyKept
        <3>1. CASE l = "refresh"
            <4>1. persisted = disk /\ persisted \in Saved
                BY <3>1, <1>0 DEF CalmInv, Shape, Booting, LoadersOK, TypesOK
            <4>2. disk \notin {Absent, Torn}
                BY <4>1, SavedIsReal
            <4> QED BY <4>1, <4>2, <3>1, <1>0, <2>1 DEF CoversOnlyKept, Lasting
        <3>2. CASE l = "boot"
            <4>1. Stale' <=> Stale
                BY <3>2, <1>0, <2>2 DEF Stale, Loaders
            <4> QED BY <4>1, <1>0, <2>1 DEF CoversOnlyKept, Lasting
        <3> QED BY <1>5, <3>1, <3>2 DEF Loaders
    <2>10. \A id \in Happened : Seen(id)'
        <3> SUFFICES ASSUME NEW id \in Happened PROVE Seen(id)'
            OBVIOUS
        <3>1. l = "refresh"
            BY <1>0, <1>5 DEF Loaders, CalmInv, Shape, Booting, Happened
        <3>2. Kept(id) /\ id \in Nat \ {0}
            BY <3>1, <1>10, <1>A DEF Happened, LogInv
        <3> QED BY <3>2, <2>8 DEF Seen, KeepsAll
    <2>11. Shape'
        BY <2>3, <2>4, <2>5, <2>6, <2>7 DEF Shape
    <2> QED BY <1>0, <2>8, <2>9, <2>10, <2>11, WithoutTheLog DEF logVars
<1>B. CASE evs # {}
    <2>1. /\ loader' = [loader EXCEPT ![l].pc = "replaying"] /\ Enter(call)
          /\ l = "refresh" /\ loader["refresh"].pc = "replay" /\ loader["boot"].pc = "idle" /\ loader["start"].pc = "idle"
        BY <1>0, <1>3, <1>5, <1>6, <1>B DEF Loaders, CalmInv, Shape, LoadersOK, Booting
    <2>2. /\ runtime /\ run = NoRun /\ reloading /\ persisted = disk
        <3>1. ~At({"load"})
            BY <2>1 DEF At, Loaders
        <3> HIDE DEF At
        <3> QED BY <2>1, <3>1 DEF CalmInv, Shape, LoadersOK
    <2>3. /\ call \in Call /\ call.by = "refresh" /\ call.evs = evs /\ call.ckpt \in Nat /\ call.ckpt < nextSeq
        BY <1>4, <1>8, <1>B, <2>1 DEF Call, CallOf, Loaders
    <2> HIDE DEF call
    <2>4. waiting' = waiting /\ ready' = {call}
        BY <1>0, <2>1, <2>2 DEF Enter, MustWait
    <2>5. /\ loader' = [k \in Loaders |-> [pc |-> loader'[k].pc, hadFiles |-> loader'[k].hadFiles, hadRuntime |-> loader'[k].hadRuntime]]
          /\ loader'["refresh"].pc = "replaying" /\ loader'["boot"] = loader["boot"] /\ loader'["start"] = loader["start"]
        <3>1. /\ loader' = [k \in Loaders |-> [pc |-> loader'[k].pc, hadFiles |-> loader'[k].hadFiles, hadRuntime |-> loader'[k].hadRuntime]]
              /\ loader'[l].pc = "replaying" /\ \A k \in Loaders : k # l => loader'[k] = loader[k]
            BY <2>1 DEF CalmInv, Shape, TypesOK
        <3> QED BY <2>1, <3>1 DEF Loaders
    <2>6. TypesOK'
        BY <1>0, <2>3, <2>4, <2>5 DEF TypesOK, CalmInv, Shape
    <2>7. Booting'
        BY <2>1, <2>5 DEF Booting
    <2>8. LoadersOK'
        <3>1. ~At({"load"})'
            BY <2>1, <2>5 DEF At, Loaders
        <3> HIDE DEF At
        <3> QED BY <1>0, <2>1, <2>2, <2>5, <3>1 DEF LoadersOK, CalmInv, Shape
    <2>9. CallersOK'
        BY <1>0, <2>1, <2>2, <2>3, <2>4, <2>5 DEF CallersOK, CalmInv, Shape
    <2>10. StateOK'
        BY <1>0 DEF StateOK, CalmInv, Shape
    <2>11. NoFutureMarks
        BY <1>0, <2>3, <2>4 DEF NoFutureMarks, Checkpoint
    <2>12. KeepsAll
        BY <1>0, <2>4 DEF KeepsAll, Kept
    <2>13. \A id \in evs : Kept(id)'
        BY <1>0, <2>2, <2>3, <2>4 DEF Kept
    <2>14. CoversOnlyKept
        <3> SUFFICES ASSUME NEW x \in Nat, Lasting(x)', ~Lasting(x), NEW id \in UpTo(x), id # 0 PROVE Kept(id)'
            BY DEF CoversOnlyKept
        <3>1. id \in Nat \ {0}
            BY LogIds DEF LogInv
        <3>2. Kept(id) \/ id \in evs
            BY <3>1, <2>1, <1>9
        <3> QED BY <3>1, <3>2, <2>12, <2>13 DEF KeepsAll
    <2>15. \A id \in Happened : Seen(id)'
        <3> SUFFICES ASSUME NEW id \in Happened PROVE Seen(id)'
            OBVIOUS
        <3>1. id \in Nat \ {0} /\ (Kept(id) \/ id \in evs)
            BY <2>1, <1>10 DEF Happened, LogInv
        <3> QED BY <3>1, <2>12, <2>13 DEF Seen, KeepsAll
    <2>16. Shape'
        BY <2>6, <2>7, <2>8, <2>9, <2>10 DEF Shape
    <2> QED BY <1>0, <2>11, <2>12, <2>14, <2>15, <2>16, WithoutTheLog DEF logVars
<1> QED BY <1>A, <1>B

LEMMA StartedCalm ==
    ASSUME LogInv, CalmInv, NEW l \in Loaders, Started(l)
    PROVE  CalmInv'
<1>0. /\ UNCHANGED <<ring, file, nextSeq, toDrain, happened, state, persisted, disk, saving, runtime, run, pending, flushes,
                     waiting, ready, promise, timer, retry, reloading>>
      /\ ready = {} /\ loader[l].pc = "started"
      /\ loader' = [loader EXCEPT ![l].pc = IF l = "refresh" THEN "files" ELSE "idle"]
    BY DEF Started, logVars, diskVars, reloadVars, queueVars, ghostVars
<1>1. l # "start"
    BY <1>0 DEF CalmInv, Shape, LoadersOK
<1>2. /\ loader' = [k \in Loaders |-> [pc |-> loader'[k].pc, hadFiles |-> loader'[k].hadFiles, hadRuntime |-> loader'[k].hadRuntime]]
      /\ loader'[l].pc = (IF l = "refresh" THEN "files" ELSE "idle") /\ \A k \in Loaders : k # l => loader'[k] = loader[k]
    BY <1>0 DEF CalmInv, Shape, TypesOK
<1>3. TypesOK'
    BY <1>0, <1>2 DEF TypesOK, CalmInv, Shape
<1>4. Booting'
    BY <1>0, <1>1, <1>2 DEF Booting, Loaders, CalmInv, Shape
<1>5. LoadersOK'
    <2>1. At({"load"})' <=> At({"load"})
        BY <1>0, <1>2 DEF At
    <2> HIDE DEF At
    <2> QED BY <1>0, <1>1, <1>2, <2>1 DEF LoadersOK, Loaders, CalmInv, Shape
<1>6. CallersOK'
    BY <1>0, <1>1, <1>2 DEF CallersOK, Loaders, CalmInv, Shape
<1>7. StateOK'
    BY <1>0 DEF StateOK, CalmInv, Shape
<1>8. Stale' <=> Stale
    BY <1>0, <1>1, <1>2 DEF Stale, Loaders
<1>9. NoFutureMarks /\ KeepsAll
    BY <1>0 DEF NoFutureMarks, Checkpoint, KeepsAll, Kept
<1>10. CoversOnlyKept
    BY <1>0, <1>8 DEF CoversOnlyKept, Lasting
<1>11. ~Stale' => \A id \in Happened : Seen(id)'
    BY <1>0, <1>8 DEF CalmInv, NoneDropped, Seen, Kept, FileIds
<1>12. Shape'
    BY <1>3, <1>4, <1>5, <1>6, <1>7 DEF Shape
<1> QED BY <1>0, <1>9, <1>10, <1>11, <1>12, WithoutTheLog DEF logVars

LEMMA AnnounceCalm == LogInv /\ CalmInv /\ AnnounceFiles => CalmInv'
<1> SUFFICES ASSUME LogInv, CalmInv, AnnounceFiles PROVE CalmInv'
    OBVIOUS
<1> DEFINE call == CallOf({0}, 0, "refresh")
<1>0. /\ UNCHANGED <<ring, file, nextSeq, toDrain, happened, state, persisted, disk, saving, runtime, run, pending, flushes,
                     waiting, promise, timer, retry, reloading>>
      /\ ready = {} /\ ready' = {call} /\ loader["refresh"].pc = "files"
      /\ loader' = [loader EXCEPT !["refresh"].pc = "announcing"]
    BY DEF AnnounceFiles, Quiet, logVars, diskVars, reloadVars, ghostVars
<1>1. call \in Call /\ call.ckpt = 0 /\ call.by = "refresh"
    BY DEF CallOf, Call, Loaders
<1> HIDE DEF call
<1>2. /\ loader' = [k \in Loaders |-> [pc |-> loader'[k].pc, hadFiles |-> loader'[k].hadFiles, hadRuntime |-> loader'[k].hadRuntime]]
      /\ loader'["refresh"].pc = "announcing" /\ loader'["boot"] = loader["boot"] /\ loader'["start"] = loader["start"]
    <2>1. "refresh" \in Loaders /\ "boot" \in Loaders /\ "start" \in Loaders
        BY DEF Loaders
    <2>2. /\ loader' = [k \in Loaders |-> [pc |-> loader'[k].pc, hadFiles |-> loader'[k].hadFiles, hadRuntime |-> loader'[k].hadRuntime]]
          /\ loader'["refresh"].pc = "announcing" /\ \A k \in Loaders : k # "refresh" => loader'[k] = loader[k]
        BY <1>0, <2>1 DEF CalmInv, Shape, TypesOK
    <2> QED BY <2>1, <2>2
<1>3. loader["boot"].pc = "idle"
    BY <1>0 DEF CalmInv, Shape, Booting
<1>4. TypesOK'
    BY <1>0, <1>1, <1>2 DEF TypesOK, CalmInv, Shape
<1>5. Booting'
    BY <1>2, <1>3 DEF Booting
<1>6. LoadersOK'
    <2>1. At({"load"})' <=> At({"load"})
        BY <1>0, <1>2 DEF At, Loaders
    <2> HIDE DEF At
    <2> QED BY <1>0, <1>2, <1>3, <2>1 DEF LoadersOK, CalmInv, Shape
<1>7. CallersOK'
    BY <1>0, <1>1, <1>2, <1>3 DEF CallersOK, CalmInv, Shape
<1>8. StateOK'
    BY <1>0 DEF StateOK, CalmInv, Shape
<1>9. ~Stale /\ ~Stale'
    BY <1>0, <1>2 DEF Stale
<1>10. NoFutureMarks /\ KeepsAll
    BY <1>0, <1>1 DEF NoFutureMarks, Checkpoint, KeepsAll, Kept, LogInv
<1>11. CoversOnlyKept
    <2>1. UpTo(0) = {}
        BY LogIds DEF UpTo
    <2> QED BY <1>0, <1>1, <1>9, <2>1 DEF CoversOnlyKept, Lasting
<1>12. \A id \in Happened : Seen(id)'
    BY <1>0, <1>9 DEF CalmInv, NoneDropped, Seen, Kept, FileIds
<1>13. Shape'
    BY <1>4, <1>5, <1>6, <1>7, <1>8 DEF Shape
<1> QED BY <1>0, <1>10, <1>11, <1>12, <1>13, WithoutTheLog DEF logVars

LEMMA EndReloadCalm == LogInv /\ CalmInv /\ EndReload => CalmInv'
<1> SUFFICES ASSUME LogInv, CalmInv, EndReload PROVE CalmInv'
    OBVIOUS
<1>0. /\ UNCHANGED <<ring, file, nextSeq, toDrain, happened, state, persisted, disk, saving, runtime, run, pending, flushes, timer>>
      /\ ready = {} /\ ready' = waiting /\ waiting' = {} /\ loader["refresh"].pc = "end"
      /\ loader' = [loader EXCEPT !["refresh"] = Idle] /\ reloading' = FALSE /\ promise' = FALSE
    BY DEF EndReload, logVars, diskVars, ghostVars
<1>1. /\ loader' = [k \in Loaders |-> [pc |-> loader'[k].pc, hadFiles |-> loader'[k].hadFiles, hadRuntime |-> loader'[k].hadRuntime]]
      /\ loader'["refresh"].pc = "idle" /\ loader'["boot"] = loader["boot"] /\ loader'["start"] = loader["start"]
    BY <1>0 DEF Loaders, Idle, CalmInv, Shape, TypesOK
<1>2. loader["boot"].pc = "idle"
    BY <1>0 DEF CalmInv, Shape, Booting
<1>3. At({"load"})' <=> At({"load"})
    BY <1>0, <1>1 DEF At, Loaders
<1>4. runtime
    BY <1>0, <1>2 DEF CalmInv, Shape, LoadersOK, At, Loaders
<1>5. TypesOK'
    BY <1>0, <1>1 DEF TypesOK, CalmInv, Shape
<1>6. Booting'
    BY <1>1, <1>2 DEF Booting
<1>7. LoadersOK'
    <2> HIDE DEF At
    <2> QED BY <1>0, <1>1, <1>2, <1>3 DEF LoadersOK, CalmInv, Shape
<1>8. CallersOK'
    BY <1>0, <1>1, <1>2 DEF CallersOK, CalmInv, Shape
<1>9. StateOK'
    BY <1>0 DEF StateOK, CalmInv, Shape
<1>10. ~Stale
    BY <1>0 DEF Stale
<1>11. NoFutureMarks /\ KeepsAll
    BY <1>0, <1>4 DEF NoFutureMarks, Checkpoint, KeepsAll, Kept
<1>12. CoversOnlyKept
    BY <1>0, <1>10 DEF CoversOnlyKept, Lasting
<1>13. \A id \in Happened : Seen(id)'
    BY <1>0, <1>4, <1>10 DEF CalmInv, NoneDropped, Seen, Kept, FileIds
<1>14. Shape'
    BY <1>5, <1>6, <1>7, <1>8, <1>9 DEF Shape
<1> QED BY <1>0, <1>11, <1>12, <1>13, <1>14, WithoutTheLog DEF logVars

LEMMA InitCalm == Init => CalmInv
<1> SUFFICES ASSUME Init PROVE CalmInv
    OBVIOUS
<1>0. /\ ring = <<>> /\ toDrain = <<>> /\ nextSeq = 1
      /\ happened = 0 /\ state = {} /\ persisted = Absent /\ disk = Absent /\ saving = Absent
      /\ runtime = FALSE /\ run = NoRun /\ pending = {} /\ flushes = {} /\ waiting = {} /\ ready = {}
      /\ promise = FALSE /\ timer = FALSE /\ retry = FALSE /\ reloading = FALSE
      /\ loader = [l \in Loaders |-> IF l = "boot" THEN [Idle EXCEPT !.pc = "load"] ELSE Idle]
    BY DEF Init, LogInit
<1>1. /\ loader["boot"].pc = "load" /\ loader["start"].pc = "idle" /\ loader["refresh"].pc = "idle"
      /\ loader = [l \in Loaders |-> [pc |-> loader[l].pc, hadFiles |-> loader[l].hadFiles, hadRuntime |-> loader[l].hadRuntime]]
    <2>1. loader = [l \in Loaders |-> [pc |-> IF l = "boot" THEN "load" ELSE "idle", hadFiles |-> FALSE, hadRuntime |-> FALSE]]
        <3>1. \A l \in Loaders : (IF l = "boot" THEN [Idle EXCEPT !.pc = "load"] ELSE Idle)
                   = [pc |-> IF l = "boot" THEN "load" ELSE "idle", hadFiles |-> FALSE, hadRuntime |-> FALSE]
            BY DEF Idle
        <3> QED BY <1>0, <3>1
    <2>2. \A l \in Loaders : loader[l].pc = (IF l = "boot" THEN "load" ELSE "idle") /\ loader[l].hadFiles = FALSE /\ loader[l].hadRuntime = FALSE
        BY <2>1
    <2>3. loader = [l \in Loaders |-> [pc |-> loader[l].pc, hadFiles |-> loader[l].hadFiles, hadRuntime |-> loader[l].hadRuntime]]
        BY <2>1, <2>2
    <2> QED BY <2>2, <2>3 DEF Loaders
<1>2. DOMAIN <<>> = {}
    BY EmptySeq, LenProperties
<1>3. run.stage = "none"
    BY <1>0 DEF NoRun
<1>4. TypesOK
    BY <1>0, <1>1, <1>3 DEF TypesOK
<1>5. Booting
    BY <1>0, <1>1, <1>2 DEF Booting
<1>6. LoadersOK
    <2>1. At({"load"})
        BY <1>1 DEF At, Loaders
    <2> HIDE DEF At
    <2> QED BY <1>0, <1>1, <2>1 DEF LoadersOK
<1>7. CallersOK /\ StateOK
    BY <1>0, <1>3 DEF CallersOK, StateOK
<1>8. CheckpointsArePast /\ CoveredIsKept
    BY <1>0, <1>3 DEF CheckpointsArePast, Checkpoint, CoveredIsKept, Lasting
<1>9. RingIsEnough /\ NoneDropped
    BY <1>0 DEF RingIsEnough, NoneDropped, Happened
<1> QED BY <1>4, <1>5, <1>6, <1>7, <1>8, <1>9 DEF CalmInv, Shape

LEMMA LossStep == LossInv /\ [Next]_vars => LossInv'
<1> SUFFICES ASSUME LossInv, [Next]_vars, calm' PROVE CalmInv'
    BY LogStep DEF LossInv
<1>0. LogInv /\ LogInv' /\ (calm => CalmInv)
    BY LogStep DEF LossInv
<1>1. ASSUME NEW call \in ready, Proceed(call) PROVE CalmInv'
    <2>1. \E other : calm' = (calm /\ other)
        BY <1>1, Zenon DEF Proceed
    <2>2. calm
        BY <2>1, Zenon
    <2> QED BY <1>0, <1>1, <2>2, ProceedCalm
<1>2. ASSUME SaveEnds PROVE CalmInv'
    <2>1. calm' = (calm /\ RingSuffices)
        BY <1>2 DEF SaveEnds
    <2>2. calm
        BY <2>1, Zenon
    <2> QED BY <1>0, <1>2, <2>2, SaveEndsCalm
<1>2a. ASSUME RulesThrow PROVE CalmInv'
    <2>1. calm' = (calm /\ persisted # Absent /\ run.call.evs \ {0} \subseteq state)
        BY <1>2a DEF RulesThrow
    <2>2. calm
        BY <2>1, Zenon
    <2> QED BY <1>0, <1>2a, <2>2, RulesThrowCalm
<1>2b. ASSUME SchedulePrunes PROVE CalmInv'
    <2>1. calm' = (calm /\ ~At({"read"}))
        BY <1>2b DEF SchedulePrunes
    <2>2. calm
        BY <2>1, Zenon
    <2> QED BY <1>0, <1>2b, <2>2, PrunesCalm
<1>2c. ASSUME SchedulerSaved PROVE CalmInv'
    <2>1. calm
        BY <1>2c DEF SchedulerSaved
    <2> QED BY <1>0, <1>2c, <2>1, SchedulerSavedCalm
<1>3. ASSUME RulesEnd \/ ScheduleFires \/ ManualEvent \/ Hold \/ Release PROVE CalmInv'
    <2>1. calm
        BY <1>3 DEF RulesEnd, ScheduleFires, ManualEvent, Hold, Release, ghostVars, diskVars
    <2> QED BY <1>0, <1>3, <2>1, RulesEndCalm, ScheduleCalm, ManualCalm, HoldCalm, ReleaseCalm
<1>4. ASSUME NEW batch \in flushes, FlushTimer(batch) PROVE CalmInv'
    <2>1. calm
        BY <1>4 DEF FlushTimer, ghostVars, diskVars
    <2> QED BY <1>0, <1>4, <2>1, FlushTimerCalm
<1>5. ASSUME NEW kind \in Kinds, Change(kind) PROVE CalmInv'
    <2>1. calm' = (calm /\ RingSuffices)
        BY <1>5 DEF Change
    <2>2. calm
        BY <2>1, Zenon
    <2> QED BY <1>0, <1>5, <2>2, ChangeCalm
<1>6. ASSUME DropDuplicate \/ UserStart \/ Crash PROVE FALSE
    <2>1. calm' = FALSE
        BY <1>6 DEF DropDuplicate, UserStart, Crash
    <2> QED BY <2>1, Zenon
<1>7. ASSUME Drain PROVE CalmInv'
    <2>1. calm
        BY <1>7 DEF Drain, ghostVars, diskVars
    <2> QED BY <1>0, <1>7, <2>1, DrainCalm
<1>8. ASSUME Compact PROVE CalmInv'
    <2>1. calm' = (calm /\ RingSuffices)
        BY <1>8 DEF Compact
    <2>2. calm
        BY <2>1, Zenon
    <2> QED BY <1>0, <1>8, <2>2, CompactCalm
<1>9. ASSUME ReloadTimer \/ RetryTimer \/ AnnounceFiles \/ EndReload PROVE CalmInv'
    <2>1. calm
        BY <1>9 DEF ReloadTimer, RetryTimer, AnnounceFiles, EndReload, ghostVars, diskVars
    <2> QED BY <1>0, <1>9, <2>1, ReloadTimerCalm, RetryTimerCalm, AnnounceCalm, EndReloadCalm
<1>10. ASSUME NEW l \in Loaders, NEW found, LoadDefinitions(l, found) PROVE CalmInv'
    <2>1. calm' = (calm /\ found = "definitions")
        BY <1>10 DEF LoadDefinitions
    <2>2. calm
        BY <2>1, Zenon
    <2> QED BY <1>0, <1>10, <2>2, LoadCalm
<1>11. ASSUME NEW l \in Loaders, NEW read \in Readable, ReadState(l, read) PROVE CalmInv'
    <2>1. calm' = (calm /\ run = NoRun /\ Current(read))
        BY <1>11 DEF ReadState
    <2>2. calm
        BY <2>1, Zenon
    <2> QED BY <1>0, <1>11, <2>2, ReadCalm
<1>12. ASSUME NEW l \in Loaders, Replay(l) \/ Started(l) PROVE CalmInv'
    <2>1. calm
        BY <1>12 DEF Replay, Started, ghostVars, diskVars
    <2> QED BY <1>0, <1>12, <2>1, ReplayCalm, StartedCalm
<1>13. ASSUME UNCHANGED vars PROVE CalmInv'
    <2>1. calm /\ UNCHANGED concerns
        BY <1>13 DEF vars, logVars, diskVars, reloadVars, queueVars, memoryVars, ghostVars, concerns
    <2> QED BY <1>0, <2>1, NothingChanges
<1>14. ASSUME Invocation PROVE CalmInv'
    BY <1>14, <1>1, <1>2, <1>2a, <1>3, <1>4 DEF Invocation
<1>15. ASSUME Loading PROVE CalmInv'
    BY <1>15, <1>9, <1>10, <1>11, <1>12 DEF Loading
<1>16. ASSUME Input PROVE CalmInv'
    BY <1>16, <1>2b, <1>3, <1>5, <1>6 DEF Input
<1> QED BY <1>2c, <1>6, <1>7, <1>8, <1>13, <1>14, <1>15, <1>16 DEF Next

LEMMA LogIsTyped == LogInv => LogTypeOK
<1> SUFFICES ASSUME LogInv PROVE LogTypeOK
    OBVIOUS
<1>1. \A log \in {ring, file, toDrain} : \A i \in DOMAIN log : log[i] \in Entry
    <2> SUFFICES ASSUME NEW log \in {ring, file, toDrain}, NEW i \in DOMAIN log PROVE log[i] \in Entry
        OBVIOUS
    <2>1. log \in Seq(Entry)
        BY DEF LogInv, Dated
    <2> QED BY <2>1, LenProperties, ElementOfSeq
<1>2. \A i \in DOMAIN ring : ring[i].seq < nextSeq
    BY DEF LogInv, Dated
<1> QED BY <1>1, <1>2 DEF LogTypeOK, LogInv, Entry, Sorted

\* What nobody has in hand is in the ring above the checkpoint, where the reload that
\* is about to read the state will find it.
LEMMA WhatIsOut == LogInv /\ CalmInv => Happened \subseteq state \union InHand \union Due
<1> SUFFICES ASSUME LogInv, CalmInv, NEW id \in Happened PROVE id \in state \union InHand \union Due
    OBVIOUS
<1>1. Seen(id) => id \in state \union InHand
    <2>1. (\E c \in waiting \union ready : id \in c.evs) => id \in UNION {c.evs : c \in waiting \union ready}
        OBVIOUS
    <2>2. (\E batch \in flushes : id \in batch) => id \in UNION flushes
        OBVIOUS
    <2> DEFINE F == FileIds(toDrain)
               B == UNION flushes
               C == UNION {c.evs : c \in waiting \union ready}
               R == IF run.stage = "rules" THEN run.call.evs ELSE {}
    <2>3. InHand = F \union pending \union B \union C \union R
        BY DEF InHand
    <2>4. run.stage = "rules" /\ id \in run.call.evs => id \in R
        OBVIOUS
    <2> HIDE DEF F, B, C, R
    <2>5. id \in F \/ id \in B \/ id \in C \/ id \in pending \/ id \in R => id \in InHand
        BY <2>3
    <2>6. (\E c \in ready : id \in c.evs) \/ (\E c \in waiting : id \in c.evs) => id \in C
        BY <2>1 DEF C
    <2> QED BY <2>2, <2>4, <2>5, <2>6 DEF Seen, Kept, F, B
<1>2. CASE ~Stale
    BY <1>1, <1>2 DEF CalmInv, NoneDropped
<1>3. CASE Stale
    <2>1. /\ loader["refresh"].pc \in {"load", "read", "replay"} /\ loader["boot"].pc = "idle"
          /\ loader["start"].pc = "idle"
        BY <1>3 DEF Stale, CalmInv, Shape, Booting, LoadersOK
    <2>2. disk.ckpt \in Int /\ (disk \in {Absent, Torn} => disk.ckpt < 0)
        BY DEF CalmInv, Shape, TypesOK, Saved, Absent, Torn
    <2>3. Due = Above(disk.ckpt)
        <3>1. CASE loader["refresh"].pc \in {"load", "read"}
            BY <3>1 DEF Due, At, Loaders
        <3>2. CASE loader["refresh"].pc = "replay"
            <4>1. ~At({"load", "read"}) /\ At({"init", "replay"}) /\ persisted = disk
                BY <3>2, <2>1 DEF At, Loaders, CalmInv, Shape, LoadersOK
            <4> QED BY <4>1 DEF Due
        <3> QED BY <2>1, <3>1, <3>2
    <2>4. CASE id \in FileIds(ring)
        <3>1. PICK i \in DOMAIN ring : ring[i].kind = "file" /\ ring[i].id = id
            BY <2>4 DEF FileIds
        <3>2. ring[i].seq \in Nat
            BY LogIds
        <3>3. CASE ring[i].seq > disk.ckpt
            BY <3>1, <3>3, <2>3 DEF Above
        <3>4. CASE ring[i].seq <= disk.ckpt
            <4>1. id \in UpTo(disk.ckpt)
                BY <3>1, <3>4 DEF UpTo
            <4>2. disk \notin {Absent, Torn} /\ disk.ckpt \in Nat
                BY <3>2, <3>4, <2>2, SavedIsReal DEF CalmInv, Shape, TypesOK
            <4>3. Lasting(disk.ckpt)
                BY <4>2 DEF Lasting
            <4> QED BY <4>1, <4>2, <4>3, <1>1 DEF Seen, CalmInv, CoveredIsKept
        <3> QED BY <2>2, <3>2, <3>3, <3>4
    <2> QED BY <2>4 DEF CalmInv, RingIsEnough
<1> QED BY <1>2, <1>3

\* As long as nothing disturbs the manager in the ways that are known to lose events
\* (the steps that end `calm`), every reported change is in the workflow state, in
\* memory, or in the log where the reload in progress will find it; and the numbers of
\* the log, which drain, replay and compaction go by, increase whatever happens.
THEOREM NothingIsEverLost == Spec => []NothingIsLost
<1>1. Init => LossInv
    BY InitLog, InitCalm DEF LossInv
<1>2. LossInv => NothingIsLost
    BY LogIsTyped, WhatIsOut DEF LossInv, NothingIsLost
<1> QED BY <1>1, <1>2, LossStep, PTL DEF Spec

===============================================================================
