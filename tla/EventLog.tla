------------------------------- MODULE EventLog -------------------------------
(***************************************************************************)
(* The event log of a project worker (event-log.ts): a ring of entries in  *)
(* memory, the JSONL file behind it, and the batch that waits for the      *)
(* drain timer.  An entry is [seq, id, kind, src]: `id` says which change  *)
(* it reports and `kind` what kind of path changed, which is also the      *)
(* deduplication key (one path of each kind).  Audit entries have id 0.    *)
(* Each operator gives the next values of all the variables of the log;    *)
(* the manager that owns the log says when.                                *)
(***************************************************************************)
EXTENDS Integers, Sequences, FiniteSets

CONSTANTS
    MaxEntries,   \* MAX_ENTRIES: size of the ring
    Retain        \* COMPACT_RETAIN: entries kept below the checkpoint

ASSUME LogBounds == MaxEntries \in Nat \ {0} /\ Retain \in Nat

VARIABLES
    ring,      \* entries, in memory
    file,      \* the JSONL file
    nextSeq,   \* in memory; recomputed from the file
    toDrain    \* pendingDrain; the drain timer is armed iff it is not empty

logVars == <<ring, file, nextSeq, toDrain>>

Kinds == {"file", "automation"}
Sources == {"external", "workflow-emit"}

Newest(log) == IF log = <<>> THEN 0 ELSE log[Len(log)].seq

\* The numbers of the ring increase (LogTypeOK): the entries above one are its end.
FirstAbove(seq) ==
    CHOOSE i \in 1..Len(ring) + 1 :
        /\ \A j \in 1..i - 1 : ring[j].seq <= seq
        /\ i <= Len(ring) => ring[i].seq > seq
Since(seq) == SubSeq(ring, FirstAbove(seq), Len(ring))

Trimmed(log) == SubSeq(log, IF Len(log) > MaxEntries THEN Len(log) - MaxEntries + 1 ELSE 1, Len(log))

LogInit ==
    /\ ring = <<>> /\ file = <<>> /\ toDrain = <<>>
    /\ nextSeq = 1

\* append drops the watcher's report of a path that REST reported lately.  Which of
\* the two reported an entry, and whether the five seconds are over, is left open.
Suppressible(kind) == \E i \in DOMAIN ring : ring[i].kind = kind /\ ring[i].src = "external"

LogAppend(id, kind) ==
    LET entry == [seq |-> nextSeq, id |-> id, kind |-> kind, src |-> "external"]
    IN  /\ ring' = Trimmed(Append(ring, entry))
        /\ file' = Append(file, entry)
        /\ nextSeq' = nextSeq + 1
        /\ toDrain' = Append(toDrain, entry)

\* An audit entry takes a sequence number but never reaches the file by itself.
LogRecord ==
    /\ ring' = Trimmed(Append(ring, [seq |-> nextSeq, id |-> 0, kind |-> "automation", src |-> "workflow-emit"]))
    /\ nextSeq' = nextSeq + 1
    /\ UNCHANGED <<file, toDrain>>

\* autoCompact and compact: the ring, audit entries included, replaces the file.
RetainFrom == Newest(ring) - Retain - Retain
LogCompact ==
    LET retained == Since(RetainFrom)
    IN  /\ retained # ring
        /\ ring' = retained
        /\ file' = retained
        /\ UNCHANGED <<nextSeq, toDrain>>

LogDrain ==
    /\ toDrain # <<>>
    /\ toDrain' = <<>>
    /\ UNCHANGED <<ring, file, nextSeq>>

\* Mutant: the next number is the number of lines.
LogReloadCounting ==
    /\ ring' = Trimmed(file)
    /\ nextSeq' = Len(file) + 1
    /\ toDrain' = <<>>
    /\ UNCHANGED file

\* initialize in a new process.
LogReload ==
    /\ ring' = Trimmed(file)
    /\ nextSeq' = Newest(file) + 1
    /\ toDrain' = <<>>
    /\ UNCHANGED file

\* The log's types; numbers are unique and increase, and the next one is new.
LogTypeOK ==
    /\ \A log \in {ring, file, toDrain} : \A i \in DOMAIN log :
          /\ log[i].seq \in Nat /\ log[i].id \in Nat
          /\ log[i].kind \in Kinds /\ log[i].src \in Sources
    /\ Len(ring) <= MaxEntries
    /\ nextSeq \in Nat
    /\ \A i, j \in DOMAIN ring : i < j => ring[i].seq < ring[j].seq
    /\ \A i \in DOMAIN ring : ring[i].seq < nextSeq

===============================================================================
