-------------------------------- MODULE S3Sync --------------------------------
(***************************************************************************)
(* The files of one project and their copy in S3: the download when a      *)
(* worker starts on an empty directory (project-context.ts), syncToS3 with *)
(* its manifest (s3-sync.ts) and the scheduler that runs it, under edits,  *)
(* failing requests, shutdowns, crashes and the loss of the volume.        *)
(*                                                                         *)
(* The download copies bytes; the sync reads every file as UTF-8, hashes   *)
(* and puts the text.  A text stands for its hash.  Paths are those the    *)
(* exclude patterns let through.                                           *)
(***************************************************************************)
EXTENDS Naturals, FiniteSets

CONSTANTS
    Paths, Contents,
    Text,        \* what is left of a content read as UTF-8: another one if it is binary
    MaxEdits,    \* bound: edits
    MaxFaults,   \* bound: requests and reads that fail
    MaxStops     \* bound: crashes, shutdowns and lost volumes

ASSUME SyncBounds == {MaxEdits, MaxFaults, MaxStops} \subseteq Nat

None == "none"
Partial == "partial"          \* what a download that broke off leaves
Hashes == Contents \union {None, Partial}
ASSUME ContentsAreNew == Contents \intersect {None, Partial} = {}
ASSUME TextIsRead == Text \in [Contents -> Contents] /\ \A c \in Contents : Text[Text[c]] = Text[c]

\* What readFile(file, 'utf-8') makes of a file.
Read(c) == IF c \in Contents THEN Text[c] ELSE c

VARIABLES
    worker,    \* "down", "initial", "running", "stopping"
    local,     \* the project's directory
    s3,
    manifest,  \* .antimatter-sync.json; what does not parse is empty
    onDisk,    \* that file exists
    stage,     \* of the sync in progress, or "idle"
    todo,      \* paths left to do in this stage
    base,      \* the manifest it read
    seen,      \* the hashes of its walk
    body,      \* the contents read for its requests in flight
    new,       \* the manifest it will write
    awaited,   \* shutdown() waits for it
    skipped,   \* ghost: paths its walk could not read
    edited,    \* ghost: paths somebody wrote or deleted
    doubtful,  \* ghost: paths whose entry in the manifest may be wrong
    edits, faults, stops   \* counts for the bounds

ghostVars == <<edited, doubtful>>
boundVars == <<edits, faults, stops>>
fileVars == <<local, s3, manifest, onDisk>>
syncVars == <<stage, todo, base, seen, body, new, skipped>>
vars == <<worker, fileVars, syncVars, awaited, ghostVars, boundVars>>

Nothing == [p \in Paths |-> None]
Present(files) == {p \in Paths : files[p] # None}

Blank == base' = Nothing /\ seen' = Nothing /\ body' = Nothing /\ new' = Nothing /\ skipped' = {}
NoSync == stage' = "idle" /\ todo' = {} /\ Blank

\* The projects are in S3 when a worker first meets them.
Init ==
    /\ worker = "down" /\ s3 \in [Paths -> Contents \union {None}]
    /\ local = Nothing /\ manifest = Nothing /\ onDisk = FALSE
    /\ stage = "idle" /\ todo = {} /\ awaited = FALSE
    /\ base = Nothing /\ seen = Nothing /\ body = Nothing /\ new = Nothing
    /\ skipped = {} /\ edited = {} /\ doubtful = {}
    /\ edits = 0 /\ faults = 0 /\ stops = 0

Fault == faults < MaxFaults /\ faults' = faults + 1 /\ UNCHANGED <<edits, stops>>
Stop == stops < MaxStops /\ stops' = stops + 1 /\ UNCHANGED <<edits, faults>>

-----------------------------------------------------------------------------
(* initialSyncFromS3 *)

\* A directory with any entry of the user, the manifest included, is left alone.
Start ==
    /\ worker = "down"
    /\ IF Present(local) # {} \/ onDisk
         THEN worker' = "running" /\ UNCHANGED <<stage, todo>>
         ELSE worker' = "initial" /\ stage' = "download" /\ todo' = Present(s3)
    /\ UNCHANGED <<fileVars, base, seen, body, new, skipped, awaited, ghostVars, boundVars>>

Download(p) ==
    /\ stage = "download" /\ p \in todo
    /\ local' = [local EXCEPT ![p] = s3[p]]
    /\ todo' = todo \ {p}
    /\ UNCHANGED <<worker, s3, manifest, onDisk, stage, base, seen, body, new, skipped, awaited, ghostVars, boundVars>>

DownloadEnds ==
    /\ stage = "download" /\ todo = {}
    /\ worker' = "running"
    /\ NoSync
    /\ UNCHANGED <<fileVars, awaited, ghostVars, boundVars>>

\* The file that was being written stays as it is.
BrokenOff(files) ==
    {files} \union {[files EXCEPT ![p] = Partial] : p \in todo}

\* Any error ends the loop; the worker goes on with what it has.
DownloadFails ==
    /\ stage = "download" /\ todo # {}
    /\ Fault
    /\ local' \in BrokenOff(local)
    /\ worker' = "running"
    /\ NoSync
    /\ UNCHANGED <<s3, manifest, onDisk, awaited, ghostVars>>

-----------------------------------------------------------------------------
(* Edits *)

Edit(p, content) ==
    /\ worker = "running" /\ edits < MaxEdits /\ content # local[p]
    /\ edits' = edits + 1
    /\ local' = [local EXCEPT ![p] = content]
    /\ edited' = edited \union {p}
    /\ UNCHANGED <<worker, s3, manifest, onDisk, syncVars, awaited, doubtful, faults, stops>>

-----------------------------------------------------------------------------
(* syncToS3 *)

Begin ==
    /\ stage' = "walk" /\ todo' = Paths /\ base' = manifest
    /\ seen' = Nothing /\ body' = Nothing /\ new' = Nothing /\ skipped' = {}

\* Every 30 s, and after a bulk change; sync() returns at once while one is running.
SyncBegins ==
    /\ worker = "running" /\ stage = "idle"
    /\ Begin
    /\ UNCHANGED <<worker, fileVars, awaited, ghostVars, boundVars>>

Walk(p) ==
    /\ stage = "walk" /\ p \in todo
    /\ todo' = todo \ {p} /\ seen' = [seen EXCEPT ![p] = Read(local[p])]
    /\ UNCHANGED <<worker, fileVars, stage, base, body, new, skipped, awaited, ghostVars, boundVars>>

\* A file, or a directory, that cannot be read is skipped, as if it were not there.
WalkFails(p) ==
    /\ stage = "walk" /\ p \in todo /\ local[p] # None
    /\ Fault
    /\ todo' = todo \ {p}
    /\ skipped' = skipped \union {p}
    /\ UNCHANGED <<worker, fileVars, stage, base, seen, body, new, awaited, ghostVars>>

\* Mutant: what the manifest knows is not uploaded again.
ToUploadNew == {p \in Present(seen) : base[p] = None}
ToUpload == {p \in Present(seen) : base[p] # seen[p]}

\* Mutant: what is to be deleted is what S3 has and the walk did not see.
ToDeleteByListing == Present(s3) \ Present(seen)
ToDelete == Present(base) \ Present(seen)

WalkEnds ==
    /\ stage = "walk" /\ todo = {}
    /\ stage' = "upload" /\ todo' = ToUpload
    /\ new' = [p \in Paths |-> IF p \in ToUpload THEN None ELSE seen[p]]
    /\ UNCHANGED <<worker, fileVars, base, seen, body, skipped, awaited, ghostVars, boundVars>>

\* The content is read again for the request; it may have changed, or be gone.
ReadBody(p) ==
    /\ stage = "upload" /\ p \in todo /\ body[p] = None
    /\ IF local[p] = None THEN todo' = todo \ {p} /\ UNCHANGED body
                          ELSE body' = [body EXCEPT ![p] = Read(local[p])] /\ UNCHANGED todo
    /\ UNCHANGED <<worker, fileVars, stage, base, seen, new, skipped, awaited, ghostVars, boundVars>>

InFlight(p) == stage = "upload" /\ p \in todo /\ body[p] # None

\* The manifest gets the hash of the walk.
Put(p) ==
    /\ InFlight(p)
    /\ s3' = [s3 EXCEPT ![p] = body[p]]
    /\ todo' = todo \ {p} /\ new' = [new EXCEPT ![p] = seen[p]]
    /\ UNCHANGED <<worker, local, manifest, onDisk, stage, base, seen, body, skipped, awaited, ghostVars, boundVars>>

\* Mutant: the entry is recorded before the answer.
PutFailsRecorded(p) ==
    /\ InFlight(p) /\ Fault
    /\ todo' = todo \ {p} /\ new' = [new EXCEPT ![p] = seen[p]]
    /\ UNCHANGED <<worker, fileVars, stage, base, seen, body, skipped, awaited, ghostVars>>

\* The request is lost, or its answer.
PutFails(p) ==
    /\ InFlight(p) /\ Fault
    /\ s3' \in {s3, [s3 EXCEPT ![p] = body[p]]}
    /\ todo' = todo \ {p}
    /\ UNCHANGED <<worker, local, manifest, onDisk, stage, base, seen, body, new, skipped, awaited, ghostVars>>

UploadEnds ==
    /\ stage = "upload" /\ todo = {}
    /\ stage' = "delete" /\ todo' = ToDelete
    /\ UNCHANGED <<worker, fileVars, base, seen, body, new, skipped, awaited, ghostVars, boundVars>>

Delete(p) ==
    /\ stage = "delete" /\ p \in todo
    /\ s3' = [s3 EXCEPT ![p] = None]
    /\ todo' = todo \ {p}
    /\ UNCHANGED <<worker, local, manifest, onDisk, stage, base, seen, body, new, skipped, awaited, ghostVars, boundVars>>

\* The path leaves the manifest all the same: nobody deletes the object any more.
DeleteFails(p) ==
    /\ stage = "delete" /\ p \in todo
    /\ Fault
    /\ s3' \in {s3, [s3 EXCEPT ![p] = None]}
    /\ todo' = todo \ {p}
    /\ UNCHANGED <<worker, local, manifest, onDisk, stage, base, seen, body, new, skipped, awaited, ghostVars>>

\* An entry is wrong when what was put is not what the walk had hashed.
SyncEnds ==
    /\ stage = "delete" /\ todo = {}
    /\ manifest' = new
    /\ onDisk' = TRUE
    /\ doubtful' = {p \in Present(new) : IF p \in ToUpload THEN body[p] # seen[p] ELSE p \in doubtful}
    /\ NoSync
    /\ UNCHANGED <<worker, local, s3, awaited, edited, boundVars>>

\* What the sync in progress has changed, or may have, in S3.
Requested == {p \in Paths : body[p] # None} \union (IF stage = "delete" THEN ToDelete \ todo ELSE {})

\* The old manifest stays, or nothing of it: writeFile truncates the file first.
OldManifest ==
    \/ UNCHANGED <<manifest, onDisk>> /\ doubtful' = doubtful \union Requested
    \/ /\ stage = "delete" /\ todo = {}
       /\ manifest' = Nothing /\ onDisk' = TRUE /\ doubtful' = {}

\* writeManifest rejects; sync() logs the error and the worker goes on.
ManifestFails ==
    /\ stage = "delete" /\ todo = {}
    /\ Fault
    /\ OldManifest
    /\ NoSync
    /\ UNCHANGED <<worker, local, s3, awaited, edited>>

-----------------------------------------------------------------------------
(* The end of a worker *)

\* The last sync: none if one is in progress, and then nobody waits for that one.
Shutdown ==
    /\ worker = "running"
    /\ Stop
    /\ worker' = "stopping"
    /\ awaited' = (stage = "idle")
    /\ IF stage = "idle" THEN Begin ELSE UNCHANGED syncVars
    /\ UNCHANGED <<fileVars, ghostVars>>

Cut ==
    /\ worker' = "down" /\ NoSync /\ awaited' = FALSE
    /\ OldManifest
    /\ local' \in IF stage = "download" THEN BrokenOff(local) ELSE {local}

\* process.exit at the end of shutdown().
Exit ==
    /\ worker = "stopping" /\ (awaited => stage = "idle")
    /\ Cut
    /\ UNCHANGED <<s3, edited, boundVars>>

Crash ==
    /\ worker # "down"
    /\ Stop
    /\ Cut
    /\ UNCHANGED <<s3, edited>>

\* The workspace is terminated and gets a new volume.
LoseVolume ==
    /\ worker = "down"
    /\ Stop
    /\ local' = Nothing /\ manifest' = Nothing /\ onDisk' = FALSE
    /\ edited' = {} /\ doubtful' = {}
    /\ UNCHANGED <<worker, s3, syncVars, awaited>>

-----------------------------------------------------------------------------
InitialSync == Start \/ DownloadEnds \/ DownloadFails \/ \E p \in Paths : Download(p)

SyncStep ==
    \/ WalkEnds \/ UploadEnds \/ SyncEnds
    \/ \E p \in Paths : Walk(p) \/ ReadBody(p) \/ Put(p) \/ Delete(p)

SyncFails == ManifestFails \/ \E p \in Paths : WalkFails(p) \/ PutFails(p) \/ DeleteFails(p)

Next ==
    \/ InitialSync \/ SyncBegins \/ SyncStep \/ SyncFails
    \/ \E p \in Paths, content \in Contents \union {None} : Edit(p, content)
    \/ Shutdown \/ Exit \/ Crash \/ LoseVolume

Spec == Init /\ [][Next]_vars

\* The interval fires, requests are answered, a process that exits is started again.
Fairness == WF_vars(InitialSync) /\ WF_vars(SyncBegins) /\ WF_vars(SyncStep) /\ WF_vars(Exit)

FairSpec == Spec /\ Fairness

-----------------------------------------------------------------------------
(* Properties *)

\* Types; and no manifest is claimed where there is no file.
SyncTypeOK ==
    /\ worker \in {"down", "initial", "running", "stopping"}
    /\ stage \in {"idle", "download", "walk", "upload", "delete"}
    /\ local \in [Paths -> Hashes] /\ s3 \in [Paths -> Hashes] /\ manifest \in [Paths -> Hashes]
    /\ base \in [Paths -> Hashes] /\ seen \in [Paths -> Hashes]
    /\ body \in [Paths -> Hashes] /\ new \in [Paths -> Hashes]
    /\ todo \subseteq Paths /\ skipped \subseteq Paths
    /\ edited \subseteq Paths /\ doubtful \subseteq Paths
    /\ onDisk \in BOOLEAN /\ awaited \in BOOLEAN
    /\ ~onDisk => manifest = Nothing

\* Between syncs the manifest never claims a backup that S3 does not have, whatever
\* requests failed.  Two things make an entry doubtful, until the file is next uploaded:
\* what was put is not what the walk had hashed, the file having changed between the two
\* reads (s3-sync.ts:215, 375); and the manifest of the sync that put or deleted the
\* object was not written (s3-sync.ts:273, a cut).
ManifestIsTrue ==
    stage = "idle" =>
        \A p \in Paths \ doubtful : manifest[p] \in {None, s3[p]}

\* A sync leaves the backup of a file that nobody edited on this volume, be the download
\* that filled the volume incomplete and whatever fails.  It may do three things to one:
\* replace it by its own text, which for a binary file is not the same; delete it, when
\* the walk could not read the file; and replace it by the piece of this very file that a
\* download left when it broke off.
OnlyEditsReachTheBackup ==
    [][\A p \in Paths : s3[p] # None /\ s3'[p] # s3[p] =>
          \/ p \in edited
          \/ s3'[p] = Read(s3[p])
          \/ s3'[p] = None /\ p \in skipped
          \/ s3'[p] = Partial /\ local[p] = Partial]_vars

\* When edits and faults cease, every file of a running worker is backed up, as the text
\* it is read as, and a deleted one is gone from S3 if the manifest still knows it.  Not
\* so a file whose entry is doubtful: it is taken for backed up until it is edited again.
\* (The manifest forgets a file whose deletion failed, or that could not be read; one that
\* is deleted between its download and the first sync it never knew.  They stay in S3.)
BackupConverges ==
    \A p \in Paths : <>[](\/ p \in doubtful
                         \/ worker # "running"
                         \/ s3[p] = Read(local[p])
                         \/ (local[p] = None /\ manifest[p] = None))
===============================================================================
