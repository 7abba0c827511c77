---------------------------- MODULE WorkspaceProofs ----------------------------
(***************************************************************************)
(* What the cloud keeps of a workspace.                                    *)
(*                                                                         *)
(* S3Sync: the backup of a file that nobody edited is left alone, but for  *)
(* three named cases, and between syncs the manifest only claims what S3   *)
(* has, for every set of paths and every number of faults and crashes.     *)
(*                                                                         *)
(* WorkspaceInstances: starts that do not overtake each other leave every  *)
(* project one server, with its data, for every number of projects,        *)
(* instances, requests and failures.                                       *)
(***************************************************************************)
EXTENDS S3Sync, WorkspaceInstances, FiniteSetTheorems, WellFoundedInduction, TLAPS

-----------------------------------------------------------------------------
(* S3Sync: the invariant of the sync in progress                           *)

Clean(p) == p \notin edited /\ local[p] # Partial

\* The walk of the sync in progress has passed p.
Passed(p) == (stage = "walk" /\ p \notin todo) \/ stage \in {"upload", "delete"}

\* What everybody believes of a file that nobody edited: what S3 has of it, if it is here,
\* is the file or its text; and whoever says it is here is right.
Faithful(p) ==
    /\ local[p] # None => s3[p] \in {None, local[p], Read(local[p])}
    /\ manifest[p] # None => local[p] # None
    /\ base[p] # None => local[p] # None
    /\ new[p] # None => local[p] # None
    /\ seen[p] \in {None, Read(local[p])}
    /\ Passed(p) => p \in skipped \/ seen[p] = Read(local[p])
    /\ body[p] # None => local[p] # None /\ body[p] = Read(local[p])

\* A piece of a file that nobody edited since is taken for the file.
Pieces(p) ==
    /\ body[p] \in {None, Partial}
    /\ Passed(p) => p \in skipped \/ seen[p] = Partial

Blanked == base = Nothing /\ seen = Nothing /\ body = Nothing /\ new = Nothing

Inv ==
    /\ SyncTypeOK
    /\ worker = "down" => stage = "idle"
    /\ stage \in {"idle", "download"} => Blanked
    /\ stage = "download" => manifest = Nothing
    /\ stage = "download" => todo \subseteq Present(s3)
    /\ stage = "delete" => todo \subseteq ToDelete
    /\ \A p \in Paths : Clean(p) => Faithful(p)
    /\ \A p \in Paths : p \notin edited /\ local[p] = Partial => Pieces(p)

\* Reading makes a text of a file, once and for all.
LEMMA ReadIsText ==
  \A c \in Hashes : /\ Read(c) \in Hashes
                    /\ Read(c) = None <=> c = None
                    /\ Read(c) = Partial <=> c = Partial
                    /\ Read(Read(c)) = Read(c)
BY ContentsAreNew, TextIsRead DEF Read, Hashes, None, Partial

LEMMA InitInv == Init => Inv
BY ContentsAreNew
DEF Init, Inv, SyncTypeOK, Blanked, Clean, Faithful, Pieces, Passed, Nothing, Hashes, None, Partial

\* A step that starts a sync.
LEMMA BeginInv ==
  ASSUME Inv, stage = "idle", Begin, UNCHANGED <<fileVars, edited>>, doubtful' \subseteq Paths,
         awaited' \in BOOLEAN, worker' \in {"running", "stopping"}
  PROVE  Inv'
BY ContentsAreNew
DEF Inv, SyncTypeOK, Blanked, Begin, fileVars, Clean, Faithful, Pieces, Passed, Nothing, Hashes, None, Partial

\* A worker that dies.
LEMMA CutInv ==
  ASSUME Inv, Cut, UNCHANGED <<s3, edited>>
  PROVE  Inv'
<1>1. SyncTypeOK'
  <2>1. local' \in [Paths -> Hashes]
    BY DEF Inv, SyncTypeOK, Cut, BrokenOff, Hashes
  <2>2. manifest' \in [Paths -> Hashes] /\ onDisk' \in BOOLEAN /\ (~onDisk' => manifest' = Nothing)
    <3>1. Nothing \in [Paths -> Hashes]
      BY DEF Nothing, Hashes
    <3>2. CASE UNCHANGED <<manifest, onDisk>>
      BY <3>2 DEF Inv, SyncTypeOK
    <3>3. CASE manifest' = Nothing /\ onDisk' = TRUE
      BY <3>1, <3>3
    <3> QED
      BY <3>2, <3>3 DEF Cut, OldManifest
  <2>3. doubtful' \subseteq Paths
    BY DEF Inv, SyncTypeOK, Cut, OldManifest, Requested, ToDelete, Present
  <2> QED
    BY <2>1, <2>2, <2>3 DEF Inv, SyncTypeOK, Cut, NoSync, Blank, Nothing, Hashes
<1>2. ASSUME NEW p \in Paths, Clean(p)'
      PROVE  Faithful(p)'
  <2>1. local'[p] = local[p]
    BY <1>2 DEF Cut, BrokenOff, Inv, SyncTypeOK, Clean
  <2>2. Clean(p)
    BY <1>2, <2>1 DEF Clean
  <2>3. manifest'[p] \in {None, manifest[p]}
    BY DEF Cut, OldManifest, Nothing
  <2> QED
    BY <2>1, <2>2, <2>3 DEF Inv, Faithful, Pieces, Passed, Cut, NoSync, Blank, Nothing
<1> QED
  BY <1>1, <1>2 DEF Inv, Cut, NoSync, Blank, Blanked, Pieces, Passed, Nothing

LEMMA StepInv == Inv /\ [Next]_vars => Inv'
<1> SUFFICES ASSUME Inv, [Next]_vars
             PROVE  Inv'
  OBVIOUS
<1> USE ContentsAreNew DEF Inv, Hashes
<1>1. ASSUME Start PROVE Inv'
  BY <1>1 DEF Start, fileVars, ghostVars, boundVars, SyncTypeOK, Blanked, Clean, Faithful, Pieces, Passed, Present, Nothing
<1>2. ASSUME NEW p \in Paths, Download(p) PROVE Inv'
  BY <1>2 DEF Download, ghostVars, boundVars, SyncTypeOK, Blanked, Clean, Faithful, Pieces, Passed, Nothing
<1>3. ASSUME DownloadEnds PROVE Inv'
  BY <1>3 DEF DownloadEnds, NoSync, Blank, fileVars, ghostVars, boundVars, SyncTypeOK, Blanked, Clean, Faithful, Pieces, Passed, Nothing
<1>4. ASSUME DownloadFails PROVE Inv'
  <2>1. SyncTypeOK'
    BY <1>4 DEF DownloadFails, BrokenOff, NoSync, Blank, ghostVars, SyncTypeOK, Nothing
  <2>2. ASSUME NEW p \in Paths, Clean(p)'
        PROVE  Faithful(p)'
    <3>1. local'[p] = local[p]
      BY <1>4, <2>2 DEF DownloadFails, BrokenOff, SyncTypeOK, Clean
    <3> QED
      BY <1>4, <2>2, <3>1 DEF DownloadFails, NoSync, Blank, ghostVars, Clean, Faithful, Pieces, Passed, Nothing
  <2> QED
    BY <1>4, <2>1, <2>2 DEF DownloadFails, NoSync, Blank, Blanked, Pieces, Passed, Nothing
<1>5. ASSUME NEW p \in Paths, NEW content \in Contents \union {None}, Edit(p, content) PROVE Inv'
  <2>1. ASSUME NEW q \in Paths, Clean(q)'
        PROVE  Faithful(q)'
    BY <1>5, <2>1 DEF Edit, syncVars, SyncTypeOK, Clean, Faithful, Pieces, Passed
  <2> QED
    BY <1>5, <2>1 DEF Edit, syncVars, SyncTypeOK, Blanked, Pieces, Passed, ToDelete, Present
<1>6. ASSUME SyncBegins PROVE Inv'
  BY <1>6, BeginInv DEF SyncBegins, ghostVars, SyncTypeOK
<1>7. ASSUME NEW p \in Paths, Walk(p) PROVE Inv'
  BY <1>7, ReadIsText DEF Walk, fileVars, ghostVars, boundVars, SyncTypeOK, Blanked, Clean, Faithful, Pieces, Passed
<1>8. ASSUME NEW p \in Paths, WalkFails(p) PROVE Inv'
  BY <1>8, ReadIsText DEF WalkFails, fileVars, ghostVars, SyncTypeOK, Blanked, Clean, Faithful, Pieces, Passed
<1>9. ASSUME WalkEnds PROVE Inv'
  BY <1>9 DEF WalkEnds, ToUpload, Present, fileVars, ghostVars, boundVars, SyncTypeOK, Blanked, Clean, Faithful, Pieces, Passed
<1>10. ASSUME NEW p \in Paths, ReadBody(p) PROVE Inv'
  BY <1>10, ReadIsText DEF ReadBody, fileVars, ghostVars, boundVars, SyncTypeOK, Blanked, Clean, Faithful, Pieces, Passed
<1>11. ASSUME NEW p \in Paths, Put(p) PROVE Inv'
  BY <1>11, ReadIsText DEF Put, InFlight, ghostVars, boundVars, SyncTypeOK, Blanked, Clean, Faithful, Pieces, Passed
<1>12. ASSUME NEW p \in Paths, PutFails(p) PROVE Inv'
  BY <1>12, ReadIsText DEF PutFails, InFlight, ghostVars, SyncTypeOK, Blanked, Clean, Faithful, Pieces, Passed
<1>13. ASSUME UploadEnds PROVE Inv'
  BY <1>13 DEF UploadEnds, ToDelete, Present, fileVars, ghostVars, boundVars, SyncTypeOK, Blanked, Clean, Faithful, Pieces, Passed
<1>14. ASSUME NEW p \in Paths, Delete(p) PROVE Inv'
  <2>1. base[p] # None /\ seen[p] = None
    BY <1>14 DEF Delete, ToDelete, Present
  <2>2. Clean(p) => p \in skipped
    BY <1>14, <2>1, ReadIsText DEF Delete, Faithful, Pieces, Passed, SyncTypeOK
  <2> QED
    BY <1>14, <2>2 DEF Delete, ToDelete, Present, ghostVars, boundVars, SyncTypeOK, Blanked, Clean, Faithful, Pieces, Passed
<1>15. ASSUME NEW p \in Paths, DeleteFails(p) PROVE Inv'
  <2>1. base[p] # None /\ seen[p] = None
    BY <1>15 DEF DeleteFails, ToDelete, Present
  <2>2. Clean(p) => p \in skipped
    BY <1>15, <2>1, ReadIsText DEF DeleteFails, Faithful, Pieces, Passed, SyncTypeOK
  <2> QED
    BY <1>15, <2>2 DEF DeleteFails, ToDelete, Present, ghostVars, SyncTypeOK, Blanked, Clean, Faithful, Pieces, Passed
<1>16. ASSUME SyncEnds PROVE Inv'
  BY <1>16 DEF SyncEnds, Present, NoSync, Blank, boundVars, SyncTypeOK, Blanked, Clean, Faithful, Pieces, Passed, Nothing
<1>22. ASSUME ManifestFails PROVE Inv'
  <2>1. doubtful' \subseteq Paths
    BY <1>22 DEF ManifestFails, OldManifest, Requested, ToDelete, Present, SyncTypeOK
  <2>2. SyncTypeOK'
    <3>1. /\ manifest' \in [Paths -> Hashes] /\ onDisk' \in BOOLEAN
          /\ ~onDisk' => manifest' = Nothing
      <4>1. CASE UNCHANGED <<manifest, onDisk>>
        BY <4>1 DEF SyncTypeOK
      <4>2. CASE manifest' = Nothing /\ onDisk' = TRUE
        BY <4>2 DEF Nothing
      <4> QED
        BY <1>22, <4>1, <4>2 DEF ManifestFails, OldManifest
    <3> QED
      BY <1>22, <2>1, <3>1 DEF ManifestFails, NoSync, Blank, SyncTypeOK, Nothing
  <2>3. ASSUME NEW p \in Paths
        PROVE  (Clean(p) => Faithful(p))' /\ Pieces(p)'
    <3>1. manifest'[p] \in {None, manifest[p]}
      BY <1>22 DEF ManifestFails, OldManifest, Nothing
    <3> QED
      BY <1>22, <3>1 DEF ManifestFails, NoSync, Blank, Clean, Faithful, Pieces, Passed, Nothing
  <2> QED
    BY <1>22, <2>2, <2>3 DEF ManifestFails, NoSync, Blank, Blanked
<1>17. ASSUME Shutdown PROVE Inv'
  <2>1. CASE stage = "idle"
    BY <1>17, <2>1, BeginInv DEF Shutdown, ghostVars, SyncTypeOK
  <2>2. CASE stage # "idle"
    BY <1>17, <2>2 DEF Shutdown, fileVars, syncVars, ghostVars, SyncTypeOK, Blanked, Clean, Faithful, Pieces, Passed, ToDelete, Present
  <2> QED
    BY <2>1, <2>2
<1>18. ASSUME Exit PROVE Inv'
  BY <1>18, CutInv DEF Exit
<1>19. ASSUME Crash PROVE Inv'
  BY <1>19, CutInv DEF Crash
<1>20. ASSUME LoseVolume PROVE Inv'
  <2>1. stage = "idle" /\ Blanked
    BY <1>20 DEF LoseVolume
  <2>2. SyncTypeOK'
    BY <1>20 DEF LoseVolume, syncVars, SyncTypeOK, Nothing
  <2>3. ASSUME NEW p \in Paths
        PROVE  (Clean(p) => Faithful(p))' /\ Pieces(p)'
    BY <1>20, <2>1, ReadIsText DEF LoseVolume, syncVars, Blanked, Clean, Faithful, Pieces, Passed, Nothing
  <2> QED
    BY <1>20, <2>1, <2>2, <2>3 DEF LoseVolume, syncVars, Blanked
<1>21. ASSUME UNCHANGED vars PROVE Inv'
  BY <1>21 DEF vars, fileVars, syncVars, ghostVars, boundVars, SyncTypeOK, Blanked, Clean, Faithful, Pieces, Passed, ToDelete, Present
<1> QED
  BY <1>1, <1>2, <1>3, <1>4, <1>5, <1>6, <1>7, <1>8, <1>9, <1>10, <1>11, <1>12, <1>13, <1>14,
     <1>15, <1>16, <1>17, <1>18, <1>19, <1>20, <1>21, <1>22
  DEF Next, InitialSync, SyncStep, SyncFails

OnlyEdited ==
    \A p \in Paths : s3[p] # None /\ s3'[p] # s3[p] =>
        \/ p \in edited
        \/ s3'[p] = Read(s3[p])
        \/ s3'[p] = None /\ p \in skipped
        \/ s3'[p] = Partial /\ local[p] = Partial

\* A request to put a file that nobody edited brings its text, or the piece it is.
LEMMA PutOnlyEdited ==
  ASSUME Inv, NEW p \in Paths, body[p] # None, s3' \in {s3, [s3 EXCEPT ![p] = body[p]]}
  PROVE  OnlyEdited
<1>1. CASE Clean(p)
  BY <1>1, ReadIsText DEF Inv, OnlyEdited, SyncTypeOK, Clean, Faithful
<1>2. CASE p \notin edited /\ local[p] = Partial /\ s3'[p] # s3[p] /\ s3[p] # None
  <2>1. body[p] = Partial
    BY <1>2 DEF Inv, Pieces
  <2> QED
    BY <1>2, <2>1 DEF Inv, OnlyEdited, SyncTypeOK
<1> QED
  BY <1>1, <1>2 DEF Inv, OnlyEdited, SyncTypeOK, Clean

\* A request to delete one is made only if the walk could not read it.
LEMMA DeleteOnlyEdited ==
  ASSUME Inv, NEW p \in Paths, stage = "delete", p \in todo, s3' \in {s3, [s3 EXCEPT ![p] = None]}
  PROVE  OnlyEdited
<1>1. base[p] # None /\ seen[p] = None
  BY DEF Inv, ToDelete, Present
<1>2. p \in edited \/ p \in skipped
  BY <1>1, ReadIsText DEF Inv, Clean, Faithful, Pieces, Passed, SyncTypeOK, None, Partial
<1> QED
  BY <1>2 DEF Inv, OnlyEdited, SyncTypeOK

LEMMA StepOnlyEdited == Inv /\ [Next]_vars => [OnlyEdited]_vars
<1> SUFFICES ASSUME Inv, Next
             PROVE  OnlyEdited
  OBVIOUS
<1>1. ASSUME NEW p \in Paths, Put(p) \/ PutFails(p) PROVE OnlyEdited
  BY <1>1, PutOnlyEdited DEF Put, PutFails, InFlight
<1>2. ASSUME NEW p \in Paths, Delete(p) \/ DeleteFails(p) PROVE OnlyEdited
  BY <1>2, DeleteOnlyEdited DEF Delete, DeleteFails
<1>3. ASSUME UNCHANGED s3 PROVE OnlyEdited
  BY <1>3 DEF OnlyEdited
<1> QED
  BY <1>1, <1>2, <1>3
  DEF Next, InitialSync, SyncStep, SyncFails, Start, Download, DownloadEnds, DownloadFails, Edit, SyncBegins,
      Walk, WalkFails, WalkEnds, ReadBody, UploadEnds, SyncEnds, ManifestFails, Shutdown, Exit,
      Crash, LoseVolume, fileVars

\* The sync leaves the backup of a file that nobody edited alone, but for the text it makes
\* of a binary file, a file that it cannot read, and the piece of a file that a broken
\* download left: whatever requests, reads and writes fail, and whenever the worker dies.
THEOREM BackupFollowsEdits == Spec => OnlyEditsReachTheBackup
<1>1. Spec => [][OnlyEdited]_vars
  BY InitInv, StepInv, StepOnlyEdited, PTL DEF Spec
<1> QED
  BY <1>1 DEF OnlyEditsReachTheBackup, OnlyEdited

\* The types, for every set of paths.
THEOREM SyncTypes == Spec => []SyncTypeOK
<1>1. Inv => SyncTypeOK
  BY DEF Inv
<1> QED
  BY InitInv, StepInv, <1>1, PTL DEF Spec

-----------------------------------------------------------------------------
(* The manifest *)

\* What a sync has in hand: the manifest it read is still there, and what it will record of
\* a file is the hash of its walk, of what it put or of what the manifest had.
Progress(p) ==
    /\ stage \in {"walk", "upload", "delete"} => base = manifest
    /\ stage \in {"idle", "download", "walk"} => body[p] = None
    /\ stage \in {"upload", "delete"} => (body[p] # None => p \in ToUpload)
    /\ stage = "upload" => (p \in todo => p \in ToUpload /\ new[p] = None)
    /\ stage \in {"upload", "delete"} /\ new[p] # None =>
         /\ new[p] = seen[p]
         /\ p \in ToUpload => s3[p] = body[p]

\* An entry that is not in doubt is right, until the sync asks for a change.
Honest(p) ==
    p \notin doubtful \union Requested => manifest[p] \in {None, s3[p]}

Truth == \A p \in Paths : Progress(p) /\ Honest(p)

LEMMA InitTruth == Init => Truth
BY DEF Init, Truth, Progress, Honest, Nothing

\* A sync that is cut off leaves the old manifest in doubt, or an empty one.
LEMMA CutTruth ==
  ASSUME Inv, Truth, OldManifest, NoSync, UNCHANGED s3
  PROVE  Truth'
BY DEF Truth, Progress, Honest, OldManifest, Requested, Inv, SyncTypeOK, NoSync, Blank, Nothing

LEMMA StepTruth == Inv /\ Truth /\ [Next]_vars => Truth'
<1> SUFFICES ASSUME Inv, Truth, [Next]_vars,
                    NEW q \in Paths
             PROVE  Progress(q)' /\ Honest(q)'
  BY DEF Truth
<1> USE ContentsAreNew DEF Inv, Hashes
<1>1. ASSUME Start PROVE Progress(q)' /\ Honest(q)'
  BY <1>1 DEF Start, fileVars, ghostVars, boundVars, Truth, Progress, Honest, Requested, ToUpload, ToDelete, Present, Nothing, SyncTypeOK, Blanked
<1>2. ASSUME NEW p \in Paths, Download(p) PROVE Progress(q)' /\ Honest(q)'
  BY <1>2 DEF Download, ghostVars, boundVars, Truth, Progress, Honest, Requested, ToUpload, ToDelete, Present, Nothing, SyncTypeOK, Blanked
<1>3. ASSUME DownloadEnds PROVE Progress(q)' /\ Honest(q)'
  BY <1>3 DEF DownloadEnds, NoSync, Blank, fileVars, ghostVars, boundVars, Truth, Progress, Honest, Requested, ToUpload, ToDelete, Present, Nothing, SyncTypeOK, Blanked
<1>4. ASSUME DownloadFails PROVE Progress(q)' /\ Honest(q)'
  BY <1>4 DEF DownloadFails, NoSync, Blank, ghostVars, Truth, Progress, Honest, Requested, ToUpload, ToDelete, Present, Nothing, SyncTypeOK, Blanked
<1>5. ASSUME NEW p \in Paths, NEW content \in Contents \union {None}, Edit(p, content) PROVE Progress(q)' /\ Honest(q)'
  BY <1>5 DEF Edit, syncVars, Truth, Progress, Honest, Requested, ToUpload, ToDelete, Present, Nothing, SyncTypeOK, Blanked
<1>6. ASSUME SyncBegins PROVE Progress(q)' /\ Honest(q)'
  BY <1>6 DEF SyncBegins, Begin, fileVars, ghostVars, boundVars, Truth, Progress, Honest, Requested, ToUpload, ToDelete, Present, Nothing, SyncTypeOK, Blanked
<1>7. ASSUME NEW p \in Paths, Walk(p) PROVE Progress(q)' /\ Honest(q)'
  BY <1>7 DEF Walk, fileVars, ghostVars, boundVars, Truth, Progress, Honest, Requested, ToUpload, ToDelete, Present, Nothing, SyncTypeOK, Blanked
<1>8. ASSUME NEW p \in Paths, WalkFails(p) PROVE Progress(q)' /\ Honest(q)'
  BY <1>8 DEF WalkFails, fileVars, ghostVars, Truth, Progress, Honest, Requested, ToUpload, ToDelete, Present, Nothing, SyncTypeOK, Blanked
<1>9. ASSUME WalkEnds PROVE Progress(q)' /\ Honest(q)'
  BY <1>9 DEF WalkEnds, fileVars, ghostVars, boundVars, Truth, Progress, Honest, Requested, ToUpload, ToDelete, Present, Nothing, SyncTypeOK, Blanked
<1>10. ASSUME NEW p \in Paths, ReadBody(p) PROVE Progress(q)' /\ Honest(q)'
  BY <1>10 DEF ReadBody, fileVars, ghostVars, boundVars, Truth, Progress, Honest, Requested, ToUpload, ToDelete, Present, Nothing, SyncTypeOK, Blanked
<1>11. ASSUME NEW p \in Paths, Put(p) PROVE Progress(q)' /\ Honest(q)'
  BY <1>11 DEF Put, InFlight, ghostVars, boundVars, Truth, Progress, Honest, Requested, ToUpload, ToDelete, Present, Nothing, SyncTypeOK, Blanked
<1>12. ASSUME NEW p \in Paths, PutFails(p) PROVE Progress(q)' /\ Honest(q)'
  BY <1>12 DEF PutFails, InFlight, ghostVars, Truth, Progress, Honest, Requested, ToUpload, ToDelete, Present, Nothing, SyncTypeOK, Blanked
<1>13. ASSUME UploadEnds PROVE Progress(q)' /\ Honest(q)'
  BY <1>13 DEF UploadEnds, fileVars, ghostVars, boundVars, Truth, Progress, Honest, Requested, ToUpload, ToDelete, Present, Nothing, SyncTypeOK, Blanked
<1>14. ASSUME NEW p \in Paths, Delete(p) PROVE Progress(q)' /\ Honest(q)'
  BY <1>14 DEF Delete, ghostVars, boundVars, Truth, Progress, Honest, Requested, ToUpload, ToDelete, Present, Nothing, SyncTypeOK, Blanked
<1>15. ASSUME NEW p \in Paths, DeleteFails(p) PROVE Progress(q)' /\ Honest(q)'
  BY <1>15 DEF DeleteFails, ghostVars, Truth, Progress, Honest, Requested, ToUpload, ToDelete, Present, Nothing, SyncTypeOK, Blanked
<1>16. ASSUME SyncEnds PROVE Progress(q)' /\ Honest(q)'
  BY <1>16 DEF SyncEnds, NoSync, Blank, boundVars, Truth, Progress, Honest, Requested, ToUpload, ToDelete, Present, Nothing, SyncTypeOK, Blanked
<1>17. ASSUME ManifestFails PROVE Progress(q)' /\ Honest(q)'
  BY <1>17, CutTruth DEF ManifestFails, Truth
<1>18. ASSUME Shutdown PROVE Progress(q)' /\ Honest(q)'
  BY <1>18 DEF Shutdown, Begin, syncVars, fileVars, ghostVars, Truth, Progress, Honest, Requested, ToUpload, ToDelete, Present, Nothing, SyncTypeOK, Blanked
<1>19. ASSUME Exit PROVE Progress(q)' /\ Honest(q)'
  BY <1>19, CutTruth DEF Exit, Cut, Truth
<1>20. ASSUME Crash PROVE Progress(q)' /\ Honest(q)'
  BY <1>20, CutTruth DEF Crash, Cut, Truth
<1>21. ASSUME LoseVolume PROVE Progress(q)' /\ Honest(q)'
  BY <1>21 DEF LoseVolume, syncVars, Truth, Progress, Honest, Requested, ToUpload, ToDelete, Present, Nothing, SyncTypeOK, Blanked
<1>22. ASSUME UNCHANGED vars PROVE Progress(q)' /\ Honest(q)'
  BY <1>22 DEF vars, fileVars, syncVars, ghostVars, boundVars, Truth, Progress, Honest, Requested, ToUpload, ToDelete, Present, Nothing, SyncTypeOK, Blanked
<1> QED
  BY <1>1, <1>2, <1>3, <1>4, <1>5, <1>6, <1>7, <1>8, <1>9, <1>10, <1>11, <1>12, <1>13, <1>14,
     <1>15, <1>16, <1>17, <1>18, <1>19, <1>20, <1>21, <1>22
  DEF Next, InitialSync, SyncStep, SyncFails

\* Between syncs the manifest never claims a backup that S3 does not have, whatever
\* requests failed and whenever a sync was cut off: but for the entry of a file that
\* changed between syncToS3's two reads of it, and for those that a manifest which was
\* not written, after the sync had changed S3, leaves behind.
THEOREM ManifestNeverLies == Spec => []ManifestIsTrue
<1>1. Inv /\ Truth => ManifestIsTrue
  BY DEF Inv, Blanked, Nothing, Truth, Honest, Requested, ManifestIsTrue
<1> QED
  BY InitInv, StepInv, InitTruth, StepTruth, <1>1, PTL DEF Spec

-----------------------------------------------------------------------------
(* WorkspaceInstances: its inductive invariant                             *)

InstanceStates == {Nil, "pending", "running", "stopping", "stopped", "gone"}
RequestPlaces == {"idle", "find", "find any", "health", "deregister", "register", "reuse",
                  "resume any", "resume", "start it", "launch", "run", "attach"}
Requests == [kind : {Nil, "start", "status"}, at : RequestPlaces, project : Projects \union {Nil},
             inst : Instances \union {Nil}, stale : SUBSET Instances]

CloudTypes ==
    /\ state \in [Instances -> InstanceStates]
    /\ project \in [Instances -> Projects \union {Nil}]
    /\ volume \in [Projects -> Instances \union {Nil, Missing}]
    /\ request \in [Containers -> Requests]
    /\ targets \subseteq Instances /\ terminating \subseteq Instances
    /\ disturbed \in BOOLEAN

\* The order of their launches is one of the existing instances.
LaunchOrder ==
    /\ newer \subseteq Existing \X Existing
    /\ \A i \in Existing : <<i, i>> \notin newer
    /\ \A i, j \in Existing : i # j => <<i, j>> \in newer \/ <<j, i>> \in newer
    /\ \A i, j, k \in Existing : <<i, j>> \in newer /\ <<j, k>> \in newer => <<i, k>> \in newer

\* What a request knows at each place.
RequestFits(r) ==
    /\ IF r.at = "idle" THEN r.kind = Nil ELSE r.kind \in {"start", "status"} /\ r.project \in Projects
    /\ r.kind = "status" => r.at \in {"find", "find any", "health", "deregister", "register"}
    /\ r.at \in {"find any", "reuse", "resume any"} => SharedMode
    /\ r.at \in {"health", "deregister", "register", "resume", "start it", "attach"}
         => r.inst \in Instances /\ state[r.inst] # Nil
    /\ r.at = "attach" => project[r.inst] = r.project
    /\ r.at = "run" => volume[r.project] # Missing

RequestsFit == \A c \in Containers : RequestFits(request[c])

\* The instances that a start for project p must not add to.
Rival(i, p) == SharedMode \/ project[i] = p

AtMostOneStart ==
    \A c, d \in Containers : request[c].kind = "start" /\ request[d].kind = "start" => c = d

AtMostOneEach ==
    \A i, j \in Existing : SharedMode \/ project[i] = project[j] => i = j

\* What a start has made sure of, place by place: it launches only where no rival exists.
StartIsSafe(r) ==
    /\ r.at \in {"find", "find any"} => \A i \in In({"stopping"}) : ~Rival(i, r.project)
    /\ r.at = "find" /\ SharedMode => \A i \in In({"pending"}) : project[i] = r.project
    /\ r.at = "find any" => In({"pending"}) = {}
    /\ r.at \in {"reuse", "resume any"} => Existing = In({"stopped"})
    /\ r.at \in {"launch", "run"} => \A i \in Existing : ~Rival(i, r.project)
    /\ r.at \in {"run", "attach"} => volume[r.project] = Nil

StartsAreSafe == \A c \in Containers : request[c].kind = "start" => StartIsSafe(request[c])

\* An instance has its project's volume, or is about to get it.
VolumeIsThere ==
    \A i \in Existing : \/ volume[project[i]] = i
                        \/ \E c \in Containers : request[c].at = "attach" /\ request[c].inst = i

Undisturbed == AtMostOneStart /\ AtMostOneEach /\ StartsAreSafe /\ VolumeIsThere

CloudInv ==
    /\ CloudTypes /\ LaunchOrder /\ InstancesTypeOK /\ RequestsFit
    /\ ~disturbed => Undisturbed

-----------------------------------------------------------------------------
(* WorkspaceInstances: which instance a search finds                       *)

\* Every set of naturals has a least one.
LEMMA LeastNumber ==
    ASSUME NEW T \in SUBSET Nat, T # {}
    PROVE  \E n \in T : \A m \in T : n <= m
<1> DEFINE R == OpToRel(<, Nat)
<1>1. IsWellFoundedOn(R, Nat)
    BY NatLessThanWellFounded
<1>2. \A i, j \in Nat : i < j => <<i, j>> \in R
    BY DEF OpToRel
<1> HIDE DEF R
<1>3. PICK n \in T : \A m \in T : ~(<<m, n>> \in R)
    BY <1>1, WFMin
<1>4. \A m \in T : ~(m < n)
    BY <1>2, <1>3
<1> QED BY <1>4

LEMMA NilIsOther == Nil \notin Projects /\ Nil \notin Instances /\ Missing \notin Instances
BY NilIsNew

LEMMA ExistingAreFinite ==
    ASSUME NEW S, S \subseteq Existing
    PROVE  IsFiniteSet(S)
BY InstanceBounds, FS_Subset DEF Existing, In

\* Some instance was launched last: the one after which the fewest were.
LEMMA NewestExists ==
    ASSUME LaunchOrder, NEW S, S \subseteq Existing, S # {}
    PROVE  Newest(S) \in S
<1> DEFINE After(i) == {j \in S : <<j, i>> \in newer}
           T == {Cardinality(After(i)) : i \in S}
<1>1. ASSUME NEW i \in S PROVE IsFiniteSet(After(i)) /\ Cardinality(After(i)) \in Nat
    BY ExistingAreFinite, FS_CardinalityType
<1>2. T \in SUBSET Nat /\ T # {}
    BY <1>1
<1> HIDE DEF After
<1>3. PICK n \in T : \A m \in T : n <= m
    BY <1>2, LeastNumber
<1>4. PICK i \in S : \A j \in S : Cardinality(After(i)) <= Cardinality(After(j))
    BY <1>3
<1>5. ASSUME NEW j \in S \ {i}, <<i, j>> \notin newer PROVE FALSE
    <2>1. <<j, i>> \in newer /\ <<j, j>> \notin newer
        BY <1>5 DEF LaunchOrder
    <2>2. After(j) \subseteq After(i) /\ j \in After(i) /\ j \notin After(j)
        BY <2>1 DEF LaunchOrder, After
    <2>3. Cardinality(After(j)) <= Cardinality(After(i)) /\ After(j) # After(i)
        BY <1>1, <2>2, FS_Subset
    <2>4. Cardinality(After(j)) < Cardinality(After(i))
        BY <1>1, <2>2, <2>3, FS_Subset
    <2> QED BY <1>1, <1>4, <2>4
<1>6. \A j \in S \ {i} : <<i, j>> \in newer
    BY <1>5
<1> QED BY <1>6 DEF Newest

LEMMA KeeperExists ==
    ASSUME LaunchOrder, NEW S, S \subseteq Existing, S # {}
    PROVE  Keeper(S) \in S
<1> DEFINE T == {3 - Rank(i) : i \in S}
           best == {i \in S : \A j \in S : Rank(i) >= Rank(j)}
<1>1. \A i \in S : Rank(i) \in 0..3
    BY DEF Rank, Existing, In
<1>2. T \in SUBSET Nat /\ T # {}
    BY <1>1
<1>3. PICK n \in T : \A m \in T : n <= m
    BY <1>2, LeastNumber
<1>4. PICK i \in S : \A j \in S : 3 - Rank(i) <= 3 - Rank(j)
    BY <1>3
<1>5. best # {} /\ best \subseteq S
    BY <1>1, <1>4
<1>6. Newest(best) \in best
    BY <1>5, NewestExists
<1> QED BY <1>5, <1>6 DEF Keeper

-----------------------------------------------------------------------------
(* WorkspaceInstances: steps of a request                                  *)

\* A step that only takes a request from one place to another.
LEMMA MoveKeeps ==
    ASSUME CloudInv, NEW c \in Containers, NEW r \in Requests,
           request' = [request EXCEPT ![c] = r], UNCHANGED awsVars,
           request[c].at # "attach", RequestFits(r),
           targets' \subseteq targets \union {request[c].inst},
           targets' \subseteq targets \/ request[c].at = "register",
           terminating' \subseteq terminating \union Existing,
           disturbed' \in BOOLEAN, disturbed => disturbed',
           ~disturbed' /\ r.kind = "start" =>
               /\ StartIsSafe(r)
               /\ \A d \in Containers \ {c} : request[d].kind # "start"
    PROVE  CloudInv'
<1> USE DEF CloudInv, awsVars
<1>1. /\ request' \in [Containers -> Requests] /\ request'[c] = r
      /\ \A d \in Containers \ {c} : request'[d] = request[d]
    BY DEF CloudTypes
<1>2. Existing' = Existing /\ \A S : In(S)' = In(S)
    BY DEF Existing, In
<1>3. /\ targets' \subseteq In({"pending", "running", "stopping", "stopped", "gone"})
      /\ terminating' \subseteq Instances \ In({Nil})
    <2>1. request[c].at = "register" => request[c].inst \in In({"pending", "running", "stopping", "stopped", "gone"})
        BY DEF RequestsFit, RequestFits, In, CloudTypes, InstanceStates
    <2> QED BY <2>1 DEF InstancesTypeOK, Existing, In, Nil
<1>4. CloudTypes'
    BY <1>1, <1>3 DEF CloudTypes, In
<1>5. LaunchOrder'
    BY <1>2 DEF LaunchOrder
<1>6. RequestsFit'
    BY <1>1 DEF RequestsFit, RequestFits
<1>7. InstancesTypeOK'
    BY <1>1, <1>2, <1>3, <1>6 DEF InstancesTypeOK, RequestsFit, RequestFits, In, Of
<1>8. ASSUME ~disturbed' PROVE Undisturbed'
    <2>1. AtMostOneStart'
        BY <1>1, <1>8 DEF Undisturbed, AtMostOneStart
    <2>2. AtMostOneEach'
        BY <1>2, <1>8 DEF Undisturbed, AtMostOneEach
    <2>3. StartsAreSafe'
        BY <1>1, <1>2, <1>8 DEF Undisturbed, StartsAreSafe, StartIsSafe, Rival
    <2>4. VolumeIsThere'
        BY <1>1, <1>2, <1>8 DEF Undisturbed, VolumeIsThere
    <2> QED BY <2>1, <2>2, <2>3, <2>4 DEF Undisturbed
<1> QED BY <1>4, <1>5, <1>6, <1>7, <1>8

LEMMA NoRequestFits == NoRequest \in Requests /\ RequestFits(NoRequest) /\ NoRequest.kind # "start"
BY DEF NoRequest, Requests, RequestPlaces, RequestFits, Nil

\* A request is answered: it succeeded or failed.
LEMMA AnswerKeeps ==
    ASSUME CloudInv, NEW c \in Containers, Answer(c), request[c].at # "attach", UNCHANGED <<awsVars, disturbed>>,
           targets' \subseteq targets \union {request[c].inst},
           targets' \subseteq targets \/ request[c].at = "register",
           terminating' \subseteq terminating \union Existing
    PROVE  CloudInv'
<1>1. request' = [request EXCEPT ![c] = NoRequest] /\ disturbed' = disturbed
    BY DEF Answer, Goto
<1>2. disturbed' \in BOOLEAN /\ (disturbed => disturbed')
    BY <1>1 DEF CloudInv, CloudTypes
<1>3. NoRequest.kind # "start"
    BY NoRequestFits
<1> QED BY <1>1, <1>2, <1>3, NoRequestFits, MoveKeeps

LEMMA OnlyStart ==
    ASSUME CloudInv, ~disturbed, NEW c \in Containers, request[c].kind = "start"
    PROVE  StartIsSafe(request[c]) /\ \A d \in Containers \ {c} : request[d].kind # "start"
BY DEF CloudInv, Undisturbed, StartsAreSafe, AtMostOneStart

LEMMA RequestType ==
    ASSUME CloudInv, NEW c \in Containers
    PROVE  request[c] \in Requests /\ RequestFits(request[c])
BY DEF CloudInv, CloudTypes, RequestsFit

\* Request c at another place, with what it found.
Moved(c, place, i) == [Now(c, place) EXCEPT !.inst = i]

LEMMA PlaceType ==
    ASSUME CloudInv, NEW c \in Containers, NEW place \in RequestPlaces, NEW i \in Instances \union {Nil}
    PROVE  /\ Moved(c, place, i) \in Requests
           /\ Moved(c, place, i).at = place /\ Moved(c, place, i).inst = i
           /\ Moved(c, place, i).kind = request[c].kind
           /\ Moved(c, place, i).project = request[c].project
BY RequestType DEF Now, Moved, Requests

LEMMA Places ==
    {"find any", "health", "deregister", "register", "resume any", "start it", "launch", "run", "attach"}
        \subseteq RequestPlaces
BY DEF RequestPlaces

LEMMA NowIsMoved ==
    ASSUME CloudInv, NEW c \in Containers, NEW place \in RequestPlaces
    PROVE  /\ Now(c, place) = Moved(c, place, request[c].inst)
           /\ request[c].inst \in Instances \union {Nil}
BY RequestType DEF Now, Moved, Requests

LEMMA ArrivesKeeps ==
    ASSUME CloudInv, NEW c \in Containers, NEW p \in Projects, NEW kind \in {"start", "status"}, Arrives(c, p, kind)
    PROVE  CloudInv'
<1> DEFINE r == [NoRequest EXCEPT !.kind = kind, !.at = "find", !.project = p]
<1>1. r \in Requests /\ r.kind = kind /\ r.at = "find" /\ r.project = p
    BY DEF NoRequest, Requests, RequestPlaces
<1>2. /\ request' = [request EXCEPT ![c] = r] /\ request[c].at = "idle"
      /\ disturbed' = (disturbed \/ (kind = "start" /\ Hasty(p)))
      /\ UNCHANGED <<awsVars, terminating, targets>>
    BY DEF Arrives, Goto
<1> HIDE DEF r
<1>3. RequestFits(r)
    BY <1>1 DEF RequestFits
<1>4. disturbed \in BOOLEAN
    BY DEF CloudInv, CloudTypes
<1>5. ASSUME ~disturbed', r.kind = "start"
      PROVE  StartIsSafe(r) /\ \A d \in Containers \ {c} : request[d].kind # "start"
    <2>1. ~Hasty(p)
        BY <1>1, <1>2, <1>5
    <2> QED BY <1>1, <2>1 DEF Hasty, StartIsSafe, Rival, In, Of
<1> QED BY <1>2, <1>1, <1>3, <1>4, <1>5, MoveKeeps

\* getWorkspaceStatus answers, or startWorkspace goes on, by what the search found.
LEMMA ProceedKeeps ==
    ASSUME CloudInv, NEW c \in Containers, NEW i, NEW found, Proceed(c, i, found),
           request[c].at \in {"find", "find any"},
           \/ i = Nil /\ found = Nil
           \/ i \in Existing /\ found = state[i] /\ found # "running",
           request[c].kind = "start" /\ ~disturbed /\ found \notin {"pending", "running", "stopped"} =>
              IF SharedMode THEN Existing = In({"stopped"})
                            ELSE \A j \in Existing : ~Rival(j, request[c].project),
           found = "stopping" /\ request[c].kind = "start" => disturbed,
           UNCHANGED <<awsVars, targets, disturbed>>, terminating' \subseteq terminating \union Existing
    PROVE  CloudInv'
<1> DEFINE place == Goes(c, found)
           r == Moved(c, place, i)
<1>1. CASE place = "idle"
    BY <1>1, AnswerKeeps DEF Proceed
<1>2. CASE place # "idle"
    <2>1. /\ request[c].kind = "start"
          /\ \/ place = "resume" /\ found = "stopped"
             \/ found \notin {"pending", "running", "stopped"} /\ place = IF SharedMode THEN "reuse" ELSE "launch"
        BY <1>2, RequestType DEF Goes, Requests, RequestFits
    <2>2. place \in RequestPlaces /\ i \in Instances \union {Nil} /\ Nil \notin Existing
        BY <2>1, NilIsOther DEF RequestPlaces, Existing, In
    <2>3. request' = [request EXCEPT ![c] = r]
        BY <1>2 DEF Proceed, Goto, Moved
    <2> HIDE DEF place
    <2>4. /\ r \in Requests /\ r.at = place /\ r.kind = "start" /\ r.project = request[c].project /\ r.inst = i
        <3>1. request[c].kind = "start"
            BY <2>1
        <3>2. place \in RequestPlaces /\ i \in Instances \union {Nil}
            BY <2>2
        <3>3. /\ r \in Requests /\ r.at = place /\ r.inst = i
              /\ r.kind = request[c].kind /\ r.project = request[c].project
            <4> HIDE DEF r
            <4>1. r = Moved(c, place, i)
                BY DEF r
            <4> QED BY <3>2, <4>1, PlaceType
        <3> QED BY <3>1, <3>3
    <2> HIDE DEF r
    <2>5. RequestFits(r)
        <3>1. r.project \in Projects
            BY <2>4, RequestType DEF RequestFits
        <3>2. place = "resume" => i \in Instances /\ state[i] # Nil
            BY <2>1, <2>2 DEF Existing, In, Nil
        <3> QED BY <2>1, <2>4, <3>1, <3>2 DEF RequestFits
    <2>6. ASSUME ~disturbed PROVE StartIsSafe(r)
        BY <2>1, <2>4, <2>6 DEF StartIsSafe
    <2>7. \A d \in Containers \ {c} : ~disturbed => request[d].kind # "start"
        BY <2>1, OnlyStart
    <2>8. disturbed' = disturbed /\ disturbed' \in BOOLEAN /\ (disturbed => disturbed')
        BY DEF CloudInv, CloudTypes
    <2> QED BY <2>3, <2>4, <2>5, <2>6, <2>7, <2>8, MoveKeeps
<1> QED BY <1>1, <1>2

\* A request goes to another place, knowing what it has made sure of.
LEMMA GoesOn ==
    ASSUME CloudInv, NEW c \in Containers, NEW place \in RequestPlaces,
           NEW i \in Instances \union {Nil}, Goto(c, Moved(c, place, i)), request[c].at # "attach",
           RequestFits(Moved(c, place, i)),
           request[c].kind = "start" /\ ~disturbed => StartIsSafe(Moved(c, place, i)),
           UNCHANGED <<awsVars, targets, disturbed>>, terminating' \subseteq terminating \union Existing
    PROVE  CloudInv'
<1> DEFINE r == Moved(c, place, i)
<1>1. r \in Requests /\ r.kind = request[c].kind
    BY PlaceType
<1>2. disturbed' = disturbed /\ disturbed' \in BOOLEAN /\ (disturbed => disturbed')
    BY DEF CloudInv, CloudTypes
<1>3. ~disturbed' /\ r.kind = "start" => StartIsSafe(r) /\ \A d \in Containers \ {c} : request[d].kind # "start"
    BY <1>1, <1>2, OnlyStart
<1>4. request' = [request EXCEPT ![c] = r] /\ UNCHANGED awsVars /\ targets' = targets
    BY DEF Goto
<1> HIDE DEF r
<1>5. RequestFits(r)
    BY DEF r
<1> QED BY <1>1, <1>2, <1>3, <1>4, <1>5, MoveKeeps

LEMMA ExtrasExist == ASSUME NEW S, S \subseteq Existing PROVE Extras(S) \subseteq Existing
BY DEF Extras

LEMMA FindKeeps ==
    ASSUME CloudInv, NEW c \in Containers, Find(c)
    PROVE  CloudInv'
<1> DEFINE found == Of(request[c].project) \intersect Existing
           i == Keeper(found)
<1>1. /\ request[c].at = "find" /\ terminating' = terminating \union Extras(found)
      /\ UNCHANGED <<awsVars, targets, disturbed>>
      /\ \/ found = {} /\ SharedMode /\ Goto(c, Now(c, "find any"))
         \/ found = {} /\ ~SharedMode /\ Proceed(c, Nil, Nil)
         \/ found # {} /\ state[i] = "running" /\ Goto(c, [Now(c, "health") EXCEPT !.inst = i])
         \/ found # {} /\ state[i] # "running" /\ Proceed(c, i, state[i])
    BY DEF Find, Dedupe
<1>2. terminating' \subseteq terminating \union Existing
    BY <1>1, ExtrasExist
<1>3. request[c].kind = "start" /\ ~disturbed => StartIsSafe(request[c])
    BY OnlyStart
<1>4. CASE found = {} /\ SharedMode /\ Goto(c, Now(c, "find any"))
    <2> DEFINE r == Moved(c, "find any", request[c].inst)
    <2>0. "find any" \in RequestPlaces
        BY Places
    <2>1. /\ r.at = "find any" /\ r.kind = request[c].kind /\ r.project = request[c].project
          /\ Now(c, "find any") = r /\ request[c].inst \in Instances \union {Nil}
        BY <2>0, PlaceType, NowIsMoved
    <2> HIDE DEF r
    <2>2. RequestFits(r)
        BY <1>1, <1>4, <2>1, RequestType DEF RequestFits, Requests
    <2>3. ASSUME request[c].kind = "start", ~disturbed PROVE StartIsSafe(r)
        BY <1>1, <1>3, <1>4, <2>1, <2>3 DEF StartIsSafe, Existing, In, Of
    <2> QED BY <1>1, <1>2, <1>4, <2>1, <2>2, <2>3, <2>0, GoesOn DEF r
<1>5. CASE found = {} /\ ~SharedMode /\ Proceed(c, Nil, Nil)
    <2>1. request[c].kind = "start" /\ ~disturbed => \A j \in Existing : ~Rival(j, request[c].project)
        BY <1>5 DEF Rival, Of, Existing, In
    <2> QED BY <1>1, <1>2, <1>5, <2>1, ProceedKeeps DEF Nil
<1>6. ASSUME found # {} PROVE i \in found /\ i \in Instances
    BY <1>6, KeeperExists DEF CloudInv, Existing, In
<1>7. CASE found # {} /\ state[i] = "running" /\ Goto(c, [Now(c, "health") EXCEPT !.inst = i])
    <2> DEFINE r == Moved(c, "health", i)
    <2>1. i \in Instances
        BY <1>6, <1>7
    <2>2. state[i] # Nil
        BY <1>7 DEF Nil
    <2> HIDE DEF i
    <2>0. "health" \in RequestPlaces /\ i \in Instances \union {Nil}
        BY <2>1, Places
    <2>3. r.at = "health" /\ r.kind = request[c].kind /\ r.project = request[c].project /\ r.inst = i
        BY <2>0, PlaceType
    <2>4. Goto(c, r)
        BY <1>7 DEF Moved
    <2> HIDE DEF r
    <2>5. RequestFits(r)
        BY <1>1, <2>1, <2>2, <2>3, RequestType DEF RequestFits, Requests
    <2>6. StartIsSafe(r)
        BY <2>3 DEF StartIsSafe
    <2> QED BY <1>1, <1>2, <2>1, <2>4, <2>5, <2>6, <2>0, GoesOn DEF r
<1>8. CASE found # {} /\ state[i] # "running" /\ Proceed(c, i, state[i])
    <2>1. i \in Existing /\ i \in Of(request[c].project)
        BY <1>6, <1>8
    <2> HIDE DEF i
    <2>2. state[i] \in {"pending", "stopping", "stopped"}
        BY <1>8, <2>1 DEF Existing, In
    <2>3. state[i] = "stopping" /\ request[c].kind = "start" => disturbed
        BY <1>1, <1>3, <2>1 DEF StartIsSafe, Rival, Of, In, Existing
    <2> QED BY <1>1, <1>2, <1>8, <2>1, <2>2, <2>3, ProceedKeeps
<1> QED BY <1>1, <1>4, <1>5, <1>7, <1>8

LEMMA FindAnyKeeps ==
    ASSUME CloudInv, NEW c \in Containers, FindAny(c)
    PROVE  CloudInv'
<1>1. request[c].at = "find any" /\ SharedMode /\ UNCHANGED <<awsVars, terminating, targets, disturbed>>
    BY RequestType DEF FindAny, RequestFits
<1>2. ASSUME NEW i \in In({"running"}), Goto(c, [Now(c, "health") EXCEPT !.inst = i])
      PROVE  CloudInv'
    <2> DEFINE r == Moved(c, "health", i)
    <2>1. i \in Instances /\ state[i] # Nil
        BY DEF In, Nil
    <2>0. "health" \in RequestPlaces /\ i \in Instances \union {Nil}
        BY <2>1, Places
    <2>2. r.at = "health" /\ r.kind = request[c].kind /\ r.project = request[c].project /\ r.inst = i
        BY <2>0, PlaceType
    <2>3. Goto(c, r)
        BY <1>2 DEF Moved
    <2> HIDE DEF r
    <2>4. RequestFits(r)
        BY <1>1, <2>1, <2>2, RequestType DEF RequestFits, Requests
    <2>5. StartIsSafe(r)
        BY <2>2 DEF StartIsSafe
    <2> QED BY <1>1, <2>1, <2>3, <2>4, <2>5, <2>0, GoesOn DEF r
<1>3. CASE In({"running"}) = {} /\ Proceed(c, Nil, Nil)
    <2>1. ASSUME request[c].kind = "start", ~disturbed PROVE Existing = In({"stopped"})
        <3>1. StartIsSafe(request[c])
            BY <2>1, OnlyStart
        <3> QED BY <1>1, <1>3, <3>1 DEF StartIsSafe, Rival, Existing, In
    <2> QED BY <1>1, <1>3, <2>1, ProceedKeeps DEF Nil
<1> QED BY <1>2, <1>3 DEF FindAny

LEMMA TargetStepKeeps ==
    ASSUME CloudInv, NEW c \in Containers, TargetStep(c) \/ TargetFails(c)
    PROVE  CloudInv'
<1>0. /\ request[c].at \in {"health", "deregister", "register"} /\ UNCHANGED <<awsVars, terminating, disturbed>>
      /\ request[c] \in Requests /\ RequestFits(request[c])
    BY RequestType DEF TargetStep, TargetFails, Health, Deregister, Register
<1>1. CASE Answer(c) /\ (targets' = targets \/ Register(c))
    BY <1>0, <1>1, AnswerKeeps DEF Register
<1>2. ASSUME NEW place \in {"deregister", "register"}, NEW r \in Requests,
             r.at = place, r.inst = request[c].inst, r.kind = request[c].kind, r.project = request[c].project,
             Goto(c, r), targets' \subseteq targets
      PROVE  CloudInv'
    <2>1. RequestFits(r)
        BY <1>0, <1>2 DEF RequestFits
    <2>2. StartIsSafe(r)
        BY <1>2 DEF StartIsSafe
    <2>3. disturbed' = disturbed /\ disturbed' \in BOOLEAN /\ (disturbed => disturbed')
        BY <1>0 DEF CloudInv, CloudTypes
    <2>4. r.kind = "start" /\ ~disturbed' => \A d \in Containers \ {c} : request[d].kind # "start"
        BY <1>2, <2>3, OnlyStart
    <2>5. request' = [request EXCEPT ![c] = r] /\ UNCHANGED awsVars /\ terminating' = terminating
        BY <1>0, <1>2 DEF Goto
    <2> QED BY <1>0, <1>2, <2>1, <2>2, <2>3, <2>4, <2>5, MoveKeeps
<1>3. CASE Health(c)
    <2> DEFINE place == IF targets = {} THEN "register" ELSE "deregister"
               r == [Now(c, place) EXCEPT !.stale = targets]
    <2>1. CASE Answer(c)
        BY <1>1, <1>3, <2>1 DEF Health
    <2>2. CASE Goto(c, r)
        <3>1. place \in RequestPlaces /\ place \in {"deregister", "register"} /\ targets \subseteq Instances
            BY DEF RequestPlaces, CloudInv, CloudTypes
        <3> HIDE DEF place
        <3>2. /\ r \in Requests /\ r.at = place /\ r.inst = request[c].inst
              /\ r.kind = request[c].kind /\ r.project = request[c].project
            BY <1>0, <3>1 DEF Now, Requests
        <3>3. targets' = targets
            BY <1>3 DEF Health
        <3> HIDE DEF r
        <3> QED BY <1>2, <2>2, <3>1, <3>2, <3>3
    <2> QED BY <1>3, <2>1, <2>2 DEF Health
<1>4. CASE Deregister(c)
    <2> DEFINE r == Now(c, "register")
    <2>1. /\ r \in Requests /\ r.at = "register" /\ r.inst = request[c].inst
          /\ r.kind = request[c].kind /\ r.project = request[c].project
        BY <1>0 DEF Now, Requests, RequestPlaces
    <2>2. Goto(c, r) /\ targets' \subseteq targets
        BY <1>4 DEF Deregister
    <2> HIDE DEF r
    <2> QED BY <1>2, <2>1, <2>2
<1> QED BY <1>1, <1>3, <1>4 DEF TargetStep, TargetFails, Register

LEMMA ReuseKeeps ==
    ASSUME CloudInv, NEW c \in Containers, Reuse(c) \/ ResumeAny(c) \/ Resume(c) \/ CallFails(c)
    PROVE  CloudInv'
<1>0. /\ request[c] \in Requests /\ RequestFits(request[c])
      /\ request[c].at \notin {"idle", "attach"}
      /\ UNCHANGED <<awsVars, targets, disturbed>> /\ terminating' \subseteq terminating \union Existing
    BY RequestType, ExtrasExist DEF Reuse, ResumeAny, Resume, Dedupe, CallFails
<1>1. request[c].kind = "start" /\ ~disturbed => StartIsSafe(request[c])
    BY OnlyStart
<1>2. ASSUME NEW place \in RequestPlaces, NEW i \in Instances \union {Nil}, Goto(c, Moved(c, place, i)),
             request[c].at \in {"reuse", "resume any", "resume"},
             \/ place \in {"health", "start it"} /\ i \in Instances /\ state[i] # Nil
             \/ place = "resume any" /\ SharedMode /\ request[c].at = "reuse"
             \/ place = "launch" /\ request[c].at = "resume any" /\ In({"stopped"}) = {}
      PROVE  CloudInv'
    <2> DEFINE r == Moved(c, place, i)
    <2>1. r.at = place /\ r.kind = request[c].kind /\ r.project = request[c].project /\ r.inst = i
        BY <1>2, PlaceType
    <2>2. request[c].kind = "start"
        BY <1>0, <1>2 DEF Requests, RequestFits
    <2> HIDE DEF r
    <2>3. RequestFits(r)
        BY <1>0, <1>2, <2>1, <2>2 DEF RequestFits
    <2>4. ASSUME ~disturbed PROVE StartIsSafe(r)
        BY <1>1, <1>2, <2>1, <2>2, <2>4 DEF StartIsSafe
    <2> QED BY <1>0, <1>2, <2>3, <2>4, GoesOn DEF r
<1>3. CASE Reuse(c)
    <2>1. ASSUME NEW i \in In({"running"}), Goto(c, [Now(c, "health") EXCEPT !.inst = i]) PROVE CloudInv'
        <3>1. i \in Instances \union {Nil} /\ i \in Instances /\ state[i] # Nil /\ "health" \in RequestPlaces
            BY Places DEF In, Nil
        <3>2. Goto(c, Moved(c, "health", i)) /\ request[c].at = "reuse"
            BY <1>3, <2>1 DEF Moved, Reuse
        <3> QED BY <1>2, <3>1, <3>2
    <2>2. CASE Goto(c, Now(c, "resume any"))
        <3>1. "resume any" \in RequestPlaces
            BY Places
        <3>2. SharedMode /\ request[c].at = "reuse"
            BY <1>0, <1>3 DEF Reuse, RequestFits
        <3>3. Now(c, "resume any") = Moved(c, "resume any", request[c].inst) /\ request[c].inst \in Instances \union {Nil}
            BY <3>1, NowIsMoved
        <3> QED BY <1>2, <2>2, <3>1, <3>2, <3>3
    <2> QED BY <1>3, <2>1, <2>2 DEF Reuse
<1>4. CASE ResumeAny(c)
    <2> DEFINE i == Newest(In({"stopped"}))
    <2>1. CASE In({"stopped"}) # {} /\ Goto(c, [Now(c, "start it") EXCEPT !.inst = i])
        <3>1. i \in In({"stopped"})
            <4>1. In({"stopped"}) \subseteq Existing
                BY DEF Existing, In
            <4> QED BY <2>1, <4>1, NewestExists DEF CloudInv
        <3>2. i \in Instances \union {Nil} /\ i \in Instances /\ state[i] # Nil
            BY <3>1 DEF In, Nil
        <3> HIDE DEF i
        <3>3. Goto(c, Moved(c, "start it", i)) /\ request[c].at = "resume any" /\ "start it" \in RequestPlaces
            BY <1>4, <2>1, Places DEF Moved, ResumeAny
        <3> QED BY <1>2, <3>2, <3>3
    <2>2. CASE In({"stopped"}) = {} /\ Goto(c, Now(c, "launch"))
        <3>1. "launch" \in RequestPlaces /\ request[c].at = "resume any"
            BY <1>4, Places DEF ResumeAny
        <3>2. Now(c, "launch") = Moved(c, "launch", request[c].inst) /\ request[c].inst \in Instances \union {Nil}
            BY <3>1, NowIsMoved
        <3> QED BY <1>2, <2>2, <3>1, <3>2
    <2> QED BY <1>4, <2>1, <2>2 DEF ResumeAny
<1>5. CASE Resume(c)
    <2>1. "start it" \in RequestPlaces /\ request[c].at = "resume" /\ Goto(c, Now(c, "start it"))
        BY <1>5, Places DEF Resume
    <2>2. request[c].inst \in Instances /\ state[request[c].inst] # Nil
        BY <1>0, <2>1 DEF RequestFits
    <2>3. Now(c, "start it") = Moved(c, "start it", request[c].inst) /\ request[c].inst \in Instances \union {Nil}
        BY <2>1, NowIsMoved
    <2> QED BY <1>2, <2>1, <2>2, <2>3
<1>6. CASE CallFails(c)
    BY <1>0, <1>6, AnswerKeeps DEF CallFails
<1> QED BY <1>3, <1>4, <1>5, <1>6

-----------------------------------------------------------------------------
(* WorkspaceInstances: instances are launched, change and go               *)

LEMMA LaunchedKeepsOrder ==
    ASSUME LaunchOrder, NEW i, Launched(i), Existing' = Existing \union {i}
    PROVE  LaunchOrder'
<1>1. \A a, b :
          <<a, b>> \in newer' <=>
              (<<a, b>> \in newer /\ a # i /\ b # i) \/ (a = i /\ b \in Existing /\ b # i)
    <2>2. ASSUME NEW a, NEW b PROVE <<a, b>> \in Others(i) <=> <<a, b>> \in newer /\ a # i /\ b # i
        BY DEF Others
    <2> QED BY <2>2 DEF Launched
<1>2. newer' \subseteq Existing' \X Existing'
    BY DEF Launched, Others, LaunchOrder
<1> QED BY <1>1, <1>2 DEF LaunchOrder

LEMMA GoneKeepsOrder ==
    ASSUME LaunchOrder, NEW i, newer' = Others(i), Existing' = Existing \ {i}
    PROVE  LaunchOrder'
<1>1. \A a, b : <<a, b>> \in newer' <=> <<a, b>> \in newer /\ a # i /\ b # i
    BY DEF Others
<1>2. newer' \subseteq Existing' \X Existing'
    <2>1. ASSUME NEW pair \in newer' PROVE pair \in Existing' \X Existing'
        <3>1. pair \in Existing \X Existing /\ pair[1] # i /\ pair[2] # i
            BY <2>1 DEF Others, LaunchOrder
        <3> QED BY <3>1
    <2> QED BY <2>1
<1> QED BY <1>1, <1>2 DEF LaunchOrder

\* An existing instance changes its state, and a request may be answered.
LEMMA ShiftKeeps ==
    ASSUME CloudInv, NEW i \in Existing, NEW next \in {"pending", "running", "stopping", "stopped"},
           state' = [state EXCEPT ![i] = next], newer' = newer \/ Launched(i),
           UNCHANGED <<project, volume, targets, terminating>>,
           \A c \in Containers : request'[c] = request[c] \/ (request'[c] = NoRequest /\ request[c].at # "attach"),
           request' \in [Containers -> Requests],
           disturbed' \in BOOLEAN, disturbed => disturbed',
           ~disturbed' => StartsAreSafe'
    PROVE  CloudInv'
<1> USE DEF CloudInv
<1>1. /\ i \in Instances /\ state \in [Instances -> InstanceStates]
      /\ \A j \in Instances : state'[j] = IF j = i THEN next ELSE state[j]
    BY DEF CloudTypes, Existing, In
<1>2. Existing' = Existing
    BY <1>1 DEF Existing, In
<1>3. CloudTypes'
    BY <1>1 DEF CloudTypes, InstanceStates
<1>4. LaunchOrder'
    BY <1>2, LaunchedKeepsOrder DEF LaunchOrder
<1>5. \A j \in Instances : state'[j] = Nil <=> state[j] = Nil
    BY <1>1 DEF Existing, In, Nil
<1>6. RequestsFit'
    <2>1. ASSUME NEW c \in Containers PROVE RequestFits(request[c])' \/ request'[c] = NoRequest
        BY <1>5 DEF RequestsFit, RequestFits
    <2>2. ASSUME NEW c \in Containers, request'[c] = NoRequest PROVE RequestFits(request[c])'
        BY <2>2 DEF RequestFits, NoRequest, Nil
    <2> QED BY <2>1, <2>2 DEF RequestsFit
<1>7. InstancesTypeOK'
    <2>1. In({"pending", "running", "stopping", "stopped", "gone"})' = Instances \ In({Nil})'
        BY <1>3 DEF CloudTypes, InstanceStates, In, Nil
    <2>2. In({Nil})' = In({Nil})
        BY <1>5 DEF In
    <2>3. targets \subseteq Instances \ In({Nil}) /\ terminating \subseteq Instances \ In({Nil})
        BY DEF InstancesTypeOK, In, Nil
    <2>4. \A c \in Containers : request'[c].at \in {"health", "register", "deregister", "start it", "attach"}
                                => request'[c].inst \in Instances
        BY <1>6 DEF RequestsFit, RequestFits
    <2>5. \A p \in Projects : volume'[p] \in {Missing, Nil} \union (Of(p)' \intersect Existing')
        BY <1>2 DEF InstancesTypeOK, Of
    <2>6. \A j \in Instances : state'[j] = Nil <=> project'[j] = Nil
        BY <1>5 DEF InstancesTypeOK
    <2> QED BY <2>1, <2>2, <2>3, <2>4, <2>5, <2>6 DEF InstancesTypeOK
<1>8. ASSUME ~disturbed' PROVE Undisturbed'
    <2>1. AtMostOneStart'
        BY <1>8, NoRequestFits DEF Undisturbed, AtMostOneStart
    <2>2. AtMostOneEach'
        BY <1>2, <1>8 DEF Undisturbed, AtMostOneEach
    <2>3. VolumeIsThere'
        BY <1>2, <1>8 DEF Undisturbed, VolumeIsThere
    <2> QED BY <1>8, <2>1, <2>2, <2>3 DEF Undisturbed
<1> QED BY <1>3, <1>4, <1>6, <1>7, <1>8

LEMMA AwsShiftKeeps ==
    ASSUME CloudInv, NEW i \in Instances, Boots(i) \/ Halts(i) \/ AdminStops(i) \/ AdminStarts(i)
    PROVE  CloudInv'
<1>1. PICK next \in {"pending", "running", "stopping", "stopped"} :
          /\ state' = [state EXCEPT ![i] = next] /\ (newer' = newer \/ Launched(i))
          /\ \/ state[i] = "pending" /\ next = "running" /\ disturbed' = disturbed
             \/ state[i] = "stopping" /\ next = "stopped" /\ disturbed' = disturbed
             \/ /\ state[i] \in {"running", "stopped"}
                /\ disturbed' \in BOOLEAN /\ (disturbed => disturbed')
                /\ ~disturbed' => \A c \in Containers : request[c].kind # "start"
    BY DEF Boots, Halts, AdminStops, AdminStarts, Becomes, Kept, CloudInv, CloudTypes
<1>2. /\ project' = project /\ volume' = volume /\ request' = request
      /\ targets' = targets /\ terminating' = terminating /\ i \in Existing
    BY DEF Boots, Halts, AdminStops, AdminStarts, Becomes, Kept, Existing, In
<1>0. CloudTypes
    BY DEF CloudInv
<1>3. disturbed' \in BOOLEAN /\ (disturbed => disturbed')
    BY <1>0, <1>1 DEF CloudTypes
<1>4. ASSUME ~disturbed' PROVE StartsAreSafe'
    <2>1. StartsAreSafe /\ ~disturbed
        BY <1>3, <1>4 DEF CloudInv, Undisturbed
    <2>2. CASE \A c \in Containers : request[c].kind # "start"
        BY <1>2, <2>2 DEF StartsAreSafe
    <2>3. CASE state[i] = "pending" /\ next = "running"
        <3>1. /\ \A j \in Instances : state'[j] = IF j = i THEN "running" ELSE state[j]
              /\ UNCHANGED <<project, volume, request>>
            BY <1>0, <1>1, <1>2, <2>3 DEF CloudTypes
        <3>2. Existing' = Existing /\ In({"stopping"})' = In({"stopping"})
              /\ In({"pending"})' \subseteq In({"pending"}) /\ In({"stopped"})' = In({"stopped"})
            BY <2>3, <3>1 DEF Existing, In
        <3> QED BY <2>1, <3>1, <3>2 DEF StartsAreSafe, StartIsSafe, Rival
    <2>4. CASE state[i] = "stopping" /\ next = "stopped"
        <3>1. /\ \A j \in Instances : state'[j] = IF j = i THEN "stopped" ELSE state[j]
              /\ UNCHANGED <<project, volume, request>>
            BY <1>0, <1>1, <1>2, <2>4 DEF CloudTypes
        <3>2. Existing' = Existing /\ In({"stopping"})' \subseteq In({"stopping"})
              /\ In({"pending"})' = In({"pending"}) /\ i \in Existing /\ i \notin In({"stopped"})
            BY <1>2, <2>4, <3>1 DEF Existing, In
        <3> QED BY <2>1, <3>1, <3>2 DEF StartsAreSafe, StartIsSafe, Rival
    <2> QED BY <1>1, <1>4, <2>2, <2>3, <2>4
<1>5. request' \in [Containers -> Requests]
    BY <1>0, <1>2 DEF CloudTypes
<1> QED BY <1>1, <1>2, <1>3, <1>4, <1>5, ShiftKeeps

LEMMA StartItKeeps ==
    ASSUME CloudInv, NEW c \in Containers, StartIt(c)
    PROVE  CloudInv'
<1> DEFINE i == request[c].inst
<1>1. request[c].at = "start it" /\ Answer(c) /\ UNCHANGED <<project, volume, targets, terminating, disturbed>>
    BY DEF StartIt
<1>2. i \in Instances /\ request[c].kind = "start"
    BY <1>1, RequestType DEF RequestFits, Requests
<1>3. CASE state[i] = "stopped"
    <2>1. state' = [state EXCEPT ![i] = "pending"] /\ Launched(i)
        BY <1>3 DEF StartIt
    <2>2. i \in Existing
        BY <1>2, <1>3 DEF Existing, In
    <2>3. /\ request' \in [Containers -> Requests] /\ request'[c] = NoRequest
          /\ \A d \in Containers \ {c} : request'[d] = request[d]
        BY <1>1, NoRequestFits DEF Answer, Goto, CloudInv, CloudTypes
    <2>4. disturbed' = disturbed /\ disturbed' \in BOOLEAN /\ (disturbed => disturbed')
        BY <1>1 DEF CloudInv, CloudTypes
    <2>5. ~disturbed' => StartsAreSafe'
        BY <1>2, <2>3, <2>4, OnlyStart, NoRequestFits DEF StartsAreSafe
    <2>6. \A d \in Containers : request'[d] = request[d] \/ (request'[d] = NoRequest /\ request[d].at # "attach")
        BY <1>1, <2>3
    <2>7. project' = project /\ volume' = volume /\ targets' = targets /\ terminating' = terminating
        BY <1>1
    <2>8. request' \in [Containers -> Requests] /\ "pending" \in {"pending", "running", "stopping", "stopped"}
        BY <2>3
    <2> HIDE DEF i
    <2> QED BY <2>1, <2>2, <2>4, <2>5, <2>6, <2>7, <2>8, ShiftKeeps
<1>4. CASE state[i] # "stopped"
    <2>1. UNCHANGED awsVars
        BY <1>1, <1>4 DEF StartIt, awsVars
    <2> QED BY <1>1, <2>1, AnswerKeeps
<1> QED BY <1>3, <1>4

\* A request that goes on waiting still fits when instances are not forgotten.
LEMMA WaitingFits ==
    ASSUME CloudTypes, NEW d \in Containers, RequestFits(request[d]), request'[d] = request[d],
           \A i \in Instances : state[i] # Nil => state'[i] # Nil /\ project'[i] = project[i],
           \A q \in Projects : volume[q] # Missing => volume'[q] # Missing
    PROVE  RequestFits(request[d])'
<1> DEFINE r == request[d]
<1>1. r.kind # Nil => r.project \in Projects
    BY DEF RequestFits
<1>2. r.at = "run" => volume'[r.project] # Missing
    BY DEF RequestFits
<1>3. r.at \in {"health", "deregister", "register", "resume", "start it", "attach"}
         => r.inst \in Instances /\ state'[r.inst] # Nil /\ project'[r.inst] = project[r.inst]
    BY DEF RequestFits
<1> QED BY <1>2, <1>3 DEF RequestFits

LEMMA GoneKeeps ==
    ASSUME CloudInv, NEW i \in Instances, Terminates(i) \/ AdminTerminates(i)
    PROVE  CloudInv'
<1> USE DEF CloudInv
<1>1. /\ state' = [state EXCEPT ![i] = "gone"] /\ newer' = Others(i)
      /\ volume' = [p \in Projects |-> IF volume[p] = i THEN Nil ELSE volume[p]]
      /\ project' = project /\ targets' = targets /\ request' = request /\ disturbed' = disturbed
      /\ terminating' \subseteq terminating
    BY DEF Terminates, AdminTerminates, Becomes, Released, Kept
<1>2. state[i] # Nil /\ i # Missing /\ i # Nil
    BY NilIsOther DEF Terminates, AdminTerminates, InstancesTypeOK, Existing, In, Nil
<1>3. \A j \in Instances : state'[j] = IF j = i THEN "gone" ELSE state[j]
    BY <1>1 DEF CloudTypes
<1>4. Existing' = Existing \ {i}
    BY <1>3 DEF Existing, In
<1>5. CloudTypes'
    BY <1>1 DEF CloudTypes, InstanceStates
<1>6. LaunchOrder'
    BY <1>1, <1>4, GoneKeepsOrder
<1>7. \A j \in Instances : state'[j] = Nil <=> state[j] = Nil
    BY <1>2, <1>3 DEF Nil
<1>8. RequestsFit'
    <2>1. \A j \in Instances : state[j] # Nil => state'[j] # Nil /\ project'[j] = project[j]
        BY <1>1, <1>7
    <2>2. \A q \in Projects : volume[q] # Missing => volume'[q] # Missing
        BY <1>1, <1>2 DEF Nil, Missing
    <2>3. ASSUME NEW d \in Containers PROVE RequestFits(request[d])'
        BY <1>1, <2>1, <2>2, WaitingFits DEF RequestsFit
    <2> QED BY <2>3 DEF RequestsFit
<1>9. InstancesTypeOK'
    <2>1. In({"pending", "running", "stopping", "stopped", "gone"})' = Instances \ In({Nil})'
        BY <1>5 DEF CloudTypes, InstanceStates, In, Nil
    <2>2. In({Nil})' = In({Nil})
        BY <1>7 DEF In
    <2>3. targets \subseteq Instances \ In({Nil}) /\ terminating \subseteq Instances \ In({Nil})
        BY DEF InstancesTypeOK, In, Nil
    <2>4. \A p \in Projects : volume'[p] \in {Missing, Nil} \union (Of(p)' \intersect Existing')
        BY <1>1, <1>4 DEF InstancesTypeOK, Of
    <2>5. \A j \in Instances : state'[j] = Nil <=> project'[j] = Nil
        BY <1>1, <1>7 DEF InstancesTypeOK
    <2> QED BY <1>1, <2>1, <2>2, <2>3, <2>4, <2>5 DEF InstancesTypeOK
<1>10. ASSUME ~disturbed' PROVE Undisturbed'
    <2>1. Undisturbed
        BY <1>1, <1>10
    <2>2. AtMostOneStart' /\ AtMostOneEach'
        BY <1>1, <1>4, <2>1 DEF Undisturbed, AtMostOneStart, AtMostOneEach
    <2>3. /\ In({"stopping"})' \subseteq In({"stopping"}) /\ In({"pending"})' \subseteq In({"pending"})
          /\ In({"stopped"})' = In({"stopped"}) \ {i}
        BY <1>3 DEF In
    <2>4. \A p \in Projects : volume[p] = Nil => volume'[p] = Nil
        BY <1>1
    <2>5. StartsAreSafe'
        BY <1>1, <1>4, <2>1, <2>3, <2>4 DEF Undisturbed, StartsAreSafe, StartIsSafe, Rival, RequestsFit, RequestFits
    <2>6. VolumeIsThere'
        <3>1. ASSUME NEW j \in Existing' PROVE project[j] \in Projects
            BY <1>4, <3>1 DEF Existing, In, InstancesTypeOK, CloudTypes, Nil
        <3> QED BY <1>1, <1>4, <2>1, <3>1 DEF Undisturbed, VolumeIsThere
    <2> QED BY <2>2, <2>5, <2>6 DEF Undisturbed
<1> QED BY <1>5, <1>6, <1>8, <1>9, <1>10

LEMMA TerminationFailsKeeps ==
    ASSUME CloudInv, NEW i \in Instances, TerminationFails(i)
    PROVE  CloudInv'
<1> USE DEF CloudInv
<1>1. /\ state' = state /\ project' = project /\ newer' = newer /\ volume' = volume
      /\ targets' = targets /\ request' = request /\ disturbed' = disturbed
      /\ terminating' \subseteq terminating
    BY DEF TerminationFails, awsVars
<1>2. CloudTypes' /\ LaunchOrder'
    BY <1>1 DEF CloudTypes, LaunchOrder, Existing, In
<1>3. InstancesTypeOK' /\ RequestsFit'
    BY <1>1 DEF InstancesTypeOK, RequestsFit, RequestFits, Existing, In, Of
<1>4. /\ AtMostOneStart => AtMostOneStart'
      /\ AtMostOneEach => AtMostOneEach'
      /\ VolumeIsThere => VolumeIsThere'
    BY <1>1 DEF AtMostOneStart, AtMostOneEach, VolumeIsThere, Existing, In
<1>5. StartsAreSafe => StartsAreSafe'
    BY <1>1 DEF StartsAreSafe, StartIsSafe, Rival, Existing, In
<1> QED BY <1>1, <1>2, <1>3, <1>4, <1>5 DEF Undisturbed

-----------------------------------------------------------------------------
(* WorkspaceInstances: a launch and its volume                             *)

LEMMA LaunchKeeps ==
    ASSUME CloudInv, NEW c \in Containers, Launch(c)
    PROVE  CloudInv'
<1> USE DEF CloudInv
<1> DEFINE p == request[c].project
           r == Now(c, "run")
<1>1. /\ request[c].at = "launch" /\ request' = [request EXCEPT ![c] = r]
      /\ volume' = IF volume[p] = Missing THEN [volume EXCEPT ![p] = Nil] ELSE volume
      /\ state' = state /\ project' = project /\ newer' = newer
      /\ targets' = targets /\ terminating' = terminating /\ disturbed' = disturbed
    BY DEF Launch, Goto
<1>2. request[c].kind = "start" /\ p \in Projects
    BY <1>1, RequestType DEF RequestFits, Requests
<1>3. /\ r \in Requests /\ r.at = "run" /\ r.kind = "start" /\ r.project = p
      /\ request'[c] = r /\ request' \in [Containers -> Requests]
      /\ \A d \in Containers \ {c} : request'[d] = request[d]
    BY <1>1, <1>2, RequestType DEF Now, Requests, RequestPlaces, CloudTypes
<1> HIDE DEF r
<1>4. /\ volume' \in [Projects -> Instances \union {Nil, Missing}]
      /\ \A q \in Projects : volume'[q] = IF q = p /\ volume[p] = Missing THEN Nil ELSE volume[q]
    BY <1>1, <1>2 DEF CloudTypes
<1>5. Existing' = Existing /\ \A S : In(S)' = In(S)
    BY <1>1 DEF Existing, In
<1>6. CloudTypes' /\ LaunchOrder'
    BY <1>1, <1>3, <1>4, <1>5 DEF CloudTypes, LaunchOrder
<1>7. RequestsFit'
    <2>1. volume'[p] # Missing /\ \A q \in Projects : volume[q] # Missing => volume'[q] # Missing
        BY <1>2, <1>4 DEF Nil, Missing
    <2>2. RequestFits(request[c])'
        BY <1>2, <1>3, <2>1 DEF RequestFits
    <2>3. ASSUME NEW d \in Containers \ {c} PROVE RequestFits(request[d])'
        BY <1>1, <1>3, <2>1, WaitingFits DEF RequestsFit
    <2> QED BY <2>2, <2>3 DEF RequestsFit
<1>8. InstancesTypeOK'
    <2>1. \A q \in Projects : volume'[q] \in {Missing, Nil} \union (Of(q)' \intersect Existing')
        BY <1>1, <1>4, <1>5 DEF InstancesTypeOK, Of
    <2>2. \A d \in Containers : request'[d].at \in {"health", "register", "deregister", "start it", "attach"}
                                => request'[d].inst \in Instances
        BY <1>7 DEF RequestsFit, RequestFits
    <2> QED BY <1>1, <1>5, <2>1, <2>2 DEF InstancesTypeOK
<1>9. ASSUME ~disturbed' PROVE Undisturbed'
    <2>1. Undisturbed /\ ~disturbed
        BY <1>1, <1>9
    <2>2. StartIsSafe(request[c]) /\ \A d \in Containers \ {c} : request[d].kind # "start"
        BY <1>2, <2>1, OnlyStart
    <2>3. AtMostOneStart' /\ AtMostOneEach'
        BY <1>1, <1>3, <1>5, <2>1, <2>2 DEF Undisturbed, AtMostOneStart, AtMostOneEach
    <2>4. \A i \in Existing : project[i] # p
        BY <1>1, <2>2 DEF StartIsSafe, Rival
    <2>5. volume'[p] = Nil
        BY <1>2, <1>4, <2>4 DEF InstancesTypeOK, Of
    <2>6. StartIsSafe(request[c])'
        BY <1>1, <1>3, <1>5, <2>2, <2>5 DEF StartIsSafe, Rival
    <2>7. StartsAreSafe'
        <3>1. \A d \in Containers : request'[d].kind = "start" => d = c
            BY <1>3, <2>2
        <3> QED BY <2>6, <3>1 DEF StartsAreSafe
    <2>8. VolumeIsThere'
        <3>1. ASSUME NEW i \in Existing PROVE project[i] \in Projects /\ i # Missing
            BY NilIsOther DEF Existing, In, InstancesTypeOK, CloudTypes, Nil
        <3>2. ASSUME NEW i \in Existing, volume[project[i]] = i PROVE volume'[project[i]] = i
            BY <1>4, <2>4, <3>1, <3>2
        <3>3. ASSUME NEW i \in Existing, NEW d \in Containers, request[d].at = "attach" /\ request[d].inst = i
              PROVE  d # c /\ request'[d] = request[d]
            BY <1>1, <1>3, <3>3
        <3> QED BY <1>1, <1>5, <2>1, <3>2, <3>3 DEF Undisturbed, VolumeIsThere
    <2> QED BY <2>3, <2>7, <2>8 DEF Undisturbed
<1> QED BY <1>6, <1>7, <1>8, <1>9

LEMMA RunInstanceKeeps ==
    ASSUME CloudInv, NEW c \in Containers, RunInstance(c)
    PROVE  CloudInv'
<1> USE DEF CloudInv
<1> DEFINE p == request[c].project
<1>1. PICK i \in In({Nil}) :
          /\ state' = [state EXCEPT ![i] = "pending"] /\ Launched(i)
          /\ project' = [project EXCEPT ![i] = p]
          /\ Goto(c, Moved(c, "attach", i))
    BY DEF RunInstance, Moved
<1>2. /\ request[c].at = "run" /\ volume' = volume
      /\ targets' = targets /\ terminating' = terminating /\ disturbed' = disturbed
    BY DEF RunInstance
<1>3. request[c].kind = "start" /\ p \in Projects
    BY <1>2, RequestType DEF RequestFits, Requests
<1>4. i \in Instances /\ state[i] = Nil /\ project[i] = Nil /\ i \notin Existing
    BY DEF In, Existing, InstancesTypeOK, Nil
<1>5. /\ Moved(c, "attach", i) \in Requests
      /\ request' \in [Containers -> Requests]
      /\ request'[c].at = "attach" /\ request'[c].kind = "start" /\ request'[c].project = p
      /\ request'[c].inst = i
      /\ \A d \in Containers \ {c} : request'[d] = request[d]
    <2>1. "attach" \in RequestPlaces /\ i \in Instances \union {Nil}
        BY <1>4 DEF RequestPlaces
    <2>2. /\ Moved(c, "attach", i) \in Requests
          /\ Moved(c, "attach", i).at = "attach" /\ Moved(c, "attach", i).inst = i
          /\ Moved(c, "attach", i).kind = "start" /\ Moved(c, "attach", i).project = p
        BY <1>3, <2>1, PlaceType
    <2>3. request' = [request EXCEPT ![c] = Moved(c, "attach", i)]
        BY <1>1 DEF Goto
    <2> QED BY <2>2, <2>3 DEF CloudTypes
<1>6. /\ \A j \in Instances : state'[j] = IF j = i THEN "pending" ELSE state[j]
      /\ \A j \in Instances : project'[j] = IF j = i THEN p ELSE project[j]
    BY <1>1 DEF CloudTypes
<1>7. /\ Existing' = Existing \union {i}
      /\ In({"stopping"})' = In({"stopping"}) /\ In({Nil})' = In({Nil}) \ {i}
    BY <1>4, <1>6 DEF Existing, In, Nil
<1>8. CloudTypes'
    BY <1>1, <1>2, <1>3, <1>5 DEF CloudTypes, InstanceStates
<1>9. LaunchOrder'
    BY <1>1, <1>7, LaunchedKeepsOrder
<1>10. RequestsFit'
    <2>1. RequestFits(request[c])'
        BY <1>3, <1>4, <1>5, <1>6 DEF RequestFits, Nil
    <2>2. \A j \in Instances : state[j] # Nil => state'[j] # Nil /\ project'[j] = project[j]
        BY <1>4, <1>6
    <2>3. ASSUME NEW d \in Containers \ {c} PROVE RequestFits(request[d])'
        BY <1>2, <1>5, <2>2, WaitingFits DEF RequestsFit
    <2> QED BY <2>1, <2>3 DEF RequestsFit
<1>11. InstancesTypeOK'
    <2>1. In({"pending", "running", "stopping", "stopped", "gone"})' = Instances \ In({Nil})'
        BY <1>8 DEF CloudTypes, InstanceStates, In, Nil
    <2>2. targets \subseteq Instances \ In({Nil}) /\ terminating \subseteq Instances \ In({Nil})
        BY DEF InstancesTypeOK, In, Nil
    <2>3. ASSUME NEW q \in Projects
          PROVE volume'[q] \in {Missing, Nil} \union (Of(q)' \intersect Existing')
        <3>1. Of(q) \intersect Existing \subseteq Of(q)' \intersect Existing'
            BY <1>4, <1>6, <1>7 DEF Of
        <3> QED BY <1>2, <3>1 DEF InstancesTypeOK
    <2>4. \A j \in Instances : state'[j] = Nil <=> project'[j] = Nil
        BY <1>3, <1>6, NilIsOther DEF InstancesTypeOK, Nil
    <2>5. \A d \in Containers : request'[d].at \in {"health", "register", "deregister", "start it", "attach"}
                                => request'[d].inst \in Instances
        BY <1>10 DEF RequestsFit, RequestFits
    <2> QED BY <1>2, <1>7, <2>1, <2>2, <2>3, <2>4, <2>5 DEF InstancesTypeOK
<1>12. ASSUME ~disturbed' PROVE Undisturbed'
    <2>1. Undisturbed /\ ~disturbed
        BY <1>2, <1>12
    <2>2. StartIsSafe(request[c]) /\ \A d \in Containers \ {c} : request[d].kind # "start"
        BY <1>3, <2>1, OnlyStart
    <2>3. volume[p] = Nil /\ \A j \in Existing : ~SharedMode /\ project[j] # p
        BY <1>2, <2>2 DEF StartIsSafe, Rival
    <2>4. AtMostOneStart'
        BY <1>5, <2>2 DEF AtMostOneStart
    <2>5. AtMostOneEach'
        <3>1. \A j \in Existing : j \in Instances /\ j # i
            BY <1>4 DEF Existing, In
        <3> QED BY <1>4, <1>6, <1>7, <2>1, <2>3, <3>1 DEF Undisturbed, AtMostOneEach
    <2>6. StartsAreSafe'
        <3>1. StartIsSafe(request[c])'
            BY <1>2, <1>5, <2>3 DEF StartIsSafe
        <3>2. \A d \in Containers : request'[d].kind = "start" => d = c
            BY <1>5, <2>2
        <3> QED BY <3>1, <3>2 DEF StartsAreSafe
    <2>7. VolumeIsThere'
        <3>1. ASSUME NEW j \in Existing
              PROVE \/ volume'[project'[j]] = j
                    \/ \E d \in Containers : request'[d].at = "attach" /\ request'[d].inst = j
            <4>1. project'[j] = project[j]
                BY <1>4, <1>6 DEF Existing, In
            <4>2. \A d \in Containers : request[d].at = "attach" => request'[d] = request[d]
                BY <1>2, <1>5
            <4> QED BY <1>2, <2>1, <4>1, <4>2 DEF Undisturbed, VolumeIsThere
        <3> QED BY <1>5, <1>7, <3>1 DEF VolumeIsThere
    <2> QED BY <2>4, <2>5, <2>6, <2>7 DEF Undisturbed
<1> QED BY <1>8, <1>9, <1>10, <1>11, <1>12

LEMMA AttachKeeps ==
    ASSUME CloudInv, NEW c \in Containers, Attach(c)
    PROVE  CloudInv'
<1> USE DEF CloudInv
<1> DEFINE p == request[c].project
           i == request[c].inst
<1>1. /\ request[c].at = "attach" /\ request' = [request EXCEPT ![c] = NoRequest]
      /\ volume' = IF volume[p] = Nil /\ i \in Existing THEN [volume EXCEPT ![p] = i] ELSE volume
      /\ state' = state /\ project' = project /\ newer' = newer
      /\ targets' = targets /\ terminating' = terminating /\ disturbed' = disturbed
    BY DEF Attach, Answer, Goto
<1>2. request[c].kind = "start" /\ p \in Projects /\ i \in Instances /\ project[i] = p
    BY <1>1, RequestType DEF RequestFits, Requests
<1>3. /\ request'[c] = NoRequest /\ request' \in [Containers -> Requests]
      /\ \A d \in Containers \ {c} : request'[d] = request[d]
    BY <1>1, NoRequestFits DEF CloudTypes
<1> HIDE DEF i
<1>4. /\ volume' \in [Projects -> Instances \union {Nil, Missing}]
      /\ \A q \in Projects :
             volume'[q] = IF q = p /\ volume[p] = Nil /\ i \in Existing THEN i ELSE volume[q]
    BY <1>1, <1>2 DEF CloudTypes
<1>5. Existing' = Existing /\ \A S : In(S)' = In(S)
    BY <1>1 DEF Existing, In
<1>6. CloudTypes' /\ LaunchOrder'
    BY <1>1, <1>3, <1>4, <1>5 DEF CloudTypes, LaunchOrder
<1>7. RequestsFit'
    <2>1. \A q \in Projects : volume[q] # Missing => volume'[q] # Missing
        BY <1>2, <1>4, NilIsOther
    <2>2. ASSUME NEW d \in Containers \ {c} PROVE RequestFits(request[d])'
        BY <1>1, <1>3, <2>1, WaitingFits DEF RequestsFit
    <2>3. RequestFits(request[c])'
        BY <1>3 DEF RequestFits, NoRequest, Nil
    <2> QED BY <2>2, <2>3 DEF RequestsFit
<1>8. InstancesTypeOK'
    <2>1. \A q \in Projects : volume'[q] \in {Missing, Nil} \union (Of(q)' \intersect Existing')
        BY <1>1, <1>2, <1>4, <1>5 DEF InstancesTypeOK, Of
    <2>2. \A d \in Containers : request'[d].at \in {"health", "register", "deregister", "start it", "attach"}
                                => request'[d].inst \in Instances
        BY <1>7 DEF RequestsFit, RequestFits
    <2> QED BY <1>1, <1>5, <2>1, <2>2 DEF InstancesTypeOK
<1>9. ASSUME ~disturbed' PROVE Undisturbed'
    <2>1. Undisturbed /\ ~disturbed
        BY <1>1, <1>9
    <2>2. StartIsSafe(request[c]) /\ \A d \in Containers \ {c} : request[d].kind # "start"
        BY <1>2, <2>1, OnlyStart
    <2>3. volume[p] = Nil
        BY <1>1, <2>2 DEF StartIsSafe
    <2>4. \A d \in Containers : request'[d].kind # "start"
        BY <1>3, <2>2, NoRequestFits
    <2>5. AtMostOneStart' /\ AtMostOneEach' /\ StartsAreSafe'
        BY <1>1, <1>5, <2>1, <2>4 DEF Undisturbed, AtMostOneStart, AtMostOneEach, StartsAreSafe
    <2>6. VolumeIsThere'
        <3>1. ASSUME NEW j \in Existing
              PROVE \/ volume'[project[j]] = j
                    \/ \E d \in Containers : request'[d].at = "attach" /\ request'[d].inst = j
            <4>1. project[j] \in Projects /\ j # Nil
                BY NilIsOther DEF Existing, In, InstancesTypeOK, CloudTypes, Nil
            <4>2. CASE volume[project[j]] = j
                BY <1>4, <2>3, <4>1, <4>2
            <4>3. ASSUME NEW d \in Containers, request[d].at = "attach" /\ request[d].inst = j
                  PROVE  d = c \/ request'[d] = request[d]
                BY <1>3
            <4>4. CASE j = i
                BY <1>2, <1>4, <2>3, <4>4
            <4> QED BY <2>1, <4>2, <4>3, <4>4 DEF Undisturbed, VolumeIsThere, i
        <3> QED BY <1>1, <1>5, <3>1 DEF VolumeIsThere
    <2> QED BY <2>5, <2>6 DEF Undisturbed
<1> QED BY <1>6, <1>7, <1>8, <1>9

LEMMA AttachFailsKeeps ==
    ASSUME CloudInv, NEW c \in Containers, AttachFails(c)
    PROVE  CloudInv'
<1> USE DEF CloudInv
<1>1. /\ request' = [request EXCEPT ![c] = NoRequest]
      /\ state' = state /\ project' = project /\ newer' = newer /\ volume' = volume
      /\ targets' = targets /\ terminating' = terminating /\ disturbed' = TRUE
    BY DEF AttachFails, Answer, Goto, awsVars
<1>2. /\ request' \in [Containers -> Requests]
      /\ \A d \in Containers : request'[d] = request[d] \/ request'[d] = NoRequest
    BY <1>1, NoRequestFits DEF CloudTypes
<1>3. Existing' = Existing /\ \A S : In(S)' = In(S)
    BY <1>1 DEF Existing, In
<1>4. CloudTypes' /\ LaunchOrder'
    BY <1>1, <1>2, <1>3 DEF CloudTypes, LaunchOrder
<1>5. RequestsFit'
    <2>1. ASSUME NEW d \in Containers, request'[d] = NoRequest PROVE RequestFits(request[d])'
        BY <2>1 DEF RequestFits, NoRequest, Nil
    <2>2. ASSUME NEW d \in Containers, request'[d] = request[d] PROVE RequestFits(request[d])'
        BY <1>1, <2>2, WaitingFits DEF RequestsFit
    <2> QED BY <1>2, <2>1, <2>2 DEF RequestsFit
<1>6. InstancesTypeOK'
    <2>1. \A d \in Containers : request'[d].at \in {"health", "register", "deregister", "start it", "attach"}
                                => request'[d].inst \in Instances
        BY <1>5 DEF RequestsFit, RequestFits
    <2> QED BY <1>1, <1>3, <2>1 DEF InstancesTypeOK, Of
<1> QED BY <1>1, <1>4, <1>5, <1>6

-----------------------------------------------------------------------------
(* WorkspaceInstances: the theorems                                        *)

LEMMA CloudInit == InstancesInit => CloudInv
<1> SUFFICES ASSUME InstancesInit PROVE CloudInv
    OBVIOUS
<1>1. /\ state = [i \in Instances |-> Nil] /\ project = [i \in Instances |-> Nil]
      /\ newer = {} /\ terminating = {} /\ targets = {}
      /\ volume = [p \in Projects |-> Missing]
      /\ request = [c \in Containers |-> NoRequest] /\ disturbed = FALSE
    BY DEF InstancesInit
<1>2. Existing = {} /\ In({"stopping"}) = {} /\ In({Nil}) = Instances
    BY <1>1 DEF Existing, In, Nil
<1>3. \A c \in Containers : request[c] = NoRequest
    BY <1>1
<1>4. CloudTypes
    BY <1>1, NoRequestFits DEF CloudTypes, InstanceStates
<1>5. LaunchOrder
    BY <1>1, <1>2 DEF LaunchOrder
<1>6. RequestsFit
    BY <1>3, NoRequestFits DEF RequestsFit
<1>7. InstancesTypeOK
    BY <1>1, <1>3 DEF InstancesTypeOK, NoRequest
<1>8. Undisturbed
    BY <1>2, <1>3, NoRequestFits DEF Undisturbed, AtMostOneStart, AtMostOneEach, StartsAreSafe, VolumeIsThere
<1> QED BY <1>4, <1>5, <1>6, <1>7, <1>8 DEF CloudInv

LEMMA CloudStutters ==
    ASSUME CloudInv, UNCHANGED instancesVars
    PROVE  CloudInv'
<1>1. /\ state' = state /\ project' = project /\ newer' = newer /\ volume' = volume /\ request' = request
      /\ targets' = targets /\ terminating' = terminating /\ disturbed' = disturbed
    BY DEF instancesVars, awsVars
<1>2. Existing' = Existing /\ \A S : In(S)' = In(S)
    BY <1>1 DEF Existing, In
<1>3. (CloudTypes => CloudTypes') /\ (LaunchOrder => LaunchOrder')
    BY <1>1, <1>2 DEF CloudTypes, LaunchOrder
<1>4. RequestsFit => RequestsFit'
    BY <1>1 DEF RequestsFit, RequestFits
<1>5. InstancesTypeOK => InstancesTypeOK'
    BY <1>1, <1>2 DEF InstancesTypeOK, Of
<1>6. (AtMostOneStart => AtMostOneStart') /\ (AtMostOneEach => AtMostOneEach') /\ (VolumeIsThere => VolumeIsThere')
    BY <1>1, <1>2 DEF AtMostOneStart, AtMostOneEach, VolumeIsThere
<1>7. StartsAreSafe => StartsAreSafe'
    BY <1>1, <1>2 DEF StartsAreSafe, StartIsSafe, Rival
<1> QED BY <1>1, <1>3, <1>4, <1>5, <1>6, <1>7 DEF CloudInv, Undisturbed

LEMMA CloudNext ==
    ASSUME CloudInv, [InstancesNext]_instancesVars
    PROVE  CloudInv'
<1>1. ASSUME NEW c \in Containers,
             \/ \E p \in Projects : Arrives(c, p, "start") \/ Arrives(c, p, "status")
             \/ FindStep(c) \/ TargetStep(c) \/ StartStep(c)
             \/ TargetFails(c) \/ AttachFails(c) \/ CallFails(c)
      PROVE  CloudInv'
    <2>1. CASE \E p \in Projects : Arrives(c, p, "start") \/ Arrives(c, p, "status")
        BY <2>1, ArrivesKeeps
    <2>2. CASE FindStep(c)
        BY <2>2, FindKeeps, FindAnyKeeps DEF FindStep
    <2>3. CASE TargetStep(c) \/ TargetFails(c)
        BY <2>3, TargetStepKeeps
    <2>4. CASE Reuse(c) \/ ResumeAny(c) \/ Resume(c) \/ CallFails(c)
        BY <2>4, ReuseKeeps
    <2>5. CASE StartIt(c) \/ Launch(c) \/ RunInstance(c)
        BY <2>5, StartItKeeps, LaunchKeeps, RunInstanceKeeps
    <2>6. CASE Attach(c) \/ AttachFails(c)
        BY <2>6, AttachKeeps, AttachFailsKeeps
    <2> QED BY <1>1, <2>1, <2>2, <2>3, <2>4, <2>5, <2>6 DEF StartStep
<1>2. ASSUME NEW i \in Instances,
             AwsStep(i) \/ TerminationFails(i) \/ AdminStops(i) \/ AdminTerminates(i) \/ AdminStarts(i)
      PROVE  CloudInv'
    BY <1>2, AwsShiftKeeps, GoneKeeps, TerminationFailsKeeps DEF AwsStep
<1>3. CASE UNCHANGED instancesVars
    BY <1>3, CloudStutters
<1> QED BY <1>1, <1>2, <1>3 DEF InstancesNext

LEMMA CloudInductive == InstancesSpec => []CloudInv
BY CloudInit, CloudNext, PTL DEF InstancesSpec

LEMMA OneAtMost ==
    ASSUME NEW S, S \subseteq Instances, \A i, j \in S : i = j
    PROVE  Cardinality(S) <= 1
<1>1. CASE S = {}
    BY <1>1, FS_EmptySet
<1>2. ASSUME NEW i \in S PROVE Cardinality(S) <= 1
    <2>1. S = {i}
        OBVIOUS
    <2> QED BY <2>1, FS_Singleton
<1> QED BY <1>1, <1>2

\* Starts that come one after the other, each once the servers came to rest, never leave a
\* project, or in shared mode the account, with a second server, whatever AWS and an admin
\* stop and terminate in between (startWorkspace); and the types.
THEOREM ServersStayAlone == InstancesSpec => []OneServer
<1>1. CloudInv => OneServer
    <2> SUFFICES ASSUME CloudInv PROVE OneServer
        OBVIOUS
    <2>1. ASSUME ~disturbed, NEW S, S \subseteq Active, SharedMode \/ \E p \in Projects : S \subseteq Of(p)
          PROVE  Cardinality(S) <= 1
        <3>1. S \subseteq Instances /\ S \subseteq Existing
            BY <2>1 DEF Active, Existing, In
        <3>2. \A i, j \in S : SharedMode \/ project[i] = project[j]
            BY <2>1 DEF Of
        <3>3. \A i, j \in S : i = j
            BY <2>1, <3>1, <3>2 DEF CloudInv, Undisturbed, AtMostOneEach
        <3> QED BY <3>1, <3>3, OneAtMost
    <2> QED BY <2>1 DEF CloudInv, OneServer
<1> QED BY <1>1, CloudInductive, PTL

\* Such a server, once it runs, has its project's volume, or the request that launched it
\* is about to attach it (attachVolume): no launch leaves the data behind.
THEOREM ServersHaveTheirData == InstancesSpec => []ServerHasItsData
<1>1. CloudInv => ServerHasItsData
    BY DEF CloudInv, Undisturbed, VolumeIsThere, ServerHasItsData, Existing, In
<1> QED BY <1>1, CloudInductive, PTL
=============================================================================
