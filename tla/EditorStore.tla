------------------------------ MODULE EditorStore ------------------------------
(***************************************************************************)
(* The open files of a browser tab (editorStore.ts, EditorPanel.tsx) and   *)
(* the files of the projects behind them: typing, saving by hand and by a  *)
(* timer, reloading what changed outside, closing, switching projects and  *)
(* reloading the page.  Requests are answered in any order.                *)
(*                                                                         *)
(* A text is who made it, in which project, and a number.  The key of an   *)
(* open file is its path: it says nothing of the project.                  *)
(***************************************************************************)
EXTENDS Naturals, Sequences

CONSTANTS
    Projects, Files,
    Served,       \* somebody answers a read that names no project
    None, Unread, \* no value; an answer that is still to come
    MaxTexts,     \* bound: texts made by the user or by others
    MaxTroubles,  \* bound: switches, page reloads, failed requests
    MaxSaves,     \* bound: saves
    MaxReads      \* bound: reads in flight at once

ASSUME EditorBounds == {MaxTexts, MaxTroubles, MaxSaves, MaxReads} \subseteq Nat

Texts == [by : {"found", "user", "other"}, in : Projects, n : 0..MaxTexts]
ASSUME ServedIsKnown == Served \in BOOLEAN
Tab == [text : Texts, original : Texts, dirty : BOOLEAN, flagged : BOOLEAN]
Timer == [file : Files, project : Projects]
Save == [file : Files, project : Projects, text : Texts, written : BOOLEAN, awaited : BOOLEAN]

ASSUME ValuesAreNew ==
    None # Unread /\ (Texts \union Tab \union Timer \union Save) \intersect {None, Unread} = {}

VARIABLES
    project,     \* currentProjectId
    tabs,        \* openFiles
    timer,       \* autoSaveTimer: the one file it will save, and where
    saves,       \* requests of saveFile so far; None is over
    reads,       \* requests of fetchFileContent in flight
    validation,  \* requests of validateOpenTabs in flight, or None
    disk,        \* the files of each project's workspace
    news,        \* file changes of this project on their way to the browser
    stored,      \* ghost: texts that were on a disk
    made, troubles   \* counts for the bounds

browserVars == <<tabs, timer>>
requestVars == <<saves, reads, validation>>
serverVars == <<disk, news, stored>>
vars == <<project, browserVars, requestVars, serverVars, made, troubles>>

Opened(text) == [text |-> text, original |-> text, dirty |-> FALSE, flagged |-> FALSE]
Unsaved(f) == tabs[f] # None /\ tabs[f].dirty

Closed == [f \in Files |-> None]
NoRequests(slots) == [i \in DOMAIN slots |-> None]
Quiet == [f \in Files |-> <<>>]

Init ==
    /\ project \in Projects /\ tabs = Closed /\ timer = None
    /\ saves = <<>> /\ reads = [i \in 1..MaxReads |-> None]
    /\ validation = None
    /\ disk = [p \in Projects |-> [f \in Files |-> [by |-> "found", in |-> p, n |-> 0]]]
    /\ news = Quiet
    /\ stored = {[by |-> "found", in |-> p, n |-> 0] : p \in Projects}
    /\ made = 0 /\ troubles = 0

Trouble == troubles < MaxTroubles /\ troubles' = troubles + 1

(***************************************************************************)
(* The workspace servers: every change is noticed and broadcast to the     *)
(* tabs of its project (FileChangeNotifier), some time later.              *)
(***************************************************************************)
Changed(p, f, to, event) ==
    /\ disk' = [disk EXCEPT ![p][f] = to]
    /\ stored' = stored \union ({to} \ {None})
    /\ news' = IF p = project THEN [news EXCEPT ![f] = Append(@, event)] ELSE news

\* A process, the agent or git writes or deletes a file.
OtherWrites(f) ==
    /\ made < MaxTexts /\ made' = made + 1
    /\ Changed(project, f, [by |-> "other", in |-> project, n |-> made'], "modify")
    /\ UNCHANGED <<project, browserVars, requestVars, troubles>>

OtherDeletes(f) ==
    /\ disk[project][f] # None /\ made < MaxTexts /\ made' = made + 1
    /\ Changed(project, f, None, "delete")
    /\ UNCHANGED <<project, browserVars, requestVars, troubles>>

ServerWrites(i) ==
    /\ saves[i] # None /\ ~saves[i].written
    /\ saves' = [saves EXCEPT ![i] = IF @.awaited THEN [@ EXCEPT !.written = TRUE] ELSE None]
    /\ Changed(saves[i].project, saves[i].file, saves[i].text, "modify")
    /\ UNCHANGED <<project, browserVars, reads, validation, made, troubles>>

ServerReads(i) ==
    /\ reads[i] # None /\ reads[i].answer = Unread
    /\ reads' = [reads EXCEPT ![i].answer =
           IF reads[i].kind = "open" \/ Served THEN disk[reads[i].project][reads[i].file] ELSE None]
    /\ UNCHANGED <<project, browserVars, saves, validation, serverVars, made, troubles>>

ServerChecks(f) ==
    /\ validation # None /\ f \in validation.asked
    /\ validation' = [validation EXCEPT
           !.asked = @ \ {f},
           !.missing = IF disk[validation.project][f] = None THEN @ \union {f} ELSE @]
    /\ UNCHANGED <<project, browserVars, saves, reads, serverVars, made, troubles>>

(***************************************************************************)
(* Opening, and reloading what changed outside.                            *)
(***************************************************************************)
Ask(kind, f) ==
    \E i \in DOMAIN reads :
        /\ reads[i] = None /\ \A j \in 1..(i-1) : reads[j] # None
        /\ reads' = [reads EXCEPT ![i] =
               [kind |-> kind, project |-> project, file |-> f, answer |-> Unread]]

\* The explorer opens a file that is not open yet.
AskToOpen(f) ==
    /\ tabs[f] = None /\ Ask("open", f)
    /\ UNCHANGED <<project, browserVars, saves, validation, serverVars, made, troubles>>

\* acceptExternalVersion: the user gives up the own text for what is on the disk.  Nothing
\* in the code asks whether there is a conflict.
AcceptExternal(f) ==
    /\ tabs[f] # None /\ Ask("accept", f)
    /\ UNCHANGED <<project, browserVars, saves, validation, serverVars, made, troubles>>

\* Mutant: the reload is applied as it was asked for.
AppliedMutant(r) == IF r.answer # None /\ (r.kind = "open" \/ tabs[r.file] # None)
                    THEN Opened(r.answer) ELSE tabs[r.file]

\* What an answer makes of the tab; an answer without a text is an error.
Applied(r) ==
    CASE r.answer = None -> tabs[r.file]
      [] r.answer # None /\ r.kind = "open" -> Opened(r.answer)
      [] r.answer # None /\ r.kind = "accept" /\ tabs[r.file] # None -> Opened(r.answer)
      [] r.answer # None /\ r.kind = "reload" /\ tabs[r.file] # None /\ ~Unsaved(r.file) -> Opened(r.answer)
      [] OTHER -> tabs[r.file]

ReadAnswered(i) ==
    /\ reads[i] # None /\ reads[i].answer # Unread
    /\ tabs' = [tabs EXCEPT ![reads[i].file] = Applied(reads[i])]
    /\ reads' = [reads EXCEPT ![i] = None]
    /\ UNCHANGED <<project, timer, saves, validation, serverVars, made, troubles>>

ReadFails(i) ==
    /\ reads[i] # None /\ Trouble
    /\ reads' = [reads EXCEPT ![i] = None]
    /\ UNCHANGED <<project, browserVars, saves, validation, serverVars, made>>

\* handleExternalChanges, for one change.
Notified(f) ==
    /\ news[f] # <<>> /\ news' = [news EXCEPT ![f] = Tail(@)]
    /\ \/ /\ Head(news[f]) = "delete"
          /\ tabs' = [tabs EXCEPT ![f] = None] /\ UNCHANGED reads
       \/ /\ Head(news[f]) = "modify" /\ tabs[f] = None
          /\ UNCHANGED <<tabs, reads>>
       \/ /\ Head(news[f]) = "modify" /\ tabs[f] # None /\ ~Unsaved(f)
          /\ Ask("reload", f) /\ UNCHANGED tabs
       \/ /\ Head(news[f]) = "modify" /\ Unsaved(f)
          /\ tabs' = [tabs EXCEPT ![f].flagged = TRUE] /\ UNCHANGED reads
    /\ UNCHANGED <<project, timer, saves, validation, disk, stored, made, troubles>>

(***************************************************************************)
(* Typing and saving.  There is one timer for all files.                   *)
(***************************************************************************)
Arm(f, p) == timer' = [file |-> f, project |-> p]

Edited(f, text) ==
    /\ tabs' = [tabs EXCEPT ![f].text = text, ![f].dirty = text # tabs[f].original]
    /\ Arm(f, project)

Type(f) ==
    /\ tabs[f] # None /\ made < MaxTexts /\ made' = made + 1
    /\ Edited(f, [by |-> "user", in |-> project, n |-> made'])
    /\ UNCHANGED <<project, requestVars, serverVars, troubles>>

Undo(f) ==
    /\ Unsaved(f) /\ Edited(f, tabs[f].original)
    /\ UNCHANGED <<project, requestVars, serverVars, made, troubles>>

SaveFile(f, p) ==
    \/ /\ Unsaved(f)
       /\ Len(saves) < MaxSaves
       /\ saves' = Append(saves, [file |-> f, project |-> p, text |-> tabs[f].text,
                                   written |-> FALSE, awaited |-> TRUE])
    \/ ~Unsaved(f) /\ UNCHANGED saves

AutoSave ==
    /\ timer # None /\ SaveFile(timer.file, timer.project) /\ timer' = None
    /\ UNCHANGED <<project, tabs, reads, validation, serverVars, made, troubles>>

SaveNow(f) ==
    /\ Unsaved(f) /\ SaveFile(f, project)
    /\ UNCHANGED <<project, browserVars, reads, validation, serverVars, made, troubles>>

\* Mutant: the answer to a save is taken for the end of it.
AfterSaveMutant(tab, text) == [tab EXCEPT !.original = text, !.dirty = FALSE]

\* The user may have typed during the save.
AfterSave(tab, text) == [tab EXCEPT !.original = text, !.dirty = tab.text # text]

\* Mutant: what is unsaved after a save waits for the next key.
RescheduleMutant(f, p) == UNCHANGED timer

\* A file that is still unsaved is scheduled again.
Reschedule(f, p) == IF tabs'[f].dirty THEN Arm(f, p) ELSE UNCHANGED timer

SaveAnswered(i) ==
    /\ saves[i] # None /\ saves[i].written
    /\ LET f == saves[i].file IN
       \/ /\ tabs[f] = None /\ UNCHANGED browserVars
       \/ /\ tabs[f] # None
          /\ tabs' = [tabs EXCEPT ![f] = AfterSave(@, saves[i].text)]
          /\ Reschedule(f, saves[i].project)
    /\ saves' = [saves EXCEPT ![i] = None]
    /\ UNCHANGED <<project, reads, validation, serverVars, made, troubles>>

\* The request failed before or after it did its work: nobody tries again.
SaveFails(i) ==
    /\ saves[i] # None /\ saves[i].awaited /\ Trouble
    /\ saves' = [saves EXCEPT ![i] = None]
    /\ UNCHANGED <<project, browserVars, reads, validation, serverVars, made>>

(***************************************************************************)
(* Tabs, projects and pages come and go; the timer and the requests stay,  *)
(* except those of a page that is left.                                    *)
(***************************************************************************)
CloseTab(f) ==
    /\ tabs[f] # None /\ tabs' = [tabs EXCEPT ![f] = None]
    /\ UNCHANGED <<project, timer, requestVars, serverVars, made, troubles>>

SwitchProject(p) ==
    /\ p # project /\ Trouble
    /\ project' = p /\ tabs' = Closed /\ news' = Quiet
    /\ UNCHANGED <<timer, requestVars, disk, stored, made>>

\* The open files were kept in the browser's storage, the long ones excepted.
\* A save that was sent may be carried out; its answer finds nobody.
ReloadPage(kept) ==
    /\ Trouble
    /\ tabs' = [f \in Files |-> IF f \in kept THEN tabs[f] ELSE None]
    /\ timer' = None /\ reads' = NoRequests(reads) /\ news' = Quiet
    /\ \E sent \in SUBSET DOMAIN saves :
           saves' = [i \in DOMAIN saves |->
               IF i \in sent /\ saves[i] # None /\ ~saves[i].written
               THEN [saves[i] EXCEPT !.awaited = FALSE] ELSE None]
    /\ validation' = IF kept = {} THEN None
                     ELSE [project |-> project, asked |-> kept, missing |-> {}]
    /\ UNCHANGED <<project, disk, stored, made>>

\* The tabs whose files are gone are closed when all answers are there.
Validated ==
    /\ validation # None /\ validation.asked = {}
    /\ tabs' = [f \in Files |-> IF f \in validation.missing THEN None ELSE tabs[f]]
    /\ validation' = None
    /\ UNCHANGED <<project, timer, saves, reads, serverVars, made, troubles>>

Next ==
    \/ \E f \in Files :
           \/ OtherWrites(f) \/ OtherDeletes(f) \/ ServerChecks(f)
           \/ AskToOpen(f) \/ AcceptExternal(f) \/ Notified(f)
           \/ Type(f) \/ Undo(f) \/ SaveNow(f) \/ CloseTab(f)
    \/ \E i \in DOMAIN saves : ServerWrites(i) \/ SaveAnswered(i) \/ SaveFails(i)
    \/ \E i \in DOMAIN reads : ServerReads(i) \/ ReadAnswered(i) \/ ReadFails(i)
    \/ AutoSave \/ Validated
    \/ \E p \in Projects : SwitchProject(p)
    \/ \E kept \in SUBSET {f \in Files : tabs[f] # None} : ReloadPage(kept)

Spec == Init /\ [][Next]_vars

(***************************************************************************)
(* Properties.                                                             *)
(***************************************************************************)
Read == [kind : {"open", "reload", "accept"}, project : Projects, file : Files,
         answer : Texts \union {None, Unread}]

EditorTypeOK ==
    /\ project \in Projects
    /\ tabs \in [Files -> Tab \union {None}]
    /\ timer \in Timer \union {None}
    /\ saves \in Seq(Save \union {None})
    /\ reads \in [1..MaxReads -> Read \union {None}]
    /\ validation \in [project : Projects, asked : SUBSET Files, missing : SUBSET Files] \union {None}
    /\ disk \in [Projects -> [Files -> Texts \union {None}]]
    /\ news \in [Files -> Seq({"modify", "delete"})]
    /\ stored \subseteq Texts
    /\ made \in 0..MaxTexts /\ troubles \in 0..MaxTroubles

\* What the editor shows as saved was on a disk, whatever was typed, closed, reloaded
\* or answered out of order meanwhile (saveFile compares again when its answer comes).
CleanIsStored ==
    \A f \in Files : tabs[f] # None /\ ~tabs[f].dirty => tabs[f].text \in stored

\* The steps that may take an unsaved text away: its user's, and news or answers that say
\* the file is gone, is opened, or is what the user accepted in its place.
TakenAway(f) ==
    \/ Type(f) \/ Undo(f) \/ CloseTab(f)
    \/ \E p \in Projects : SwitchProject(p)
    \/ \E kept \in SUBSET (Files \ {f}) : ReloadPage(kept)
    \/ Notified(f) /\ Head(news[f]) = "delete"
    \/ Validated /\ f \in validation.missing
    \/ \E i \in DOMAIN reads : ReadAnswered(i) /\ reads[i].file = f /\ reads[i].kind # "reload"

Keeps(f) == tabs'[f] # None /\ tabs'[f].text = tabs[f].text

\* No reload, save, timer or change outside replaces what the user typed and did not
\* save (handleExternalChanges looks again when the reload is answered).
UnsavedSurvives ==
    [][\A f \in Files : Unsaved(f) => TakenAway(f) \/ Keeps(f)]_vars

\* A save of f whose answer the editor waits for, or the timer, is still to come.
Attended(f) ==
    \/ timer # None /\ timer.file = f
    \/ \E i \in DOMAIN saves : saves[i] # None /\ saves[i].file = f /\ saves[i].awaited

\* Only a timer set for another file (by typing in it, or by the answer to its save when it
\* was typed in meanwhile), a failed save and a new page leave an unsaved text without
\* anybody to save it: the one timer for all files was taken over (scheduleAutoSave),
\* nobody tries again (saveFile), the timer was lost.
OnlyThenNeglected ==
    [][\A f \in Files :
        (Unsaved(f) => Attended(f)) /\ Unsaved(f)' /\ ~Attended(f)' =>
            \/ timer' # None /\ timer' # timer
            \/ \E i \in DOMAIN saves : SaveFails(i) /\ saves[i].file = f
            \/ \E kept \in SUBSET Files : ReloadPage(kept)]_vars

(***************************************************************************)
(* Claims of the source that the code does not keep.                       *)
(***************************************************************************)
\* "If user typed during save, re-trigger auto-save": what the timer is about to save to a
\* project is open in it.  A save that is answered after the project was switched takes
\* the other project's file of the same path for the one that was typed in.
AutoSaveIsOwn ==
    timer # None /\ Unsaved(timer.file) => timer.project = project

\* "Not dirty: silently reload from server": when nothing is on its way, a file that was
\* never unsaved shows what is on the disk.  The reload names no project.
CleanIsReloaded ==
    (troubles = 0 /\ news = Quiet /\ reads = NoRequests(reads) /\ saves = NoRequests(saves)) =>
        \A f \in Files : tabs[f] # None /\ ~tabs[f].dirty /\ ~tabs[f].flagged => tabs[f].text = disk[project][f]
================================================================================
