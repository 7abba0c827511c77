--------------------------- MODULE EditorStoreProofs ---------------------------
(***************************************************************************)
(* What the editor shows as saved was stored, and what is unsaved is taken *)
(* away by nobody else, for any number of files, projects, requests and    *)
(* troubles.                                                               *)
(***************************************************************************)
EXTENDS EditorStore, SequenceTheorems, TLAPS

\* Whatever a tab goes back to was on a disk, and so was every text under way that will
\* become one: the answer to a save that was written, the answer to a read, a file.
AllStored ==
    /\ \A f \in Files : tabs[f] # None =>
           tabs[f].original \in stored /\ (tabs[f].dirty \/ tabs[f].text = tabs[f].original)
    /\ \A i \in 1..Len(saves) : saves[i] # None /\ saves[i].written => saves[i].text \in stored
    /\ \A i \in 1..MaxReads : reads[i] # None => reads[i].answer \in stored \union {None, Unread}
    /\ \A p \in Projects, f \in Files : disk[p][f] \in stored \union {None}

Inv == EditorTypeOK /\ AllStored

LEMMA InitInv == Init => Inv
<1> SUFFICES ASSUME Init PROVE Inv
  OBVIOUS
<1>1. \A p \in Projects : [by |-> "found", in |-> p, n |-> 0] \in Texts
  BY EditorBounds DEF Texts
<1>2. saves \in Seq(Save \union {None}) /\ Len(saves) = 0
  BY DEF Init
<1>3. EditorTypeOK
  BY <1>1, <1>2, EditorBounds DEF Init, EditorTypeOK, Closed, Quiet
<1>4. AllStored
  BY <1>1, <1>2, ValuesAreNew DEF Init, AllStored, Closed
<1> QED
  BY <1>3, <1>4 DEF Inv

\* A change of a disk: what was stored stays so.
LEMMA ChangedInv ==
  ASSUME Inv, NEW p \in Projects, NEW f \in Files, NEW to \in Texts \union {None},
         NEW event \in {"modify", "delete"}, Changed(p, f, to, event)
  PROVE  /\ disk' \in [Projects -> [Files -> Texts \union {None}]]
         /\ news' \in [Files -> Seq({"modify", "delete"})]
         /\ stored' \subseteq Texts /\ stored \subseteq stored'
         /\ to # None => to \in stored'
         /\ \A q \in Projects, g \in Files : disk'[q][g] \in stored' \union {None}
<1> USE DEF Inv, EditorTypeOK, AllStored, Changed
<1>1. disk' \in [Projects -> [Files -> Texts \union {None}]]
  OBVIOUS
<1>2. news' \in [Files -> Seq({"modify", "delete"})]
  <2>1. Append(news[f], event) \in Seq({"modify", "delete"})
    BY AppendProperties
  <2> QED
    BY <2>1
<1>3. stored' \subseteq Texts /\ stored \subseteq stored' /\ (to # None => to \in stored')
  OBVIOUS
<1>4. \A q \in Projects, g \in Files : disk'[q][g] \in stored' \union {None}
  OBVIOUS
<1> QED
  BY <1>1, <1>2, <1>3, <1>4

LEMMA AskInv ==
  ASSUME Inv, NEW kind \in {"open", "reload", "accept"}, NEW f \in Files, Ask(kind, f)
  PROVE  /\ reads' \in [1..MaxReads -> Read \union {None}]
         /\ \A i \in 1..MaxReads : reads'[i] # None => reads'[i].answer \in stored \union {None, Unread}
<1>1. [kind |-> kind, project |-> project, file |-> f, answer |-> Unread] \in Read
  BY DEF Read, Inv, EditorTypeOK
<1> QED
  BY <1>1 DEF Ask, Inv, EditorTypeOK, AllStored

\* A sequence of saves after one of them has changed.
LEMMA SavesInv ==
  ASSUME Inv, NEW i \in DOMAIN saves, NEW save \in Save \union {None},
         saves' = [saves EXCEPT ![i] = save]
  PROVE  /\ saves' \in Seq(Save \union {None}) /\ Len(saves') = Len(saves)
         /\ \A j \in 1..Len(saves) : saves'[j] = IF j = i THEN save ELSE saves[j]
<1>1. i \in 1..Len(saves) /\ saves \in Seq(Save \union {None})
  BY DEF Inv, EditorTypeOK
<1> QED
  BY <1>1, ExceptSeq

LEMMA WorldInv ==
  ASSUME Inv, NEW f \in Files, OtherWrites(f) \/ OtherDeletes(f)
  PROVE  Inv'
<1> USE DEF Inv
<1>1. made' \in 0..MaxTexts /\ [by |-> "other", in |-> project, n |-> made'] \in Texts
  BY EditorBounds DEF OtherWrites, OtherDeletes, EditorTypeOK, Texts
<1>2. PICK to \in Texts \union {None}, event \in {"modify", "delete"} : Changed(project, f, to, event)
  BY <1>1 DEF OtherWrites, OtherDeletes
<1>3. project \in Projects
  BY DEF EditorTypeOK
<1>4. /\ disk' \in [Projects -> [Files -> Texts \union {None}]]
      /\ news' \in [Files -> Seq({"modify", "delete"})]
      /\ stored' \subseteq Texts /\ stored \subseteq stored'
      /\ \A q \in Projects, g \in Files : disk'[q][g] \in stored' \union {None}
  BY <1>2, <1>3, ChangedInv
<1>5. UNCHANGED <<project, tabs, timer, saves, reads, validation, troubles>>
  BY DEF OtherWrites, OtherDeletes, browserVars, requestVars
<1>6. EditorTypeOK'
  BY <1>1, <1>4, <1>5 DEF EditorTypeOK
<1>7. AllStored'
  BY <1>4, <1>5 DEF AllStored
<1> QED
  BY <1>6, <1>7

LEMMA WriteInv ==
  ASSUME Inv, NEW i \in DOMAIN saves, ServerWrites(i)
  PROVE  Inv'
<1> USE DEF Inv
<1> DEFINE save == saves[i]
           after == IF save.awaited THEN [save EXCEPT !.written = TRUE] ELSE None
<1>1. save \in Save
  BY DEF ServerWrites, EditorTypeOK
<1>2. save.project \in Projects /\ save.file \in Files /\ save.text \in Texts
  BY <1>1 DEF Save
<1>3. Changed(save.project, save.file, save.text, "modify") /\ save.text # None
  BY <1>2, ValuesAreNew DEF ServerWrites
<1>4. /\ disk' \in [Projects -> [Files -> Texts \union {None}]]
      /\ news' \in [Files -> Seq({"modify", "delete"})]
      /\ stored' \subseteq Texts /\ stored \subseteq stored' /\ save.text \in stored'
      /\ \A q \in Projects, g \in Files : disk'[q][g] \in stored' \union {None}
  BY <1>2, <1>3, ChangedInv
<1>5. after \in Save \union {None} /\ (after # None => after.text = save.text)
  BY <1>1 DEF Save
<1>6. /\ saves' \in Seq(Save \union {None}) /\ Len(saves') = Len(saves)
      /\ \A j \in 1..Len(saves) : saves'[j] = IF j = i THEN after ELSE saves[j]
  <2>1. saves' = [saves EXCEPT ![i] = after]
    BY DEF ServerWrites
  <2> HIDE DEF after
  <2> QED
    BY <2>1, <1>5, SavesInv
<1>7. UNCHANGED <<project, tabs, timer, reads, validation, made, troubles>>
  BY DEF ServerWrites, browserVars
<1> HIDE DEF after, save
<1>8. EditorTypeOK'
  BY <1>4, <1>6, <1>7 DEF EditorTypeOK
<1>9. AllStored'
  BY <1>4, <1>5, <1>6, <1>7 DEF AllStored
<1> QED
  BY <1>8, <1>9


\* An open tab is a tab, and a new one is a good one.
LEMMA TabFacts ==
  ASSUME Inv, NEW f \in Files, tabs[f] # None
  PROVE  tabs[f] \in Tab /\ tabs[f].text \in Texts /\ tabs[f].original \in Texts
         /\ tabs[f].dirty \in BOOLEAN /\ tabs[f].flagged \in BOOLEAN
BY DEF Inv, EditorTypeOK, Tab

\* A tab of its own: all that a step of one tab has to show.
GoodTab(tab) ==
    /\ tab \in Tab \union {None}
    /\ tab # None => tab.original \in stored /\ (tab.dirty \/ tab.text = tab.original)

LEMMA OpenedGood ==
  ASSUME Inv, NEW text \in stored
  PROVE  GoodTab(Opened(text))
<1>1. text \in Texts
  BY DEF Inv, EditorTypeOK
<1>2. Opened(text) \in Tab
  BY <1>1 DEF Opened, Tab
<1> QED
  BY <1>2 DEF GoodTab, Opened

\* A step that changes only tabs, the timer and the reads, for good ones.
LEMMA TabsInv ==
  ASSUME Inv, tabs' \in [Files -> Tab \union {None}], \A f \in Files : GoodTab(tabs'[f]),
         timer' \in Timer \union {None},
         project' \in Projects, news' \in [Files -> Seq({"modify", "delete"})],
         made' \in 0..MaxTexts, troubles' \in 0..MaxTroubles,
         validation' \in [project : Projects, asked : SUBSET Files, missing : SUBSET Files] \union {None},
         reads' \in [1..MaxReads -> Read \union {None}],
         \A i \in 1..MaxReads : reads'[i] # None => reads'[i].answer \in stored \union {None, Unread},
         saves' \in Seq(Save \union {None}),
         \A i \in 1..Len(saves') : saves'[i] # None /\ saves'[i].written => saves'[i].text \in stored,
         UNCHANGED <<disk, stored>>
  PROVE  Inv'
BY DEF Inv, EditorTypeOK, AllStored, GoodTab

\* What TabsInv asks of the variables that a step leaves alone.
LEMMA Kept ==
  ASSUME Inv
  PROVE  /\ tabs \in [Files -> Tab \union {None}] /\ \A f \in Files : GoodTab(tabs[f])
         /\ timer \in Timer \union {None} /\ project \in Projects
         /\ news \in [Files -> Seq({"modify", "delete"})]
         /\ made \in 0..MaxTexts /\ troubles \in 0..MaxTroubles
         /\ validation \in [project : Projects, asked : SUBSET Files, missing : SUBSET Files] \union {None}
         /\ reads \in [1..MaxReads -> Read \union {None}]
         /\ \A i \in 1..MaxReads : reads[i] # None => reads[i].answer \in stored \union {None, Unread}
         /\ saves \in Seq(Save \union {None})
         /\ \A i \in 1..Len(saves) : saves[i] # None /\ saves[i].written => saves[i].text \in stored
         /\ stored \subseteq Texts
BY DEF Inv, EditorTypeOK, AllStored, GoodTab

LEMMA ReadInv ==
  ASSUME Inv, NEW i \in DOMAIN reads, ServerReads(i) \/ ReadAnswered(i) \/ ReadFails(i)
  PROVE  Inv'
<1>1. i \in 1..MaxReads /\ reads[i] \in Read
  BY DEF Inv, EditorTypeOK, ServerReads, ReadAnswered, ReadFails
<1>2. reads[i].project \in Projects /\ reads[i].file \in Files
  BY <1>1 DEF Read
<1>3. CASE ServerReads(i)
  <2>1. disk[reads[i].project][reads[i].file] \in stored \union {None}
    BY <1>2 DEF Inv, AllStored
  <2>2. PICK answer \in stored \union {None} : reads' = [reads EXCEPT ![i].answer = answer]
    BY <1>3, <2>1 DEF ServerReads
  <2>3. answer \in Texts \union {None, Unread}
    BY <2>2, Kept
  <2>4. [reads[i] EXCEPT !.answer = answer] \in Read /\ [reads[i] EXCEPT !.answer = answer].answer = answer
    BY <1>1, <2>3 DEF Read
  <2>5. reads' = [reads EXCEPT ![i] = [reads[i] EXCEPT !.answer = answer]]
    BY <2>2
  <2>6. reads' \in [1..MaxReads -> Read \union {None}]
    BY <2>4, <2>5, Kept
  <2>7. \A j \in 1..MaxReads : reads'[j] # None => reads'[j].answer \in stored \union {None, Unread}
    BY <1>1, <2>2, <2>4, <2>5, Kept
  <2> QED
    BY <1>3, <2>6, <2>7, Kept, TabsInv DEF ServerReads, browserVars, serverVars
<1>4. CASE ReadFails(i)
  <2>1. /\ reads' \in [1..MaxReads -> Read \union {None}]
        /\ \A j \in 1..MaxReads : reads'[j] # None => reads'[j].answer \in stored \union {None, Unread}
    BY <1>4, <1>1, Kept DEF ReadFails
  <2>2. troubles' \in 0..MaxTroubles
    BY <1>4, Kept, EditorBounds DEF ReadFails, Trouble
  <2> QED
    BY <1>4, <2>1, <2>2, Kept, TabsInv DEF ReadFails, browserVars, serverVars
<1>5. CASE ReadAnswered(i)
  <2>1. /\ reads' \in [1..MaxReads -> Read \union {None}]
        /\ \A j \in 1..MaxReads : reads'[j] # None => reads'[j].answer \in stored \union {None, Unread}
    BY <1>5, <1>1, Kept DEF ReadAnswered
  <2>2. reads[i].answer \in stored \union {None}
    BY <1>5, <1>1, Kept DEF ReadAnswered
  <2>3. GoodTab(Applied(reads[i]))
    <3>1. \/ Applied(reads[i]) = tabs[reads[i].file]
          \/ reads[i].answer # None /\ Applied(reads[i]) = Opened(reads[i].answer)
      BY DEF Applied
    <3> QED
      BY <3>1, <2>2, <1>2, Kept, OpenedGood
  <2>4. tabs' \in [Files -> Tab \union {None}] /\ \A f \in Files : GoodTab(tabs'[f])
    <3>1. tabs' = [tabs EXCEPT ![reads[i].file] = Applied(reads[i])]
      BY <1>5 DEF ReadAnswered
    <3>2. Applied(reads[i]) \in Tab \union {None}
      BY <2>3 DEF GoodTab
    <3> QED
      BY <3>1, <3>2, <2>3, <1>2, Kept
  <2> QED
    BY <1>5, <2>1, <2>4, Kept, TabsInv DEF ReadAnswered, serverVars
<1> QED
  BY <1>3, <1>4, <1>5

LEMMA NewsInv ==
  ASSUME Inv, NEW f \in Files, Notified(f)
  PROVE  Inv'
<1>1. news' \in [Files -> Seq({"modify", "delete"})]
  BY Kept DEF Notified
<1>2. /\ reads' \in [1..MaxReads -> Read \union {None}]
      /\ \A i \in 1..MaxReads : reads'[i] # None => reads'[i].answer \in stored \union {None, Unread}
  BY Kept, AskInv DEF Notified
<1>3. tabs' \in [Files -> Tab \union {None}] /\ \A g \in Files : GoodTab(tabs'[g])
  <2>1. CASE tabs' = [tabs EXCEPT ![f] = None]
    <3>1. GoodTab(None)
      BY DEF GoodTab
    <3> QED
      BY <2>1, <3>1, Kept
  <2>2. CASE UNCHANGED tabs
    BY <2>2, Kept
  <2>3. CASE Unsaved(f) /\ tabs' = [tabs EXCEPT ![f].flagged = TRUE]
    <3> DEFINE tab == [tabs[f] EXCEPT !.flagged = TRUE]
    <3>1. tabs' = [tabs EXCEPT ![f] = tab]
      BY <2>3
    <3>2. tab \in Tab /\ tab.original = tabs[f].original /\ tab.text = tabs[f].text /\ tab.dirty = tabs[f].dirty
      BY <2>3, TabFacts DEF Unsaved, Tab
    <3>3. GoodTab(tab)
      BY <3>2, <2>3, Kept DEF GoodTab, Unsaved
    <3> HIDE DEF tab
    <3> QED
      BY <3>1, <3>2, <3>3, Kept
  <2> QED
    BY <2>1, <2>2, <2>3 DEF Notified
<1> QED
  BY <1>1, <1>2, <1>3, Kept, TabsInv DEF Notified


LEMMA EditInv ==
  ASSUME Inv, NEW f \in Files, Type(f) \/ Undo(f)
  PROVE  Inv'
<1>1. tabs[f] # None
  BY DEF Type, Undo, Unsaved
<1>2. \/ made' \in 0..MaxTexts /\ [by |-> "user", in |-> project, n |-> made'] \in Texts
      \/ made' = made
  BY Kept, EditorBounds DEF Type, Undo, Texts
<1>3. PICK text \in Texts : Edited(f, text)
  BY <1>1, <1>2, TabFacts, Kept DEF Type, Undo, Texts
<1>4. made' \in 0..MaxTexts
  BY <1>2, Kept
<1>5. timer' \in Timer \union {None}
  BY <1>3, Kept DEF Edited, Arm, Timer
<1>6. tabs' \in [Files -> Tab \union {None}] /\ \A g \in Files : GoodTab(tabs'[g])
  <2> DEFINE tab == [tabs[f] EXCEPT !.text = text, !.dirty = text # tabs[f].original]
  <2>1. tabs' = [tabs EXCEPT ![f] = tab]
    BY <1>3, Kept DEF Edited
  <2>2. tab \in Tab /\ tab.original = tabs[f].original /\ (tab.dirty \/ tab.text = tab.original)
    BY <1>1, TabFacts DEF Tab
  <2>3. GoodTab(tab)
    BY <1>1, <2>2, Kept DEF GoodTab
  <2> HIDE DEF tab
  <2> QED
    BY <2>1, <2>2, <2>3, Kept
<1> QED
  BY <1>4, <1>5, <1>6, Kept, TabsInv DEF Type, Undo, requestVars, serverVars

\* Sending one more save.
LEMMA SendInv ==
  ASSUME Inv, NEW f \in Files, NEW p \in Projects, SaveFile(f, p)
  PROVE  /\ saves' \in Seq(Save \union {None})
         /\ \A i \in 1..Len(saves') : saves'[i] # None /\ saves'[i].written => saves'[i].text \in stored
<1>1. CASE UNCHANGED saves
  BY <1>1, Kept
<1>2. CASE /\ Unsaved(f)
           /\ saves' = Append(saves, [file |-> f, project |-> p, text |-> tabs[f].text,
                                       written |-> FALSE, awaited |-> TRUE])
  <2> DEFINE save == [file |-> f, project |-> p, text |-> tabs[f].text,
                      written |-> FALSE, awaited |-> TRUE]
  <2>1. save \in Save /\ ~save.written
    BY <1>2, TabFacts DEF Save, Unsaved
  <2>2. saves' = Append(saves, save)
    BY <1>2
  <2> HIDE DEF save
  <2>3. /\ saves' \in Seq(Save \union {None}) /\ Len(saves') = Len(saves) + 1
        /\ saves'[Len(saves) + 1] = save /\ \A i \in 1..Len(saves) : saves'[i] = saves[i]
    BY <2>1, <2>2, Kept, AppendProperties
  <2>4. Len(saves) \in Nat
    BY Kept, LenProperties
  <2>5. \A i \in 1..Len(saves') : i \in 1..Len(saves) \/ i = Len(saves) + 1
    BY <2>3, <2>4
  <2> QED
    BY <2>1, <2>3, <2>5, Kept
<1> QED
  BY <1>1, <1>2 DEF SaveFile

LEMMA SaveInv ==
  ASSUME Inv, AutoSave \/ \E f \in Files : SaveNow(f)
  PROVE  Inv'
<1>1. PICK f \in Files, p \in Projects : SaveFile(f, p)
  BY Kept DEF AutoSave, SaveNow, Timer
<1>2. timer' \in Timer \union {None}
  BY Kept DEF AutoSave, SaveNow, browserVars
<1>3. UNCHANGED <<project, tabs, reads, validation, serverVars, made, troubles>>
  BY DEF AutoSave, SaveNow, browserVars
<1>4. /\ saves' \in Seq(Save \union {None})
      /\ \A i \in 1..Len(saves') : saves'[i] # None /\ saves'[i].written => saves'[i].text \in stored
  BY <1>1, SendInv
<1> QED
  BY <1>2, <1>3, <1>4, Kept, TabsInv DEF serverVars

\* The saves without one of them.
LEMMA OverInv ==
  ASSUME Inv, NEW i \in DOMAIN saves, saves' = [saves EXCEPT ![i] = None]
  PROVE  /\ saves' \in Seq(Save \union {None})
         /\ \A j \in 1..Len(saves') : saves'[j] # None /\ saves'[j].written => saves'[j].text \in stored
BY SavesInv, Kept

LEMMA SaveEndsInv ==
  ASSUME Inv, NEW i \in DOMAIN saves, SaveAnswered(i) \/ SaveFails(i)
  PROVE  Inv'
<1>1. /\ saves' \in Seq(Save \union {None})
      /\ \A j \in 1..Len(saves') : saves'[j] # None /\ saves'[j].written => saves'[j].text \in stored
  BY OverInv DEF SaveAnswered, SaveFails
<1>2. saves[i] \in Save /\ i \in 1..Len(saves)
  BY Kept DEF SaveAnswered, SaveFails
<1>3. CASE SaveFails(i)
  <2>1. troubles' \in 0..MaxTroubles
    BY <1>3, Kept, EditorBounds DEF SaveFails, Trouble
  <2> QED
    BY <1>1, <1>3, <2>1, Kept, TabsInv DEF SaveFails, browserVars, serverVars
<1>4. CASE SaveAnswered(i)
  <2> DEFINE f == saves[i].file
             text == saves[i].text
             tab == AfterSave(tabs[f], text)
  <2>1. f \in Files /\ saves[i].project \in Projects /\ text \in Texts /\ text \in stored
    BY <1>2, <1>4, Kept DEF Save, SaveAnswered
  <2>2. CASE UNCHANGED browserVars
    BY <1>1, <1>4, <2>2, Kept, TabsInv DEF SaveAnswered, browserVars, serverVars
  <2>3. CASE tabs[f] # None /\ tabs' = [tabs EXCEPT ![f] = tab] /\ Reschedule(f, saves[i].project)
    <3>1. tab \in Tab /\ tab.original = text /\ (tab.dirty \/ tab.text = tab.original)
      BY <2>1, <2>3, TabFacts DEF Tab, AfterSave
    <3>2. GoodTab(tab)
      BY <2>1, <3>1 DEF GoodTab
    <3>3. timer' \in Timer \union {None}
      BY <2>1, <2>3, Kept DEF Reschedule, Arm, Timer
    <3> HIDE DEF tab
    <3>4. tabs' \in [Files -> Tab \union {None}] /\ \A g \in Files : GoodTab(tabs'[g])
      BY <2>1, <2>3, <3>1, <3>2, Kept
    <3> QED
      BY <1>1, <1>4, <3>3, <3>4, Kept, TabsInv DEF SaveAnswered, serverVars
  <2> QED
    BY <1>4, <2>2, <2>3 DEF SaveAnswered
<1> QED
  BY <1>3, <1>4

LEMMA ComeAndGoInv ==
  ASSUME Inv,
         \/ Validated
         \/ \E f \in Files : CloseTab(f) \/ ServerChecks(f)
         \/ \E p \in Projects : SwitchProject(p)
         \/ \E kept \in SUBSET Files : ReloadPage(kept)
  PROVE  Inv'
<1>0. GoodTab(None)
  BY DEF GoodTab
<1>1. tabs' \in [Files -> Tab \union {None}] /\ \A f \in Files : GoodTab(tabs'[f])
  BY <1>0, Kept DEF Validated, CloseTab, ServerChecks, SwitchProject, ReloadPage, Closed, browserVars
<1>2. timer' \in Timer \union {None} /\ project' \in Projects /\ made' \in 0..MaxTexts
  BY Kept DEF Validated, CloseTab, ServerChecks, SwitchProject, ReloadPage, browserVars
<1>3. news' \in [Files -> Seq({"modify", "delete"})] /\ UNCHANGED <<disk, stored>>
  <2>1. UNCHANGED <<disk, stored>> /\ (news' = Quiet \/ UNCHANGED news)
    BY DEF Validated, CloseTab, ServerChecks, SwitchProject, ReloadPage, serverVars
  <2>2. Quiet \in [Files -> Seq({"modify", "delete"})]
    BY DEF Quiet
  <2> QED
    BY <2>1, <2>2, Kept
<1>4. troubles' \in 0..MaxTroubles
  <2>1. UNCHANGED troubles \/ Trouble
    BY DEF Validated, CloseTab, ServerChecks, SwitchProject, ReloadPage
  <2> QED
    BY <2>1, Kept, EditorBounds DEF Trouble
<1>5. validation' \in [project : Projects, asked : SUBSET Files, missing : SUBSET Files] \union {None}
  <2>1. CASE \E f \in Files : ServerChecks(f)
    <3>1. PICK f \in Files : ServerChecks(f)
      BY <2>1
    <3>2. validation \in [project : Projects, asked : SUBSET Files, missing : SUBSET Files]
      BY <3>1, Kept DEF ServerChecks
    <3>3. PICK missing \in SUBSET Files :
              validation' = [validation EXCEPT !.asked = @ \ {f}, !.missing = missing]
      BY <3>1, <3>2 DEF ServerChecks
    <3>4. validation.asked \ {f} \in SUBSET Files
      BY <3>2
    <3> QED
      BY <3>2, <3>3, <3>4
  <2>2. CASE ~ \E f \in Files : ServerChecks(f)
    BY <2>2, Kept DEF Validated, CloseTab, SwitchProject, ReloadPage, requestVars
  <2> QED
    BY <2>1, <2>2
<1>6. /\ reads' \in [1..MaxReads -> Read \union {None}]
      /\ \A i \in 1..MaxReads : reads'[i] # None => reads'[i].answer \in stored \union {None, Unread}
  BY Kept DEF Validated, CloseTab, ServerChecks, SwitchProject, ReloadPage, NoRequests, requestVars
<1>7. /\ saves' \in Seq(Save \union {None})
      /\ \A i \in 1..Len(saves') : saves'[i] # None /\ saves'[i].written => saves'[i].text \in stored
  <2>1. CASE \E kept \in SUBSET Files : ReloadPage(kept)
    <3>1. PICK sent \in SUBSET DOMAIN saves :
              saves' = [i \in DOMAIN saves |->
                  IF i \in sent /\ saves[i] # None /\ ~saves[i].written
                  THEN [saves[i] EXCEPT !.awaited = FALSE] ELSE None]
      BY <2>1 DEF ReloadPage
    <3>2. Len(saves) \in Nat /\ DOMAIN saves = 1..Len(saves)
      BY Kept, LenProperties
    <3>3. \A i \in DOMAIN saves : saves'[i] \in Save \union {None} /\ (saves'[i] # None => ~saves'[i].written)
      <4> TAKE i \in DOMAIN saves
      <4>1. saves[i] \in Save \union {None}
        BY <3>2, Kept
      <4>2. saves[i] \in Save => [saves[i] EXCEPT !.awaited = FALSE] \in Save
                  /\ [saves[i] EXCEPT !.awaited = FALSE].written = saves[i].written
        BY DEF Save
      <4> QED
        BY <3>1, <4>1, <4>2
    <3>4. saves' \in [1..Len(saves) -> Save \union {None}]
      BY <3>1, <3>2, <3>3
    <3>5. saves' \in Seq(Save \union {None}) /\ Len(saves') = Len(saves)
      BY <3>2, <3>4, SeqDef, LenProperties
    <3> QED
      BY <3>2, <3>3, <3>5
  <2>2. CASE ~ \E kept \in SUBSET Files : ReloadPage(kept)
    BY <2>2, Kept DEF Validated, CloseTab, ServerChecks, SwitchProject, requestVars
  <2> QED
    BY <2>1, <2>2
<1> QED
  BY <1>1, <1>2, <1>3, <1>4, <1>5, <1>6, <1>7, TabsInv

LEMMA StepInv == Inv /\ [Next]_vars => Inv'
<1> SUFFICES ASSUME Inv, [Next]_vars PROVE Inv'
  OBVIOUS
<1>1. ASSUME NEW f \in Files, AskToOpen(f) \/ AcceptExternal(f) PROVE Inv'
  BY <1>1, AskInv, Kept, TabsInv DEF AskToOpen, AcceptExternal, browserVars, serverVars
<1>2. ASSUME UNCHANGED vars PROVE Inv'
  BY <1>2 DEF vars, browserVars, requestVars, serverVars, Inv, EditorTypeOK, AllStored
<1>3. ASSUME Next PROVE Inv'
  <2>1. DOMAIN reads = 1..MaxReads
    BY Kept
  <2>2. \A kept \in SUBSET {f \in Files : tabs[f] # None} : kept \in SUBSET Files
    OBVIOUS
  <2> QED
    BY <1>1, <1>3, <2>1, <2>2, WorldInv, WriteInv, ReadInv, NewsInv, EditInv, SaveInv, SaveEndsInv, ComeAndGoInv DEF Next
<1> QED
  BY <1>2, <1>3

\* The types of the editor's state (openFiles, autoSaveTimer) and of its requests.
THEOREM EditorTypes == Spec => []EditorTypeOK
<1>1. Inv => EditorTypeOK
  BY DEF Inv
<1> QED
  BY <1>1, InitInv, StepInv, PTL DEF Spec

\* What the editor shows as saved was on a disk (saveFile, fetchFileContent, openFile).
THEOREM CleanWasStored == Spec => []CleanIsStored
<1>1. Inv => CleanIsStored
  BY DEF Inv, AllStored, CleanIsStored
<1> QED
  BY <1>1, InitInv, StepInv, PTL DEF Spec


\* What a user typed and did not save is taken away by the user, or because the file is
\* gone or opened again; no reload, save, timer or change outside replaces it
\* (handleExternalChanges, saveFile).
THEOREM UnsavedIsKept == Spec => UnsavedSurvives
<1>1. ASSUME Inv, [Next]_vars, NEW f \in Files, Unsaved(f), ~TakenAway(f)
      PROVE  Keeps(f)
  <2>1. tabs[f] # None /\ tabs[f] \in Tab /\ tabs \in [Files -> Tab \union {None}]
    BY <1>1, TabFacts, Kept DEF Unsaved
  <2>2. CASE UNCHANGED tabs
    BY <2>1, <2>2 DEF Keeps
  \* Steps of another tab.
  <2>3. ASSUME NEW g \in Files, g # f, NEW tab, tabs' = [tabs EXCEPT ![g] = tab]
        PROVE  Keeps(f)
    BY <2>1, <2>3 DEF Keeps
  <2>4. ASSUME NEW g \in Files, Type(g) \/ Undo(g) \/ CloseTab(g) PROVE Keeps(f)
    <3>1. g # f
      BY <1>1, <2>4 DEF TakenAway
    <3> QED
      BY <3>1, <2>1, <2>4 DEF Type, Undo, CloseTab, Edited, Keeps
  <2>5. ASSUME NEW g \in Files, Notified(g) PROVE Keeps(f)
    <3>1. CASE g # f
      BY <3>1, <2>1, <2>2, <2>5 DEF Notified, Keeps
    <3>2. CASE g = f
      <4>1. UNCHANGED tabs \/ tabs' = [tabs EXCEPT ![f].flagged = TRUE]
        BY <1>1, <2>5, <3>2 DEF Notified, TakenAway
      <4>2. [tabs[f] EXCEPT !.flagged = TRUE] \in Tab /\ [tabs[f] EXCEPT !.flagged = TRUE].text = tabs[f].text
        BY <2>1 DEF Tab
      <4> QED
        BY <4>1, <4>2, <2>1, <2>2, ValuesAreNew DEF Keeps
    <3> QED
      BY <3>1, <3>2
  <2>6. ASSUME NEW i \in DOMAIN saves, SaveAnswered(i) PROVE Keeps(f)
    <3>1. CASE tabs' = [tabs EXCEPT ![f] = AfterSave(tabs[f], saves[i].text)]
      <4>1. saves[i].text \in Texts
        BY <1>1, <2>6, Kept DEF SaveAnswered, Save
      <4>2. AfterSave(tabs[f], saves[i].text) \in Tab /\ AfterSave(tabs[f], saves[i].text).text = tabs[f].text
        BY <2>1, <4>1 DEF AfterSave, Tab
      <4> QED
        BY <3>1, <4>2, <2>1, ValuesAreNew DEF Keeps
    <3>2. CASE UNCHANGED tabs \/ \E g \in Files \ {f} : tabs' = [tabs EXCEPT ![g] = AfterSave(tabs[g], saves[i].text)]
      BY <3>2, <2>2, <2>3
    <3>3. saves[i].file \in Files
      BY <1>1, <2>6, Kept DEF SaveAnswered, Save
    <3> QED
      BY <2>6, <3>1, <3>2, <3>3 DEF SaveAnswered, browserVars
  <2>7. ASSUME NEW i \in DOMAIN reads, ReadAnswered(i) PROVE Keeps(f)
    <3>1. reads[i].file \in Files /\ reads[i].kind \in {"open", "reload", "accept"}
      BY <1>1, <2>7, Kept DEF ReadAnswered, Read
    <3>2. CASE reads[i].file # f
      BY <2>3, <2>7, <3>1, <3>2 DEF ReadAnswered
    <3>3. CASE reads[i].file = f
      <4>1. reads[i].kind = "reload"
        BY <1>1, <2>7, <3>1, <3>3 DEF TakenAway
      <4>2. Applied(reads[i]) = tabs[f]
        BY <1>1, <3>3, <4>1 DEF Applied, Unsaved
      <4> QED
        BY <2>1, <2>7, <3>3, <4>2 DEF ReadAnswered, Keeps
    <3> QED
      BY <3>2, <3>3
  <2>8. ASSUME NEW kept \in SUBSET Files, ReloadPage(kept) PROVE Keeps(f)
    <3>1. f \in kept
      <4>1. f \notin kept => kept \in SUBSET (Files \ {f})
        OBVIOUS
      <4> QED
        BY <1>1, <2>8, <4>1 DEF TakenAway
    <3>2. tabs'[f] = tabs[f]
      BY <2>8, <3>1 DEF ReloadPage
    <3> QED
      BY <3>2, <2>1 DEF Keeps
  <2>9. ASSUME Validated PROVE Keeps(f)
    <3>1. f \notin validation.missing
      BY <1>1, <2>9 DEF TakenAway
    <3>2. tabs'[f] = tabs[f]
      BY <2>9, <3>1 DEF Validated
    <3> QED
      BY <3>2, <2>1 DEF Keeps
  <2>10. ASSUME NEW p \in Projects, SwitchProject(p) PROVE Keeps(f)
    BY <1>1, <2>10 DEF TakenAway
  <2>11. ASSUME Next PROVE \/ UNCHANGED tabs \/ Validated
                           \/ \E g \in Files : Type(g) \/ Undo(g) \/ CloseTab(g) \/ Notified(g)
                           \/ \E i \in DOMAIN saves : SaveAnswered(i)
                           \/ \E i \in DOMAIN reads : ReadAnswered(i)
                           \/ \E kept \in SUBSET Files : ReloadPage(kept)
                           \/ \E p \in Projects : SwitchProject(p)
    <3>1. \A kept \in SUBSET {g \in Files : tabs[g] # None} : kept \in SUBSET Files
      OBVIOUS
    <3> QED
      BY <2>11, <3>1 DEF Next, OtherWrites, OtherDeletes, ServerChecks, AskToOpen, AcceptExternal, SaveNow, ServerWrites,
         SaveFails, ServerReads, ReadFails, AutoSave, browserVars
  <2>12. UNCHANGED vars => UNCHANGED tabs
    BY DEF vars, browserVars
  <2> QED
    BY <1>1, <2>2, <2>4, <2>5, <2>6, <2>7, <2>8, <2>9, <2>10, <2>11, <2>12
<1>2. Inv /\ [Next]_vars => [\A f \in Files : Unsaved(f) => TakenAway(f) \/ Keeps(f)]_vars
  BY <1>1
<1> QED
  BY <1>2, InitInv, StepInv, PTL DEF Spec, UnsavedSurvives


\* Whoever would save f is still there.
AttendedOn(f) ==
    /\ timer # None /\ timer.file = f => timer' = timer
    /\ \A i \in DOMAIN saves : saves[i] # None /\ saves[i].file = f /\ saves[i].awaited =>
           i \in DOMAIN saves' /\ saves'[i] # None /\ saves'[i].file = f /\ saves'[i].awaited

LEMMA AttendedStays ==
  ASSUME NEW f, Attended(f), AttendedOn(f)
  PROVE  Attended(f)'
BY DEF Attended, AttendedOn

\* A save that is appended is awaited, and disturbs no other.
LEMMA SendAttends ==
  ASSUME Inv, NEW g \in Files, NEW p \in Projects, Unsaved(g), SaveFile(g, p)
  PROVE  /\ Attended(g)'
         /\ \A i \in DOMAIN saves : i \in DOMAIN saves' /\ saves'[i] = saves[i]
<1> DEFINE save == [file |-> g, project |-> p, text |-> tabs[g].text,
                    written |-> FALSE, awaited |-> TRUE]
<1>1. save \in Save /\ save.file = g /\ save.awaited
  BY TabFacts DEF Save, Unsaved
<1>2. saves' = Append(saves, save)
  BY DEF SaveFile
<1> HIDE DEF save
<1>3. /\ saves' \in Seq(Save \union {None}) /\ Len(saves') = Len(saves) + 1
      /\ saves'[Len(saves) + 1] = save /\ \A i \in 1..Len(saves) : saves'[i] = saves[i]
  BY <1>1, <1>2, Kept, AppendProperties
<1>4. Len(saves) \in Nat /\ DOMAIN saves = 1..Len(saves) /\ DOMAIN saves' = 1..(Len(saves) + 1)
  BY <1>3, Kept, LenProperties
<1>5. save # None
  BY <1>1, ValuesAreNew
<1>6. Len(saves) + 1 \in DOMAIN saves'
  BY <1>4
<1> QED
  BY <1>1, <1>3, <1>4, <1>5, <1>6 DEF Attended


\* Every step but a timer set elsewhere, a failed save and a new page leaves the unsaved file
\* somebody to save it, or leaves it saved or closed (scheduleAutoSave, saveFile).
LEMMA AttendedStep ==
  ASSUME Inv, Next, NEW f \in Files, Unsaved(f) => Attended(f), Unsaved(f)', ~Attended(f)'
  PROVE  \/ timer' # None /\ timer' # timer
         \/ \E i \in DOMAIN saves : SaveFails(i) /\ saves[i].file = f
         \/ \E kept \in SUBSET Files : ReloadPage(kept)
<1> DEFINE Neglected == \/ timer' # None /\ timer' # timer
                        \/ \E i \in DOMAIN saves : SaveFails(i) /\ saves[i].file = f
                        \/ \E kept \in SUBSET Files : ReloadPage(kept)
<1>1. ASSUME Unsaved(f), AttendedOn(f) PROVE FALSE
  BY <1>1, AttendedStays
<1>2. ASSUME UNCHANGED timer, UNCHANGED saves PROVE AttendedOn(f)
  BY <1>2 DEF AttendedOn
<1>3. ASSUME NEW g \in Files, NEW p \in Projects, Arm(g, p) PROVE timer' # None /\ (timer' = timer \/ Neglected)
  <2>1. timer' \in Timer
    BY <1>3 DEF Arm, Timer
  <2> QED
    BY <2>1, ValuesAreNew
\* Steps that leave the timer and the saves alone.
<1>4. ASSUME NEW g \in Files, OtherWrites(g) \/ OtherDeletes(g) \/ ServerChecks(g) \/ AskToOpen(g) \/ AcceptExternal(g)
      PROVE  FALSE
  <2>1. UNCHANGED <<tabs, timer, saves>>
    BY <1>4 DEF OtherWrites, OtherDeletes, ServerChecks, AskToOpen, AcceptExternal, browserVars, requestVars
  <2> QED
    BY <2>1, <1>1, <1>2 DEF Unsaved
<1>5. ASSUME NEW i \in DOMAIN reads, ServerReads(i) \/ ReadFails(i)
      PROVE  FALSE
  <2>1. UNCHANGED <<tabs, timer, saves>>
    BY <1>5 DEF ServerReads, ReadFails, browserVars
  <2> QED
    BY <2>1, <1>1, <1>2 DEF Unsaved
<1>6. ASSUME NEW g \in Files, Notified(g) PROVE FALSE
  <2>1. UNCHANGED <<timer, saves>>
    BY <1>6 DEF Notified
  <2>2. Unsaved(f)
    <3>1. \/ UNCHANGED tabs
          \/ tabs' = [tabs EXCEPT ![g] = None]
          \/ Unsaved(g) /\ tabs' = [tabs EXCEPT ![g].flagged = TRUE]
      BY <1>6 DEF Notified
    <3> QED
      BY <3>1, Kept DEF Unsaved
  <2> QED
    BY <2>1, <2>2, <1>1, <1>2
<1>7. ASSUME NEW g \in Files, CloseTab(g) PROVE FALSE
  <2>1. UNCHANGED <<timer, saves>> /\ tabs' = [tabs EXCEPT ![g] = None]
    BY <1>7 DEF CloseTab, requestVars
  <2>2. Unsaved(f)
    BY <2>1, Kept DEF Unsaved
  <2> QED
    BY <2>1, <2>2, <1>1, <1>2
<1>8. ASSUME NEW i \in DOMAIN reads, ReadAnswered(i) PROVE FALSE
  <2>1. UNCHANGED <<timer, saves>> /\ tabs' = [tabs EXCEPT ![reads[i].file] = Applied(reads[i])]
    BY <1>8 DEF ReadAnswered
  <2>2. Unsaved(f)
    <3>1. \/ Applied(reads[i]) = tabs[reads[i].file]
          \/ Applied(reads[i]) = Opened(reads[i].answer)
      BY DEF Applied
    <3> QED
      BY <2>1, <3>1, Kept DEF Unsaved, Opened
  <2> QED
    BY <2>1, <2>2, <1>1, <1>2
<1>9. ASSUME Validated PROVE FALSE
  <2>1. UNCHANGED <<timer, saves>>
    BY <1>9 DEF Validated
  <2>2. Unsaved(f)
    BY <1>9 DEF Validated, Unsaved
  <2> QED
    BY <2>1, <2>2, <1>1, <1>2
<1>10. ASSUME NEW p \in Projects, SwitchProject(p) PROVE FALSE
  BY <1>10 DEF SwitchProject, Closed, Unsaved
\* Typing.
<1>11. ASSUME NEW g \in Files, Type(g) \/ Undo(g) PROVE Neglected
  <2>1. Arm(g, project) /\ UNCHANGED saves /\ project \in Projects
    BY <1>11, Kept DEF Type, Undo, Edited, requestVars
  <2>2. PICK text : tabs' = [tabs EXCEPT ![g].text = text, ![g].dirty = text # tabs[g].original]
    BY <1>11 DEF Type, Undo, Edited
  <2>3. CASE g = f
    BY <2>1, <2>3, <1>3 DEF Attended, Arm
  <2>4. CASE g # f
    <3>1. Unsaved(f)
      BY <2>2, <2>4, Kept DEF Unsaved
    <3> QED
      BY <2>1, <3>1, <1>1, <1>2, <1>3
  <2> QED
    BY <2>3, <2>4
\* Saving.
<1>12. ASSUME NEW g \in Files, SaveNow(g) PROVE FALSE
  <2>1. UNCHANGED <<timer, tabs>> /\ project \in Projects /\ Unsaved(g) /\ SaveFile(g, project)
    BY <1>12, Kept DEF SaveNow, browserVars
  <2>2. \A i \in DOMAIN saves : i \in DOMAIN saves' /\ saves'[i] = saves[i]
    BY <2>1, SendAttends
  <2> QED
    BY <2>1, <2>2, <1>1 DEF AttendedOn, Unsaved
<1>13. ASSUME AutoSave PROVE FALSE
  <2>1. timer \in Timer /\ UNCHANGED tabs /\ SaveFile(timer.file, timer.project)
    BY <1>13, Kept DEF AutoSave
  <2>2. timer.file \in Files /\ timer.project \in Projects
    BY <2>1 DEF Timer
  <2>3. Unsaved(f)
    BY <2>1 DEF Unsaved
  <2>4. timer.file # f
    <3>1. timer.file = f => Attended(f)'
      BY <2>1, <2>2, <2>3, SendAttends
    <3> QED
      BY <3>1
  <2>5. \A i \in DOMAIN saves : i \in DOMAIN saves' /\ saves'[i] = saves[i]
    BY <2>1, <2>2, SendAttends DEF SaveFile
  <2> QED
    BY <2>3, <2>4, <2>5, <1>1 DEF AttendedOn
<1>14. ASSUME NEW i \in DOMAIN saves, ServerWrites(i) PROVE FALSE
  <2>1. UNCHANGED <<tabs, timer>> /\ saves[i] \in Save
    BY <1>14, Kept DEF ServerWrites, browserVars
  <2> DEFINE after == IF saves[i].awaited THEN [saves[i] EXCEPT !.written = TRUE] ELSE None
  <2>2. saves' = [saves EXCEPT ![i] = after]
    BY <1>14 DEF ServerWrites
  <2>3. saves[i].awaited => after \in Save /\ after.file = saves[i].file /\ after.awaited
    BY <2>1 DEF Save
  <2>4. saves[i].awaited => after # None
    BY <2>3, ValuesAreNew
  <2> HIDE DEF after
  <2>5. \A j \in DOMAIN saves : j \in DOMAIN saves' /\ saves'[j] = IF j = i THEN after ELSE saves[j]
    BY <2>2, Kept
  <2>6. AttendedOn(f)
    BY <2>1, <2>3, <2>4, <2>5 DEF AttendedOn
  <2> QED
    BY <2>1, <2>6, <1>1 DEF Unsaved
<1>15. ASSUME NEW i \in DOMAIN saves, SaveFails(i) PROVE Neglected
  <2>1. UNCHANGED <<tabs, timer>> /\ saves' = [saves EXCEPT ![i] = None]
    BY <1>15 DEF SaveFails, browserVars
  <2>2. \A j \in DOMAIN saves : j \in DOMAIN saves' /\ (j # i => saves'[j] = saves[j])
    BY <2>1, Kept
  <2>3. saves[i].file # f => AttendedOn(f)
    BY <2>1, <2>2 DEF AttendedOn
  <2> QED
    BY <1>15, <2>1, <2>3, <1>1 DEF Unsaved
<1>16. ASSUME NEW i \in DOMAIN saves, SaveAnswered(i) PROVE Neglected
  <2> DEFINE g == saves[i].file
             tab == AfterSave(tabs[g], saves[i].text)
  <2>1. saves[i] \in Save /\ saves' = [saves EXCEPT ![i] = None]
    BY <1>16, Kept DEF SaveAnswered
  <2>2. g \in Files /\ saves[i].project \in Projects
    BY <2>1 DEF Save
  <2>3. \A j \in DOMAIN saves : j \in DOMAIN saves' /\ (j # i => saves'[j] = saves[j])
    BY <2>1, Kept
  <2>4. UNCHANGED timer /\ g # f => AttendedOn(f)
    BY <2>3 DEF AttendedOn
  <2>5. CASE tabs[g] = None /\ UNCHANGED browserVars
    <3>1. g # f /\ Unsaved(f) /\ UNCHANGED timer
      BY <2>5 DEF browserVars, Unsaved
    <3> QED
      BY <3>1, <2>4, <1>1
  <2>6. CASE tabs[g] # None /\ tabs' = [tabs EXCEPT ![g] = tab] /\ Reschedule(g, saves[i].project)
    <3>1. CASE g = f
      <4>1. tabs'[f].dirty
        BY DEF Unsaved
      <4>2. Arm(f, saves[i].project)
        BY <2>6, <3>1, <4>1 DEF Reschedule
      <4> QED
        BY <4>2, <2>2, <1>3 DEF Attended, Arm
    <3>2. CASE g # f
      <4>1. Unsaved(f)
        BY <2>6, <3>2, <2>2, Kept DEF Unsaved
      <4>2. UNCHANGED timer \/ Arm(g, saves[i].project)
        BY <2>6 DEF Reschedule
      <4> QED
        BY <4>1, <4>2, <2>2, <2>4, <3>2, <1>1, <1>3
    <3> QED
      BY <3>1, <3>2
  <2> QED
    BY <1>16, <2>5, <2>6 DEF SaveAnswered
<1>17. \A kept \in SUBSET {g \in Files : tabs[g] # None} : kept \in SUBSET Files
  OBVIOUS
<1> QED
  BY <1>4, <1>5, <1>6, <1>7, <1>8, <1>9, <1>10, <1>11, <1>12, <1>13, <1>14, <1>15, <1>16, <1>17 DEF Next

\* Only a timer set for another file, a failed save and a new page leave an unsaved text
\* with nobody to save it (scheduleAutoSave, saveFile).
THEOREM NeglectHasAReason == Spec => OnlyThenNeglected
<1>1. ASSUME Inv, [Next]_vars, NEW f \in Files,
             (Unsaved(f) => Attended(f)) /\ Unsaved(f)' /\ ~Attended(f)'
      PROVE  \/ timer' # None /\ timer' # timer
             \/ \E i \in DOMAIN saves : SaveFails(i) /\ saves[i].file = f
             \/ \E kept \in SUBSET Files : ReloadPage(kept)
  <2>1. CASE Next
    BY <1>1, <2>1, AttendedStep
  <2>2. CASE UNCHANGED vars
    BY <1>1, <2>2 DEF vars, browserVars, requestVars, Unsaved, Attended
  <2> QED
    BY <1>1, <2>1, <2>2
<1>2. Inv /\ [Next]_vars =>
          [\A f \in Files :
              (Unsaved(f) => Attended(f)) /\ Unsaved(f)' /\ ~Attended(f)' =>
                  \/ timer' # None /\ timer' # timer
                  \/ \E i \in DOMAIN saves : SaveFails(i) /\ saves[i].file = f
                  \/ \E kept \in SUBSET Files : ReloadPage(kept)]_vars
  BY <1>1
<1> QED
  BY <1>2, InitInv, StepInv, PTL DEF Spec, OnlyThenNeglected

===============================================================================
