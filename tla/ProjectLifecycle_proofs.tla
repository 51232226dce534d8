----------------------- MODULE ProjectLifecycle_proofs ----------------------
(***************************************************************************)
(* Theorems about ProjectLifecycle for any number of concurrent requests   *)
(* and commands, any artifact files, any upload names and any number of    *)
(* renders.                                                                *)
(***************************************************************************)
EXTENDS ProjectLifecycle, TLAPS

USE CopyAssumption, BoundAssumption, HandlerAssumption, ValueAssumption

-----------------------------------------------------------------------------
(* Operators                                                               *)

\* Reading a row gives a Project, with or without a before-image.
LEMMA ToDomainType ==
    ASSUME NEW r \in Project
    PROVE  ToDomain(r) \in Project
BY DEF ToDomain, Project

\* The row an UPDATE leaves is a Project again.
LEMMA UpdatedType ==
    ASSUME NEW r \in Project, NEW p \in Project, NEW cols
    PROVE  Updated(r, p, cols) \in Project
BY DEF Updated, Project

\* The builder copies only files it has names for.
LEMMA AssetsType ==
    ASSUME NEW p
    PROVE  AssetsOf(p) \subseteq PageFiles \cup {BeforeAsset}
BY DEF AssetsOf

LEMMA PageKindType ==
    ASSUME NEW p \in Project
    PROVE  PageKind(p) \in {"placeholder", "draft", "live"}
BY DEF PageKind, Project

LEMMA NewProjectType ==
    ASSUME NEW outcome \in Outcomes, NEW bundle \in Nat \cup {NONE}, NEW photo \in FirstPhoto
    PROVE  NewProject(outcome, bundle, photo) \in Project
BY DEF NewProject, Project, Sources

LEMMA ReplaceType ==
    ASSUME NEW p \in Project
    PROVE  /\ [p EXCEPT !.published = TRUE] \in Project
           /\ [p EXCEPT !.published = FALSE, !.takedown = TRUE] \in Project
           /\ \A name \in UploadNames :
                [p EXCEPT !.imageUri = name, !.imageSource = "manual_upload"] \in Project
BY DEF Project, Sources

LEMMA BlankType == Blank \in Project
BY DEF Blank, Project, Outcomes

\* Ending a handler leaves its local state well typed.
LEMMA EndType ==
    ASSUME TypeOK, NEW h \in Handlers, End(h)
    PROVE  /\ pc' \in [Handlers -> Labels]
           /\ op' \in [Handlers -> {"none", "save", "publish", "takedown", "upload"}]
           /\ project' \in [Handlers -> Project]
           /\ copied' \in [Handlers -> 0 .. Len(CopyOrder)]
           /\ pending' \in [Handlers -> [insert : BOOLEAN, cols : SUBSET Columns]]
<1>1. 0 \in 0 .. Len(CopyOrder)
  OBVIOUS
<1>2. NoMerge \in [insert : BOOLEAN, cols : SUBSET Columns]
  BY DEF NoMerge
<1> QED BY <1>1, <1>2, BlankType DEF TypeOK, End, Goto, Labels

LEMMA BeginType ==
    ASSUME TypeOK, NEW h \in Handlers, NEW u \in {"save", "publish", "takedown", "upload"},
           NEW p \in Project, NEW label \in Labels, Begin(h, u, p, label)
    PROVE  /\ pc' \in [Handlers -> Labels]
           /\ op' \in [Handlers -> {"none", "save", "publish", "takedown", "upload"}]
           /\ project' \in [Handlers -> Project]
BY DEF TypeOK, Begin, Goto

LEMMA BeginTypeOK ==
    ASSUME TypeOK, NEW h \in Handlers, NEW u \in {"save", "publish", "takedown", "upload"},
           NEW p \in Project, NEW label \in Labels, Begin(h, u, p, label),
           renders' = renders \/ renders' = renders + 1
    PROVE  TypeOK'
<1>1. /\ pc' \in [Handlers -> Labels]
      /\ op' \in [Handlers -> {"none", "save", "publish", "takedown", "upload"}]
      /\ project' \in [Handlers -> Project]
  BY BeginType
<1>2. UNCHANGED <<row, disk, assets, page, copied, pending>>
  BY DEF Begin
<1> QED BY <1>1, <1>2 DEF TypeOK

-----------------------------------------------------------------------------
(* Type correctness                                                        *)

LEMMA TypeInit == Init => TypeOK
<1>1. 0 \in 0 .. Len(CopyOrder)
  OBVIOUS
<1>2. NoMerge \in [insert : BOOLEAN, cols : SUBSET Columns]
  BY DEF NoMerge
<1> QED BY <1>1, <1>2, BlankType DEF Init, TypeOK, Labels

LEMMA StartType ==
    ASSUME TypeOK, NEW h \in Handlers, Start(h)
    PROVE  TypeOK'
<1>1. CASE StartSave(h)
  <2>1. PICK outcome \in Outcomes, photo \in FirstPhoto :
          \/ /\ Begin(h, "save", NewProject(outcome, NONE, photo), "merging")
             /\ UNCHANGED renders
          \/ /\ renders' = renders + 1
             /\ Begin(h, "save", NewProject(outcome, renders + 1, photo), "copying")
    BY <1>1 DEF StartSave
  <2>2. /\ NewProject(outcome, NONE, photo) \in Project
        /\ NewProject(outcome, renders + 1, photo) \in Project
    <3>1. /\ renders + 1 \in Nat \cup {NONE}
          /\ NONE \in Nat \cup {NONE}
      BY DEF TypeOK
    <3> QED BY <3>1, NewProjectType
  <2>3. CASE /\ Begin(h, "save", NewProject(outcome, NONE, photo), "merging")
             /\ UNCHANGED renders
    BY <2>2, <2>3, BeginTypeOK DEF Labels
  <2>4. CASE /\ Begin(h, "save", NewProject(outcome, renders + 1, photo), "copying")
             /\ renders' = renders + 1
    BY <2>2, <2>4, BeginTypeOK DEF Labels
  <2> QED BY <2>1, <2>3, <2>4
<1>2. CASE StartPublish(h)
  <2>1. row \in Project
    BY <1>2 DEF StartPublish, TypeOK
  <2>2. [ToDomain(row) EXCEPT !.published = TRUE] \in Project
    BY <2>1, ToDomainType, ReplaceType
  <2> QED BY <1>2, <2>2, BeginTypeOK DEF StartPublish, Labels
<1>3. CASE StartTakedown(h)
  <2>1. row \in Project
    BY <1>3 DEF StartTakedown, TypeOK
  <2>2. [ToDomain(row) EXCEPT !.published = FALSE, !.takedown = TRUE] \in Project
    BY <2>1, ToDomainType, ReplaceType
  <2> QED BY <1>3, <2>2, BeginTypeOK DEF StartTakedown, Labels
<1>4. CASE StartUpload(h)
  <2>1. row \in Project
    BY <1>4 DEF StartUpload, TypeOK
  <2>2. \A name \in UploadNames :
          [row EXCEPT !.imageUri = name, !.imageSource = "manual_upload"] \in Project
    BY <2>1, ReplaceType
  <2> QED BY <1>4, <2>2, BeginTypeOK DEF StartUpload, Labels
<1> QED BY <1>1, <1>2, <1>3, <1>4 DEF Start
\* What every step of a running handler keeps, whichever it is.
LEMMA ContinueType ==
    ASSUME TypeOK, NEW h \in Handlers, Control(h), Continue(h)
    PROVE  TypeOK'
<1>1. CASE CopyArtifact(h)
  <2>1. project[h].bundle \in Nat \cup {NONE}
    BY DEF TypeOK, Project
  <2>2. disk' \in [Files -> Nat \cup {Upload, Torn, NONE}]
    BY <1>1, <2>1 DEF CopyArtifact, TypeOK
  <2>3. copied' \in [Handlers -> 0 .. Len(CopyOrder)]
    <3>1. copied[h] \in 0 .. Len(CopyOrder) /\ copied[h] < Len(CopyOrder)
      BY <1>1 DEF CopyArtifact, TypeOK, Control
    <3>2. Len(CopyOrder) \in Nat
      OBVIOUS
    <3>3. copied[h] + 1 \in 0 .. Len(CopyOrder)
      BY <3>1, <3>2
    <3> QED BY <1>1, <3>3 DEF CopyArtifact, TypeOK
  <2> QED BY <1>1, <2>2, <2>3 DEF CopyArtifact, Goto, TypeOK, Labels
<1>2. CASE FetchFails(h)
  BY <1>2, EndType DEF FetchFails, TypeOK
<1>3. CASE StoreUpload(h)
  BY <1>3 DEF StoreUpload, Goto, TypeOK, Labels
<1>4. CASE Merge(h)
  <2>1. pending' \in [Handlers -> [insert : BOOLEAN, cols : SUBSET Columns]]
    BY <1>4 DEF Merge, TypeOK, Changed
  <2> QED BY <1>4, <2>1 DEF Merge, Goto, TypeOK, Labels
<1>5. ASSUME Saved(h), UNCHANGED <<disk, assets, page, renders>>, row' \in Project
      PROVE  TypeOK'
  <2>1. CASE h \in Commands
    BY <1>5, <2>1 DEF Saved, Goto, TypeOK, Labels
  <2>2. CASE h \notin Commands
    BY <1>5, <2>2, EndType DEF Saved, TypeOK
  <2> QED BY <2>1, <2>2
<1>6. CASE CommitInsert(h)
  <2>1. row' \in Project
    BY <1>6 DEF CommitInsert, TypeOK
  <2> QED BY <1>5, <1>6, <2>1 DEF CommitInsert
<1>7. CASE InsertConflicts(h)
  BY <1>7, EndType DEF InsertConflicts, TypeOK
<1>8. CASE CommitUpdate(h)
  <2>1. row \in Project
    BY <1>8 DEF CommitUpdate, TypeOK, Control
  <2>2. row' \in Project
    BY <1>8, <2>1, UpdatedType DEF CommitUpdate, TypeOK
  <2> QED BY <1>5, <1>8, <2>2 DEF CommitUpdate
<1>9. CASE CopyAssets(h)
  <2>1. assets' \subseteq PageFiles \cup {BeforeAsset}
    BY <1>9, AssetsType DEF CopyAssets, TypeOK
  <2> QED BY <1>9, <2>1 DEF CopyAssets, Goto, TypeOK, Labels
<1>10. CASE WritePage(h)
  <2>1. page' \in [kind : {"none", "placeholder", "draft", "live"},
                   shows : SUBSET (PageFiles \cup {BeforeAsset}), image : BOOLEAN]
    <3>1. project[h] \in Project
      BY DEF TypeOK
    <3> QED BY <1>10, <3>1, AssetsType, PageKindType DEF WritePage, HasImage, Project
  <2> QED BY <1>10, <2>1, EndType DEF WritePage, TypeOK
<1> QED BY <1>1, <1>2, <1>3, <1>4, <1>6, <1>7, <1>8, <1>9, <1>10 DEF Continue

LEMMA CrashType ==
    ASSUME TypeOK, NEW h \in Handlers, Crash(h)
    PROVE  TypeOK'
<1>1. disk' \in [Files -> Nat \cup {Upload, Torn, NONE}]
  BY DEF Crash, TypeOK
<1> QED BY <1>1, EndType DEF Crash, TypeOK

-----------------------------------------------------------------------------
(* Control: where a handler stands says what it has already done           *)

\* A file once stored is never removed, a row never deleted, an asset never
\* taken away: what a handler relies on stays true while others step.
Grows ==
    /\ \A f \in Files : disk[f] # NONE => disk'[f] # NONE
    /\ row # NONE => row' # NONE
    /\ assets \subseteq assets'

LEMMA CopyOrderFiles == \A i \in CopyIndex : CopyOrder[i] \in Files
BY DEF Files

\* A handler that does not step keeps its Control.
LEMMA Frame ==
    ASSUME TypeOK, Grows, NEW g \in Handlers, Control(g),
           pc'[g] = pc[g], project'[g] = project[g],
           copied'[g] = copied[g], pending'[g] = pending[g]
    PROVE  Control(g)'
<1>1. /\ Stored(project[g]) => Stored(project[g])'
      /\ Uploaded(project[g]) => Uploaded(project[g])'
  BY DEF Grows, Stored, Uploaded, Files
<1>2. \A i \in 1 .. copied[g] : CopyOrder[i] \in Files
  BY CopyOrderFiles DEF TypeOK, CopyIndex
<1> QED BY <1>1, <1>2 DEF Control, Prepared, Grows
\* A step of one handler leaves the memory of every other alone.
LEMMA OthersKeep ==
    ASSUME TypeOK, NEW h \in Handlers, Start(h) \/ Continue(h) \/ Crash(h),
           NEW g \in Handlers, g # h
    PROVE  /\ pc'[g] = pc[g] /\ project'[g] = project[g]
           /\ copied'[g] = copied[g] /\ pending'[g] = pending[g]
<1>1. ASSUME End(h)
      PROVE  /\ pc'[g] = pc[g] /\ project'[g] = project[g]
             /\ copied'[g] = copied[g] /\ pending'[g] = pending[g]
  BY <1>1 DEF End, Goto, TypeOK
<1>2. CASE Start(h)
  BY <1>2 DEF Start, StartSave, StartPublish, StartTakedown, StartUpload, Begin, Goto, TypeOK
<1>3. CASE Continue(h)
  BY <1>1, <1>3 DEF Continue, CopyArtifact, FetchFails, StoreUpload, Merge, Saved,
     CommitInsert, InsertConflicts, CommitUpdate, CopyAssets, WritePage, Goto, TypeOK
<1>4. CASE Crash(h)
  BY <1>1, <1>4 DEF Crash
<1> QED BY <1>2, <1>3, <1>4

LEMMA StepGrows ==
    ASSUME TypeOK, NEW h \in Handlers, Control(h), Start(h) \/ Continue(h) \/ Crash(h)
    PROVE  Grows
<1>1. CASE Start(h)
  BY <1>1 DEF Start, StartSave, StartPublish, StartTakedown, StartUpload, Begin, Grows
<1>2. CASE CopyArtifact(h)
  BY <1>2 DEF CopyArtifact, Grows, Control, TypeOK
<1>3. CASE StoreUpload(h)
  BY <1>3 DEF StoreUpload, Grows, TypeOK
<1>4. CASE CommitInsert(h)
  BY <1>4 DEF CommitInsert, Grows
<1>5. CASE CommitUpdate(h)
  <2>1. row \in Project
    BY <1>5 DEF CommitUpdate, TypeOK, Control
  <2>2. row' \in Project
    BY <1>5, <2>1, UpdatedType DEF CommitUpdate, TypeOK
  <2> QED BY <1>5, <2>2 DEF CommitUpdate, Grows
<1>6. CASE FetchFails(h) \/ Merge(h) \/ InsertConflicts(h) \/ CopyAssets(h) \/ WritePage(h)
  BY <1>6 DEF FetchFails, Merge, InsertConflicts, CopyAssets, WritePage, Grows
<1>7. CASE Crash(h)
  BY <1>7 DEF Crash, Grows, TypeOK
<1> QED BY <1>1, <1>2, <1>3, <1>4, <1>5, <1>6, <1>7 DEF Continue

\* A handler that ends has nothing to answer for.
LEMMA EndControl ==
    ASSUME TypeOK, NEW h \in Handlers, End(h)
    PROVE  Control(h)'
<1>1. pc'[h] = "idle" /\ copied'[h] = 0 /\ project'[h] = Blank
  BY DEF End, Goto, TypeOK
<1> QED BY <1>1 DEF Control, Prepared, Blank

\* A handler that begins relies on what the row it read already relied on.
LEMMA StartControl ==
    ASSUME TypeOK, NoDanglingFile, NEW h \in Handlers, Control(h), Start(h)
    PROVE  Control(h)'
<1>1. /\ pc[h] = "idle" /\ copied[h] = 0 /\ copied' = copied
      /\ disk' = disk /\ row' = row
  BY DEF Start, StartSave, StartPublish, StartTakedown, StartUpload, Begin, Control
<1>2. CASE StartSave(h)
  <2>1. PICK outcome \in Outcomes, photo \in FirstPhoto :
          \/ /\ project'[h] = NewProject(outcome, NONE, photo)
             /\ pc'[h] = "merging"
          \/ /\ project'[h] = NewProject(outcome, renders + 1, photo)
             /\ pc'[h] = "copying"
    BY <1>2 DEF StartSave, Begin, Goto, TypeOK
  <2>2. renders + 1 # NONE
    BY DEF TypeOK
  <2> QED BY <1>1, <2>1, <2>2
          DEF Control, Prepared, Stored, Uploaded, NewProject
<1>3. CASE StartPublish(h)
  <2>1. /\ project'[h] = [ToDomain(row) EXCEPT !.published = TRUE]
        /\ pc'[h] = "merging" /\ row \in Project /\ HasImage(row)
    BY <1>3 DEF StartPublish, Begin, Goto, TypeOK
  <2>2. /\ project'[h].bundle = row.bundle /\ project'[h].imageUri = row.imageUri
        /\ project'[h].imageSource = row.imageSource
    BY <2>1 DEF ToDomain, Project
  <2>3. Stored(row) /\ Uploaded(row)
    BY <1>3 DEF NoDanglingFile, StartPublish
  <2> QED BY <1>1, <2>1, <2>2, <2>3 DEF Control, Prepared, Stored, Uploaded, HasImage
<1>4. CASE StartTakedown(h)
  <2>1. /\ project'[h] = [ToDomain(row) EXCEPT !.published = FALSE, !.takedown = TRUE]
        /\ pc'[h] = "merging" /\ row \in Project
    BY <1>4 DEF StartTakedown, Begin, Goto, TypeOK
  <2>2. /\ project'[h].bundle = row.bundle /\ project'[h].imageUri \in {row.imageUri, NONE}
        /\ project'[h].published = FALSE
    BY <2>1 DEF ToDomain, Project
  <2>3. Stored(row) /\ Uploaded(row)
    BY <1>4 DEF NoDanglingFile, StartTakedown
  <2> QED BY <1>1, <2>1, <2>2, <2>3 DEF Control, Prepared, Stored, Uploaded
<1>5. CASE StartUpload(h)
  <2>1. PICK name \in UploadNames :
          /\ project'[h] = [row EXCEPT !.imageUri = name, !.imageSource = "manual_upload"]
          /\ pc'[h] = "storing" /\ row \in Project /\ h \notin Commands
    BY <1>5 DEF StartUpload, Begin, Goto, TypeOK
  <2>2. project'[h].bundle = row.bundle /\ project'[h].imageUri = name
    BY <2>1 DEF Project
  <2>3. Stored(row)
    BY <1>5 DEF NoDanglingFile, StartUpload
  <2> QED BY <1>1, <2>1, <2>2, <2>3 DEF Control, Prepared, Stored, Uploaded
<1> QED BY <1>2, <1>3, <1>4, <1>5 DEF Start
LEMMA ContinueControl ==
    ASSUME TypeOK, NEW h \in Handlers, Control(h), Grows, Continue(h)
    PROVE  Control(h)'
<1>1. CASE CopyArtifact(h)
  <2> DEFINE next == copied[h] + 1
  <2>1. /\ copied[h] \in Nat /\ copied[h] < Len(CopyOrder) /\ Len(CopyOrder) \in Nat
        /\ next \in CopyIndex
        /\ project[h].bundle # NONE /\ project[h].imageUri \notin UploadNames
    BY <1>1 DEF CopyArtifact, Control, TypeOK, CopyIndex
  <2>2. /\ disk' = [disk EXCEPT ![CopyOrder[next]] = project[h].bundle]
        /\ copied'[h] = next /\ project' = project
        /\ pc'[h] = IF next = Len(CopyOrder) THEN "merging" ELSE "copying"
    BY <1>1 DEF CopyArtifact, Goto, TypeOK
  <2>3. \A i \in 1 .. next : disk'[CopyOrder[i]] # NONE
    <3> TAKE i \in 1 .. next
    <3>1. CopyOrder[i] \in Files /\ CopyOrder[next] \in Files
      BY <2>1, CopyOrderFiles DEF CopyIndex
    <3>2. CASE CopyOrder[i] = CopyOrder[next]
      BY <2>1, <2>2, <3>1, <3>2 DEF TypeOK
    <3>3. CASE CopyOrder[i] # CopyOrder[next]
      <4>1. i \in 1 .. copied[h]
        BY <2>1, <3>3
      <4> QED BY <1>1, <2>2, <3>1, <3>3, <4>1 DEF Control, CopyArtifact, TypeOK
    <3> QED BY <3>2, <3>3
  <2>4. h \in Commands /\ project[h].published => HasImage(project[h])
    BY DEF Control
  <2>5. CASE next = Len(CopyOrder)
    BY <2>1, <2>2, <2>3, <2>4, <2>5 DEF Control, Prepared, Stored, Uploaded, CopyIndex
  <2>6. CASE next # Len(CopyOrder)
    BY <2>1, <2>2, <2>3, <2>4, <2>6 DEF Control, Prepared
  <2> QED BY <2>5, <2>6
<1>2. CASE FetchFails(h) \/ InsertConflicts(h) \/ WritePage(h)
  BY <1>2, EndControl DEF FetchFails, InsertConflicts, WritePage
<1>3. CASE StoreUpload(h)
  <2>1. /\ disk'[project[h].imageUri] # NONE /\ project' = project /\ pc'[h] = "merging"
        /\ Stored(project[h])
    BY <1>3 DEF StoreUpload, Goto, Control, TypeOK, Files
  <2>2. Stored(project[h])'
    BY <2>1, CopyOrderFiles DEF Grows, Stored
  <2> QED BY <2>1, <2>2 DEF Control, Prepared, Uploaded
<1>4. CASE Merge(h)
  <2>1. /\ pc'[h] = "committing" /\ pc[h] = "merging"
        /\ project' = project /\ disk' = disk /\ row' = row
        /\ ~pending'[h].insert => row # NONE
    BY <1>4 DEF Merge, Goto, TypeOK
  <2> QED BY <2>1 DEF Control, Prepared, Stored, Uploaded
<1>5. ASSUME Saved(h), disk' = disk, pc[h] = "committing"
      PROVE  Control(h)'
  <2>1. CASE h \in Commands
    <3>1. pc'[h] = "building" /\ project' = project
      BY <1>5, <2>1 DEF Saved, Goto, TypeOK
    <3> QED BY <1>5, <2>1, <3>1 DEF Control, Prepared, Stored, Uploaded
  <2>2. CASE h \notin Commands
    BY <1>5, <2>2, EndControl DEF Saved
  <2> QED BY <2>1, <2>2
<1>6. CASE CommitInsert(h) \/ CommitUpdate(h)
  BY <1>5, <1>6 DEF CommitInsert, CommitUpdate
<1>7. CASE CopyAssets(h)
  <2>1. /\ pc'[h] = "writing" /\ pc[h] = "building"
        /\ project' = project /\ disk' = disk
        /\ ~project[h].takedown => AssetsOf(project[h]) \subseteq assets'
    BY <1>7 DEF CopyAssets, Goto, TypeOK
  <2> QED BY <2>1 DEF Control, Prepared, Stored, Uploaded, AssetsOf
<1> QED BY <1>1, <1>2, <1>3, <1>4, <1>6, <1>7 DEF Continue

\* After a step of h, every handler's Control holds.
LEMMA StepControl ==
    ASSUME IInv, NEW h \in Handlers, Start(h) \/ Continue(h) \/ Crash(h)
    PROVE  \A g \in Handlers : Control(g)'
<1>1. Grows
  BY StepGrows DEF IInv
<1>2. Control(h)'
  BY <1>1, StartControl, ContinueControl, EndControl DEF IInv, Crash
<1>3. ASSUME NEW g \in Handlers, g # h
      PROVE  Control(g)'
  BY <1>1, <1>3, OthersKeep, Frame DEF IInv
<1> QED BY <1>2, <1>3

-----------------------------------------------------------------------------
(* Safety                                                                  *)

\* Committing merges columns of the row and of the Project in memory: the files
\* of both are there.
LEMMA UpdatedStored ==
    ASSUME NEW r, NEW p, NEW cols, Stored(r), Uploaded(r), Stored(p), Uploaded(p)
    PROVE  Stored(Updated(r, p, cols)) /\ Uploaded(Updated(r, p, cols))
BY DEF Stored, Uploaded, Updated

LEMMA StepRow ==
    ASSUME IInv, NEW h \in Handlers, Start(h) \/ Continue(h) \/ Crash(h), row' # NONE
    PROVE  (Stored(row) /\ Uploaded(row))'
<1>1. CASE row' = row
  BY <1>1, StepGrows, CopyOrderFiles DEF IInv, NoDanglingFile, Grows, Stored, Uploaded, Files
<1>2. CASE CommitInsert(h)
  BY <1>2 DEF CommitInsert, IInv, Control, Prepared, Stored, Uploaded
<1>3. CASE CommitUpdate(h)
  <2>1. /\ disk' = disk /\ row' = Updated(row, project[h], pending[h].cols)
        /\ Stored(row) /\ Uploaded(row)
        /\ Stored(project[h]) /\ Uploaded(project[h])
    BY <1>3 DEF CommitUpdate, IInv, Control, Prepared, NoDanglingFile
  <2> QED BY <2>1, UpdatedStored DEF Stored, Uploaded
<1> QED BY <1>1, <1>2, <1>3 DEF Start, StartSave, StartPublish, StartTakedown, StartUpload,
        Begin, Continue, CopyArtifact, FetchFails, StoreUpload, Merge, InsertConflicts,
        CopyAssets, WritePage, Crash

LEMMA StepPage ==
    ASSUME IInv, NEW h \in Handlers, Start(h) \/ Continue(h) \/ Crash(h)
    PROVE  PageIsWhole'
<1>1. CASE page' = page
  BY <1>1, StepGrows DEF IInv, PageIsWhole, Grows
<1>2. CASE WritePage(h)
  <2>1. project[h] \in Project
    BY DEF IInv, TypeOK
  <2>2. h \in Commands
    BY <1>2 DEF WritePage, IInv, Control
  <2> QED BY <1>2, <2>1, <2>2 DEF WritePage, IInv, Control, PageIsWhole, PageKind, Project
<1> QED BY <1>1, <1>2 DEF Start, StartSave, StartPublish, StartTakedown, StartUpload,
        Begin, Continue, CopyArtifact, FetchFails, StoreUpload, Merge, CommitInsert,
        InsertConflicts, CommitUpdate, CopyAssets, Crash

LEMMA InvInit == Init => IInv
<1> SUFFICES ASSUME Init PROVE IInv
  OBVIOUS
<1>1. \A h \in Handlers : Control(h)
  BY DEF Init, Control, Prepared, Blank
<1> QED BY <1>1, TypeInit DEF Init, IInv, NoDanglingFile, PageIsWhole, Prepared

LEMMA InvNext == IInv /\ [Next]_vars => IInv'
<1> SUFFICES ASSUME IInv, [Next]_vars PROVE IInv'
  OBVIOUS
<1>1. CASE UNCHANGED vars
  BY <1>1 DEF vars, handlerVars, IInv, TypeOK, NoDanglingFile, PageIsWhole, Control,
     Prepared, Stored, Uploaded
<1>2. CASE Next
  <2>1. PICK h \in Handlers : Start(h) \/ Continue(h) \/ Crash(h)
    BY <1>2 DEF Next, CrashFree
  <2>2. TypeOK'
    BY <2>1, StartType, ContinueType, CrashType DEF IInv
  <2>3. \A g \in Handlers : Control(g)'
    BY <2>1, StepControl
  <2>4. NoDanglingFile'
    BY <2>1, <2>3, StepRow DEF NoDanglingFile, Control
  <2> QED BY <2>1, <2>2, <2>3, <2>4, StepPage DEF IInv
<1> QED BY <1>1, <1>2

THEOREM Invariance == Spec => []IInv
BY InvInit, InvNext, PTL DEF Spec

\* Whatever the handlers do, and wherever a process dies, the row, the artifact
\* directory, the page and every handler keep the shape of what they stand for.
THEOREM TypeCorrect == Spec => []TypeOK
<1>1. IInv => TypeOK
  BY DEF IInv
<1> QED BY <1>1, Invariance, PTL

\* No interleaving and no crash leaves a row, a save in progress or a page build
\* in progress that refers to a file the artifact store does not have.
THEOREM NoDanglingFileEver == Spec => []NoDanglingFile
<1>1. IInv => NoDanglingFile
  BY DEF IInv
<1> QED BY <1>1, Invariance, PTL

\* The page never refers to an asset that is not beside it, and it never loses
\* its DRAFT watermark without a before-image.
THEOREM PageAlwaysWhole == Spec => []PageIsWhole
<1>1. IInv => PageIsWhole
  BY DEF IInv
<1> QED BY <1>1, Invariance, PTL
-----------------------------------------------------------------------------
(* A takedown holds                                                        *)

\* A handler at work on a sealed project writes back a taken-down project.
LEMMA SealedStep ==
    ASSUME TypeOK, Sealed, NEW h \in Handlers,
           Start(h) \/ Continue(h) \/ Crash(h), ~StartSave(h)
    PROVE  Sealed'
<1>1. row \in Project /\ row.takedown /\ ~row.published
  BY DEF Sealed, TypeOK
<1>2. row' # NONE /\ row'.takedown /\ ~row'.published
  <2>1. CASE CommitUpdate(h)
    <3>1. project[h] \in Project /\ project[h].takedown /\ ~project[h].published
      BY <2>1 DEF CommitUpdate, Sealed, TypeOK
    <3>2. Updated(row, project[h], pending[h].cols) \in Project
      BY <1>1, <3>1, UpdatedType
    <3> QED BY <1>1, <2>1, <3>1, <3>2 DEF CommitUpdate, Updated
  <2>2. CASE CommitInsert(h)
    BY <2>2 DEF CommitInsert, Sealed
  <2> QED BY <1>1, <2>1, <2>2 DEF Sealed, Start, StartPublish, StartTakedown, StartUpload,
          Begin, Continue, CopyArtifact, FetchFails, StoreUpload, Merge, InsertConflicts,
          CopyAssets, WritePage, Crash
<1>3. pc'[h] # "idle" => project'[h].takedown /\ ~project'[h].published
  <2>1. CASE Start(h)
    <3>1. CASE StartPublish(h)
      BY <1>1, <3>1 DEF StartPublish
    <3>2. CASE StartTakedown(h)
      <4>1. project'[h] = [ToDomain(row) EXCEPT !.published = FALSE, !.takedown = TRUE]
        BY <3>2 DEF StartTakedown, Begin, TypeOK
      <4> QED BY <1>1, <4>1, ToDomainType DEF Project
    <3>3. CASE StartUpload(h)
      <4>1. PICK name \in UploadNames :
              project'[h] = [row EXCEPT !.imageUri = name, !.imageSource = "manual_upload"]
        BY <3>3 DEF StartUpload, Begin, TypeOK
      <4> QED BY <1>1, <4>1 DEF Project
    <3> QED BY <2>1, <3>1, <3>2, <3>3 DEF Start
  <2>2. ASSUME End(h)
        PROVE  pc'[h] = "idle"
    BY <2>2 DEF End, Goto, TypeOK
  <2>3. CASE Crash(h)
    BY <2>2, <2>3 DEF Crash
  <2>4. CASE Continue(h)
    <3>1. pc[h] # "idle"
      BY <2>4 DEF Continue, CopyArtifact, FetchFails, StoreUpload, Merge, CommitInsert,
         InsertConflicts, CommitUpdate, CopyAssets, WritePage
    <3>2. pc'[h] = "idle" \/ project'[h] = project[h]
      BY <2>2, <2>4 DEF Continue, CopyArtifact, FetchFails, StoreUpload, Merge, CommitInsert,
         InsertConflicts, CommitUpdate, CopyAssets, WritePage, Saved
    <3> QED BY <3>1, <3>2 DEF Sealed
  <2> QED BY <2>1, <2>3, <2>4
<1>4. ASSUME NEW g \in Handlers, g # h, pc'[g] # "idle"
      PROVE  project'[g].takedown /\ ~project'[g].published
  BY <1>4, OthersKeep DEF Sealed
<1> QED BY <1>2, <1>3, <1>4 DEF Sealed

\* Only a command that holds a project not taken down shows it on a page.
LEMMA OutOfSightStep ==
    ASSUME TypeOK, OutOfSight, NEW h \in Handlers,
           Start(h) \/ Continue(h) \/ Crash(h), ~StartSave(h)
    PROVE  OutOfSight'
<1>1. Sealed'
  BY SealedStep DEF OutOfSight
<1>2. page'.kind \notin {"draft", "live"}
  <2>1. CASE WritePage(h)
    <3>1. project[h].takedown
      BY <2>1 DEF WritePage, OutOfSight, Sealed
    <3>2. PageKind(project[h]) = "placeholder"
      BY <3>1 DEF PageKind
    <3> QED BY <2>1, <3>2 DEF WritePage
  <2> QED BY <2>1 DEF OutOfSight, Start, StartPublish, StartTakedown, StartUpload, Begin,
          Continue, CopyArtifact, FetchFails, StoreUpload, Merge, CommitInsert,
          InsertConflicts, CommitUpdate, CopyAssets, Crash
<1> QED BY <1>1, <1>2 DEF OutOfSight

\* Once a project is taken down and no handler works from an older snapshot, no
\* publish, upload or takedown, in any interleaving and with any crash, brings it
\* or its page back: only a new pipeline run does.
THEOREM TakedownAlwaysHolds == Spec => TakedownHolds
<1>1. TypeOK /\ [Next]_vars =>
        [(~ \E h \in Handlers : StartSave(h)) =>
           (Sealed => Sealed') /\ (OutOfSight => OutOfSight')]_vars
  <2> SUFFICES ASSUME TypeOK, Next, ~ \E h \in Handlers : StartSave(h)
               PROVE  (Sealed => Sealed') /\ (OutOfSight => OutOfSight')
    OBVIOUS
  <2>1. PICK h \in Handlers : Start(h) \/ Continue(h) \/ Crash(h)
    BY DEF Next, CrashFree
  <2> QED BY <2>1, SealedStep, OutOfSightStep
<1> QED BY <1>1, TypeCorrect, PTL DEF Spec, TakedownHolds

-----------------------------------------------------------------------------
(* One command or request at a time: publication is complete, pages follow *)
(* the row, and the row moves only as PublicationGate allows.              *)

\* An UPDATE of all changed columns of an unchanged row writes the whole Project.
LEMMA UpdatedAll ==
    ASSUME NEW r \in Project, NEW p \in Project
    PROVE  Updated(r, p, Changed(p, r)) = p
<1> DEFINE u == Updated(r, p, Changed(p, r))
<1>1. /\ u.outcome = p.outcome /\ u.bundle = p.bundle
      /\ u.imageUri = p.imageUri /\ u.imageSource = p.imageSource
      /\ u.published = p.published /\ u.takedown = p.takedown
  BY DEF Updated, Changed, Columns
<1>2. u \in Project
  BY UpdatedType
<1> HIDE DEF u
<1>3. u = p
  BY <1>1, <1>2 DEF Project
<1> QED BY <1>3 DEF u

LEMMA BlankSound == Sound(Blank)
BY DEF Sound, Complete, Blank

\* Reading a row back gives a Project the gate judges as it judges the row.
LEMMA ToDomainGate ==
    ASSUME NEW r \in Project
    PROVE  /\ FitOf(ToDomain(r)) = FitOf(r)
           /\ GateOf(ToDomain(r)) = GateOf(r)
           /\ ToDomain(r).outcome = r.outcome
           /\ ToDomain(r).bundle = r.bundle
           /\ HasImage(r) => ToDomain(r) = r
<1>1. r # NONE /\ ToDomain(r) # NONE
  BY ToDomainType
<1>2. /\ ToDomain(r).outcome = r.outcome /\ ToDomain(r).bundle = r.bundle
      /\ ToDomain(r).published = r.published /\ ToDomain(r).takedown = r.takedown
      /\ HasImage(ToDomain(r)) = HasImage(r)
  BY DEF ToDomain, Project, HasImage
<1> QED BY <1>1, <1>2 DEF FitOf, GateOf, ToDomain

\* What each use case makes of the row it read.
LEMMA PublishIntent ==
    ASSUME NEW r \in Project, Sound(r), ~r.takedown, r.outcome = "rendered", HasImage(r),
           NEW p, p = [ToDomain(r) EXCEPT !.published = TRUE]
    PROVE  /\ Sound(p) /\ GateOf(p) = "public" /\ FitOf(p)
           /\ GateOf(r) \in {"draft", "public"} /\ FitOf(r)
<1>1. p = [r EXCEPT !.published = TRUE]
  BY ToDomainGate
<1>2. p \in Project /\ r # NONE /\ p # NONE
  <2>1. [r EXCEPT !.published = TRUE] \in Project
    BY ReplaceType
  <2> QED BY <1>1, <2>1
<1>3. /\ p.outcome = r.outcome /\ p.bundle = r.bundle /\ p.imageUri = r.imageUri
      /\ p.imageSource = r.imageSource /\ p.published = TRUE /\ p.takedown = r.takedown
  BY <1>1 DEF Project
<1> QED BY <1>2, <1>3 DEF Sound, Complete, GateOf, FitOf, HasImage

LEMMA TakedownIntent ==
    ASSUME NEW r \in Project, Sound(r),
           NEW p, p = [ToDomain(r) EXCEPT !.published = FALSE, !.takedown = TRUE]
    PROVE  Sound(p) /\ GateOf(p) = "withdrawn" /\ FitOf(p) = FitOf(r)
<1> DEFINE q == ToDomain(r)
<1>1. q \in Project /\ FitOf(q) = FitOf(r) /\ q.outcome = r.outcome /\ q.bundle = r.bundle
  BY ToDomainType, ToDomainGate
<1> HIDE DEF q
<1>2. p = [q EXCEPT !.published = FALSE, !.takedown = TRUE] /\ p \in Project
  BY <1>1, ReplaceType DEF q
<1>3. /\ p.outcome = q.outcome /\ p.bundle = q.bundle /\ p.imageUri = q.imageUri
      /\ p.imageSource = q.imageSource /\ p.published = FALSE /\ p.takedown = TRUE
  BY <1>1, <1>2 DEF Project
<1>4. p # NONE /\ q # NONE
  BY <1>1, <1>2
<1> QED BY <1>1, <1>3, <1>4 DEF Sound, Complete, GateOf, FitOf, HasImage

LEMMA UploadIntent ==
    ASSUME NEW r \in Project, Sound(r), NEW name \in UploadNames,
           NEW p, p = [r EXCEPT !.imageUri = name, !.imageSource = "manual_upload"]
    PROVE  Sound(p) /\ GateOf(p) = GateOf(r) /\ (FitOf(r) => FitOf(p))
<1>1. p \in Project /\ r # NONE /\ p # NONE
  <2>1. [r EXCEPT !.imageUri = name, !.imageSource = "manual_upload"] \in Project
    BY ReplaceType
  <2> QED BY <2>1
<1>2. /\ p.outcome = r.outcome /\ p.bundle = r.bundle /\ p.imageUri = name
      /\ p.imageSource = "manual_upload" /\ p.published = r.published
      /\ p.takedown = r.takedown
  BY DEF Project
<1>3. name # NONE /\ "manual_upload" # NONE
  BY DEF Sources
<1> QED BY <1>1, <1>2, <1>3 DEF Sound, Complete, GateOf, FitOf, HasImage
-----------------------------------------------------------------------------
(* The serial invariant                                                    *)

\* While h steps, everybody else is idle, before and after.
LEMMA Alone ==
    ASSUME TypeOK, OneAtATime, NEW h \in Handlers, Start(h) \/ Continue(h) \/ Crash(h),
           OneAtATime', NEW g \in Handlers, g # h
    PROVE  pc'[g] = "idle" /\ pc[g] = "idle"
<1>1. pc'[g] = pc[g]
  BY OthersKeep
<1>2. CASE Start(h)
  <2>1. pc'[h] # "idle"
    BY <1>2 DEF Start, StartSave, StartPublish, StartTakedown, StartUpload, Begin, Goto, TypeOK
  <2> QED BY <1>1, <2>1 DEF OneAtATime
<1>3. CASE Continue(h) \/ Crash(h)
  <2>1. pc[h] # "idle"
    BY <1>3 DEF Continue, CopyArtifact, FetchFails, StoreUpload, Merge, CommitInsert,
       InsertConflicts, CommitUpdate, CopyAssets, WritePage, Crash
  <2> QED BY <1>1, <2>1 DEF OneAtATime
<1> QED BY <1>2, <1>3

LEMMA IdleControl ==
    ASSUME NEW h \in Handlers, pc[h] = "idle", Sound(project[h])
    PROVE  SerialControl(h)
BY DEF SerialControl

LEMMA EndSerial ==
    ASSUME TypeOK, NEW h \in Handlers, End(h)
    PROVE  SerialControl(h)'
<1>1. pc'[h] = "idle" /\ project'[h] = Blank
  BY DEF End, Goto, TypeOK
<1> QED BY <1>1, BlankSound DEF SerialControl, Sound, Complete, HasImage

LEMMA StartSerial ==
    ASSUME TypeOK, SerialInv, NEW h \in Handlers, Start(h)
    PROVE  SerialControl(h)'
<1>1. row' = row
  BY DEF Start, StartSave, StartPublish, StartTakedown, StartUpload, Begin
<1>2. CASE StartSave(h)
  <2>1. PICK outcome \in Outcomes, photo \in FirstPhoto :
          \/ outcome # "rendered" /\ Begin(h, "save", NewProject(outcome, NONE, photo), "merging")
          \/ Begin(h, "save", NewProject(outcome, renders + 1, photo), "copying")
    BY <1>2 DEF StartSave
  <2>2. renders + 1 # NONE
    BY DEF TypeOK
  <2>3. /\ op'[h] = "save" /\ pc'[h] \in {"merging", "copying"}
        /\ \/ outcome # "rendered" /\ project'[h] = NewProject(outcome, NONE, photo)
           \/ project'[h] = NewProject(outcome, renders + 1, photo)
    BY <2>1 DEF Begin, Goto, TypeOK
  <2>4. /\ Sound(project'[h]) /\ ~project'[h].published /\ ~project'[h].takedown
    BY <2>2, <2>3 DEF NewProject, Sound, Complete
  <2> QED BY <2>3, <2>4 DEF SerialControl, Intent, Sound, Complete, HasImage
<1>3. CASE StartPublish(h)
  <2> DEFINE p == [ToDomain(row) EXCEPT !.published = TRUE]
  <2>1. /\ project'[h] = p /\ op'[h] = "publish" /\ pc'[h] = "merging"
        /\ row \in Project /\ ~row.takedown /\ row.outcome = "rendered" /\ HasImage(row)
    BY <1>3 DEF StartPublish, Begin, Goto, TypeOK
  <2>2. Sound(row)
    BY <1>3 DEF StartPublish, SerialInv
  <2>3. /\ Sound(p) /\ GateOf(p) = "public" /\ FitOf(p)
        /\ GateOf(row) \in {"draft", "public"} /\ FitOf(row)
    BY <2>1, <2>2, PublishIntent
  <2> HIDE DEF p
  <2> QED BY <1>1, <2>1, <2>3 DEF SerialControl, Intent, Sound, Complete, HasImage, GateOf, FitOf
<1>4. CASE StartTakedown(h)
  <2> DEFINE p == [ToDomain(row) EXCEPT !.published = FALSE, !.takedown = TRUE]
  <2>1. /\ project'[h] = p /\ op'[h] = "takedown" /\ pc'[h] = "merging"
        /\ row # NONE /\ row \in Project
    BY <1>4 DEF StartTakedown, Begin, Goto, TypeOK
  <2>2. Sound(row)
    BY <2>1 DEF SerialInv
  <2>3. Sound(p) /\ GateOf(p) = "withdrawn" /\ FitOf(p) = FitOf(row)
    BY <2>1, <2>2, TakedownIntent
  <2> HIDE DEF p
  <2> QED BY <1>1, <2>1, <2>3 DEF SerialControl, Intent, Sound, Complete, HasImage, GateOf, FitOf
<1>5. CASE StartUpload(h)
  <2>1. PICK name \in UploadNames :
          /\ project'[h] = [row EXCEPT !.imageUri = name, !.imageSource = "manual_upload"]
          /\ op'[h] = "upload" /\ pc'[h] = "storing" /\ row # NONE /\ row \in Project
    BY <1>5 DEF StartUpload, Begin, Goto, TypeOK
  <2> DEFINE p == [row EXCEPT !.imageUri = name, !.imageSource = "manual_upload"]
  <2>2. Sound(row)
    BY <2>1 DEF SerialInv
  <2>3. Sound(p) /\ GateOf(p) = GateOf(row) /\ (FitOf(row) => FitOf(p))
    BY <2>1, <2>2, UploadIntent
  <2>4. project'[h] = p
    BY <2>1
  <2> HIDE DEF p
  <2> QED BY <1>1, <2>1, <2>3, <2>4
          DEF SerialControl, Intent, Sound, Complete, HasImage, GateOf, FitOf
<1> QED BY <1>2, <1>3, <1>4, <1>5 DEF Start
\* Alone, a commit stores exactly the Project the handler holds.
LEMMA CommitWrites ==
    ASSUME TypeOK, SerialInv, NEW h \in Handlers, CommitInsert(h) \/ CommitUpdate(h)
    PROVE  row' = project[h]
<1>1. CASE CommitInsert(h)
  BY <1>1 DEF CommitInsert
<1>2. CASE CommitUpdate(h)
  <2>1. /\ row # NONE /\ row \in Project /\ project[h] \in Project
        /\ pending[h].cols = Changed(project[h], row)
    BY <1>2 DEF CommitUpdate, SerialInv, SerialControl, TypeOK
  <2> QED BY <1>2, <2>1, UpdatedAll DEF CommitUpdate
<1> QED BY <1>1, <1>2

LEMMA ContinueSerial ==
    ASSUME TypeOK, SerialInv, NEW h \in Handlers, Continue(h)
    PROVE  SerialControl(h)'
<1>1. CASE FetchFails(h) \/ InsertConflicts(h) \/ WritePage(h)
  BY <1>1, EndSerial DEF FetchFails, InsertConflicts, WritePage
<1>2. CASE CommitInsert(h) \/ CommitUpdate(h)
  <2>1. row' = project[h]
    BY <1>2, CommitWrites
  <2>2. CASE h \in Commands
    <3>1. pc'[h] = "building" /\ project' = project
      BY <1>2, <2>2 DEF CommitInsert, CommitUpdate, Saved, Goto, TypeOK
    <3> QED BY <2>1, <3>1 DEF SerialInv, SerialControl, Sound, Complete, HasImage
  <2>3. CASE h \notin Commands
    BY <1>2, <2>3, EndSerial DEF CommitInsert, CommitUpdate, Saved
  <2> QED BY <2>2, <2>3
<1>3. CASE CopyArtifact(h) \/ StoreUpload(h)
  <2>1. /\ pc[h] \in {"copying", "storing"} /\ pc'[h] \in {"copying", "merging"}
        /\ project' = project /\ op' = op /\ row' = row
    BY <1>3 DEF CopyArtifact, StoreUpload, Goto, TypeOK
  <2> QED BY <2>1
          DEF SerialInv, SerialControl, Intent, Sound, Complete, HasImage, GateOf, FitOf
<1>4. CASE Merge(h)
  <2>1. /\ pc[h] = "merging" /\ pc'[h] = "committing"
        /\ project' = project /\ op' = op /\ row' = row
        /\ pending'[h].insert <=> row = NONE
        /\ row # NONE => pending'[h].cols = Changed(project[h], row)
    BY <1>4 DEF Merge, Goto, TypeOK
  <2> QED BY <2>1
          DEF SerialInv, SerialControl, Intent, Sound, Complete, HasImage, GateOf, FitOf, Changed
<1>5. CASE CopyAssets(h)
  <2>1. /\ pc[h] = "building" /\ pc'[h] = "writing" /\ project' = project /\ row' = row
    BY <1>5 DEF CopyAssets, Goto, TypeOK
  <2> QED BY <2>1 DEF SerialInv, SerialControl, Sound, Complete, HasImage
<1> QED BY <1>1, <1>2, <1>3, <1>4, <1>5 DEF Continue

LEMMA SerialStep ==
    ASSUME TypeOK, SerialInv, OneAtATime', NEW h \in Handlers,
           Start(h) \/ Continue(h) \/ Crash(h)
    PROVE  SerialInv'
<1>1. SerialControl(h)'
  BY StartSerial, ContinueSerial, EndSerial DEF Crash
<1>2. ASSUME NEW g \in Handlers, g # h
      PROVE  SerialControl(g)'
  <2>1. pc'[g] = "idle" /\ project'[g] = project[g] /\ Sound(project[g])
    BY <1>2, Alone, OthersKeep DEF SerialInv, SerialControl
  <2> QED BY <2>1 DEF SerialControl, Sound, Complete, HasImage
<1>3. row' # NONE => Sound(row)'
  <2>1. CASE CommitInsert(h) \/ CommitUpdate(h)
    BY <2>1, CommitWrites DEF SerialInv, SerialControl, Sound, Complete, HasImage
  <2>2. CASE row' = row
    BY <2>2 DEF SerialInv, Sound, Complete, HasImage
  <2> QED BY <2>1, <2>2 DEF Start, StartSave, StartPublish, StartTakedown, StartUpload,
        Begin, Continue, CopyArtifact, FetchFails, StoreUpload, Merge, InsertConflicts,
        CopyAssets, WritePage, Crash
<1> QED BY <1>1, <1>2, <1>3 DEF SerialInv

THEOREM SerialInvariance == SerialSpec => [](IInv /\ SerialInv)
<1>1. Init => IInv /\ SerialInv
  <2> SUFFICES ASSUME Init PROVE IInv /\ SerialInv
    OBVIOUS
  <2>1. \A h \in Handlers : SerialControl(h)
    BY BlankSound, IdleControl DEF Init
  <2> QED BY <2>1, InvInit DEF Init, SerialInv, OneAtATime
<1>2. IInv /\ SerialInv /\ [Next /\ OneAtATime']_vars => (IInv /\ SerialInv)'
  <2> SUFFICES ASSUME IInv, SerialInv, [Next /\ OneAtATime']_vars
               PROVE  IInv' /\ SerialInv'
    OBVIOUS
  <2>1. CASE UNCHANGED vars
    BY <2>1, InvNext DEF vars, handlerVars, SerialInv, OneAtATime, SerialControl, Intent,
       Sound, Complete, HasImage, GateOf, FitOf, Changed
  <2>2. CASE Next /\ OneAtATime'
    <3>1. PICK h \in Handlers : Start(h) \/ Continue(h) \/ Crash(h)
      BY <2>2 DEF Next, CrashFree
    <3> QED BY <2>2, <3>1, InvNext, SerialStep DEF IInv
  <2> QED BY <2>1, <2>2
<1> QED BY <1>1, <1>2, PTL DEF SerialSpec

\* One command at a time: a published row has a successful render, artifacts and
\* a before-image, and is not taken down, whatever was run before and wherever a
\* process died.
THEOREM PublishedAlwaysComplete == SerialSpec => []PublishedIsComplete
<1>1. SerialInv => PublishedIsComplete
  BY DEF SerialInv, PublishedIsComplete, Sound
<1> QED BY <1>1, SerialInvariance, PTL

-----------------------------------------------------------------------------
(* The digests a run saves are those of the files that are there           *)

\* Where a run stands says which of its files it has put in place; only uploads
\* store anything else.
Digests(h) ==
    /\ pc[h] = "copying" =>
         \A i \in 1 .. copied[h] : disk[CopyOrder[i]] = project[h].bundle
    /\ pc[h] = "storing" => op[h] # "save"
    /\ op[h] = "save" /\ pc[h] \in {"merging", "committing"} /\ project[h].bundle # NONE =>
         \A i \in CopyIndex : disk[CopyOrder[i]] = project[h].bundle

LEMMA StartDigests ==
    ASSUME IInv, NEW h \in Handlers, Start(h)
    PROVE  Digests(h)'
<1>1. copied'[h] = 0
  BY DEF Start, StartSave, StartPublish, StartTakedown, StartUpload, Begin, IInv, Control
<1>2. CASE StartSave(h)
  <2>1. PICK outcome \in Outcomes, photo \in FirstPhoto :
          \/ Begin(h, "save", NewProject(outcome, NONE, photo), "merging")
          \/ Begin(h, "save", NewProject(outcome, renders + 1, photo), "copying")
    BY <1>2 DEF StartSave
  <2>2. \/ pc'[h] = "copying"
        \/ pc'[h] = "merging" /\ project'[h] = NewProject(outcome, NONE, photo)
    BY <2>1 DEF Begin, Goto, IInv, TypeOK
  <2> QED BY <1>1, <2>2 DEF Digests, NewProject
<1>3. CASE StartPublish(h) \/ StartTakedown(h) \/ StartUpload(h)
  <2>1. op'[h] # "save" /\ pc'[h] # "copying"
    BY <1>3 DEF StartPublish, StartTakedown, StartUpload, Begin, Goto, IInv, TypeOK
  <2> QED BY <2>1 DEF Digests
<1> QED BY <1>2, <1>3 DEF Start

LEMMA ContinueDigests ==
    ASSUME IInv, NEW h \in Handlers, Digests(h), Continue(h)
    PROVE  Digests(h)'
<1>1. CASE CopyArtifact(h)
  <2> DEFINE next == copied[h] + 1
  <2>1. /\ pc[h] = "copying" /\ copied'[h] = next /\ project' = project
        /\ disk' = [disk EXCEPT ![CopyOrder[next]] = project[h].bundle]
        /\ pc'[h] = IF next = Len(CopyOrder) THEN "merging" ELSE "copying"
    BY <1>1 DEF CopyArtifact, Goto, IInv, TypeOK
  <2>2. copied[h] \in Nat /\ next \in CopyIndex /\ CopyOrder[next] \in DOMAIN disk
    BY <2>1, CopyAssumption DEF IInv, TypeOK, Control, CopyIndex, Files
  <2>3. ASSUME NEW i \in 1 .. next
        PROVE  disk'[CopyOrder[i]] = project'[h].bundle
    <3>1. CopyOrder[i] \in DOMAIN disk
      BY <2>2, CopyAssumption DEF IInv, TypeOK, CopyIndex, Files
    <3>2. CASE i = next
      BY <2>1, <2>2, <3>2
    <3>3. CASE i # next
      <4>1. disk[CopyOrder[i]] = project[h].bundle
        BY <2>1, <2>2, <3>3 DEF Digests
      <4> QED BY <2>1, <3>1, <4>1
    <3> QED BY <3>2, <3>3
  <2> QED BY <2>1, <2>3 DEF Digests, CopyIndex
<1>2. CASE FetchFails(h) \/ InsertConflicts(h) \/ WritePage(h)
  BY <1>2 DEF FetchFails, InsertConflicts, WritePage, End, Goto, Digests, IInv, TypeOK
<1>3. CASE StoreUpload(h)
  BY <1>3 DEF StoreUpload, Goto, Digests, IInv, TypeOK
<1>4. CASE Merge(h)
  BY <1>4 DEF Merge, Goto, Digests, IInv, TypeOK
<1>5. CASE CommitInsert(h) \/ CommitUpdate(h) \/ CopyAssets(h)
  <2>1. pc'[h] \in {"idle", "building", "writing"}
    BY <1>5 DEF CommitInsert, CommitUpdate, CopyAssets, Saved, End, Goto, IInv, TypeOK
  <2> QED BY <2>1 DEF Digests
<1> QED BY <1>1, <1>2, <1>3, <1>4, <1>5 DEF Continue

\* One command at a time: the digests a run is about to save are those of the
\* files under the project, whatever earlier runs, uploads and crashes left there.
THEOREM DigestsAlwaysTrue == SerialSpec => []DigestsTrueAtSave
<1> DEFINE All == \A h \in Handlers : Digests(h)
<1>1. Init => All
  BY DEF Init, Digests
<1>2. IInv /\ SerialInv /\ All /\ [Next /\ OneAtATime']_vars => All'
  <2> SUFFICES ASSUME IInv, SerialInv, All, [Next /\ OneAtATime']_vars, NEW g \in Handlers
               PROVE  Digests(g)'
    OBVIOUS
  <2>1. CASE UNCHANGED vars
    BY <2>1 DEF vars, handlerVars, Digests
  <2>2. CASE Next /\ OneAtATime'
    <3>1. PICK h \in Handlers : Start(h) \/ Continue(h) \/ Crash(h)
      BY <2>2 DEF Next, CrashFree
    <3>2. CASE g # h
      <4>1. pc'[g] = "idle"
        BY <2>2, <3>1, <3>2, Alone DEF IInv, SerialInv
      <4> QED BY <4>1 DEF Digests
    <3>3. CASE g = h /\ Crash(h)
      BY <3>3 DEF Crash, End, Goto, Digests, IInv, TypeOK
    <3> QED BY <3>1, <3>2, <3>3, StartDigests, ContinueDigests
  <2> QED BY <2>1, <2>2
<1>3. All => DigestsTrueAtSave
  BY DEF Digests, DigestsTrueAtSave
<1> QED BY <1>1, <1>2, <1>3, SerialInvariance, PTL DEF SerialSpec

\* One command at a time: every page written shows the row as it then is.
THEOREM PageAlwaysFollowsRow == SerialSpec => PageFollowsRow
<1>1. IInv /\ SerialInv /\ [Next /\ OneAtATime']_vars =>
        [page' # page => row # NONE /\ page'.kind = PageKind(row)
                                 /\ (~row.takedown => page'.shows = AssetsOf(row))]_vars
  <2> SUFFICES ASSUME IInv, SerialInv, Next, page' # page
               PROVE  row # NONE /\ page'.kind = PageKind(row)
                                 /\ (~row.takedown => page'.shows = AssetsOf(row))
    OBVIOUS
  <2>1. PICK h \in Handlers : WritePage(h)
    BY DEF Next, CrashFree, Start, StartSave, StartPublish, StartTakedown, StartUpload,
       Begin, Continue, CopyArtifact, FetchFails, StoreUpload, Merge, CommitInsert,
       InsertConflicts, CommitUpdate, CopyAssets, Crash
  <2>2. row = project[h] /\ project[h] \in Project
    BY <2>1 DEF WritePage, SerialInv, SerialControl, IInv, TypeOK
  <2> QED BY <2>1, <2>2 DEF WritePage
<1> QED BY <1>1, SerialInvariance, PTL DEF SerialSpec, PageFollowsRow
-----------------------------------------------------------------------------
(* The row implements the publication gate                                 *)

LEMMA CommitGate ==
    ASSUME TypeOK, SerialInv, NEW h \in Handlers, CommitInsert(h) \/ CommitUpdate(h)
    PROVE  Gate!Next \/ RerunOverTakedown
<1>1. row' = project[h] /\ Intent(h) /\ project[h] \in Project
  BY CommitWrites DEF CommitInsert, CommitUpdate, SerialInv, SerialControl, TypeOK
<1>2. /\ GateOf(row') = GateOf(project[h]) /\ FitOf(row') = FitOf(project[h])
      /\ FitOf(row) \in BOOLEAN /\ FitOf(row') \in BOOLEAN
  BY <1>1 DEF FitOf
<1>3. row # NONE => GateOf(row) # "absent"
  BY DEF GateOf, TypeOK, Project
<1>4. op[h] \in {"save", "publish", "takedown", "upload"}
  BY <1>1 DEF Intent, TypeOK
<1>5. CASE op[h] = "save"
  <2>1. GateOf(project[h]) = "draft"
    BY <1>1, <1>5 DEF Intent, GateOf
  <2>2. pc[h] = "committing"
    BY DEF CommitInsert, CommitUpdate
  <2> QED BY <1>2, <1>5, <2>1, <2>2 DEF Gate!Next, Gate!Run, RerunOverTakedown
<1>6. CASE op[h] = "publish"
  BY <1>1, <1>2, <1>6 DEF Intent, Gate!Next, Gate!Publish
<1>7. CASE op[h] = "takedown"
  BY <1>1, <1>2, <1>3, <1>7 DEF Intent, Gate!Next, Gate!Takedown
<1>8. CASE op[h] = "upload"
  BY <1>1, <1>2, <1>3, <1>8 DEF Intent, Gate!Next, Gate!AddImage
<1> QED BY <1>4, <1>5, <1>6, <1>7, <1>8

\* One command at a time: whatever the use cases do to the row is a step of the
\* publication gate or a new run saved over a takedown, so a taken-down project
\* returns in that one way.
THEOREM RowKeepsGateButReruns == SerialSpec => GateButReruns
<1>1. Init => Gate!Init
  BY DEF Init, Gate!Init, GateOf, FitOf
<1>2. IInv /\ SerialInv /\ [Next /\ OneAtATime']_vars =>
        [Gate!Next \/ RerunOverTakedown]_<<GateOf(row), FitOf(row)>>
  <2> SUFFICES ASSUME IInv, SerialInv, [Next /\ OneAtATime']_vars
               PROVE  Gate!Next \/ RerunOverTakedown \/ row' = row
    OBVIOUS
  <2>1. CASE UNCHANGED vars
    BY <2>1 DEF vars
  <2>2. CASE Next
    <3>1. PICK h \in Handlers : Start(h) \/ Continue(h) \/ Crash(h)
      BY <2>2 DEF Next, CrashFree
    <3>2. CASE CommitInsert(h) \/ CommitUpdate(h)
      BY <3>2, CommitGate DEF IInv
    <3> QED BY <3>1, <3>2 DEF Start, StartSave, StartPublish, StartTakedown, StartUpload,
        Begin, Continue, CopyArtifact, FetchFails, StoreUpload, Merge, InsertConflicts,
        CopyAssets, WritePage, Crash
  <2> QED BY <2>1, <2>2
<1> QED BY <1>1, <1>2, SerialInvariance, PTL DEF SerialSpec, GateButReruns

-----------------------------------------------------------------------------
(* What overlap, crashes and the API's missing page build alone can break   *)

\* A publish never undoes a takedown when use cases do not overlap: the run that
\* loses a takedown needs a publish that read the row before it.
THEOREM TakedownsSurviveSerially == SerialSpec => TakedownSurvivesPublish
<1>1. IInv /\ SerialInv /\ [Next /\ OneAtATime']_vars =>
        [\A h \in Handlers :
           (op[h] = "publish" /\ pc[h] = "committing" /\ TakenDown) => row'.takedown]_vars
  <2> SUFFICES ASSUME SerialInv, NEW h \in Handlers, op[h] = "publish", pc[h] = "committing", TakenDown
               PROVE  FALSE
    OBVIOUS
  <2>1. GateOf(row) \in {"draft", "public"}
    BY DEF SerialInv, SerialControl, Intent
  <2>2. GateOf(row) = "withdrawn"
    BY DEF TakenDown, GateOf
  <2> QED BY <2>1, <2>2
<1> QED BY <1>1, SerialInvariance, PTL DEF SerialSpec, TakedownSurvivesPublish

\* A command changes the row and the page on the way through its page build.
LEMMA SettlesStep ==
    ASSUME IInv, SerialInv, PageSettles, Requests = {}, NEW h \in Handlers, Start(h) \/ Continue(h)
    PROVE  PageSettles'
<1> USE DEF PageSettles
<1>0. /\ h \in Commands /\ pc \in [Handlers -> Labels] /\ pc[h] \in Labels
      /\ project \in [Handlers -> Project]
  BY DEF Handlers, IInv, TypeOK
<1>1. ASSUME UNCHANGED <<row, page>>, pc[h] \notin {"building", "writing"} PROVE PageSettles'
  <2>1. \A g \in Handlers : g # h => pc'[g] = pc[g]
    BY <1>0 DEF Start, StartSave, StartPublish, StartTakedown, StartUpload, Begin, Continue,
       CopyArtifact, FetchFails, StoreUpload, Merge, CommitInsert, InsertConflicts, CommitUpdate,
       CopyAssets, WritePage, Saved, End, Goto
  <2>2. (\A g \in Handlers : pc'[g] \notin {"building", "writing"})
          => (\A g \in Handlers : pc[g] \notin {"building", "writing"})
    BY <1>1, <2>1
  <2> QED BY <1>1, <2>2 DEF PageKind, AssetsOf
<1>2. ASSUME pc'[h] \in {"building", "writing"} PROVE PageSettles'
  BY <1>2
<1>3. CASE WritePage(h)
  <2>1. row = project[h] /\ row' = row
    BY <1>3 DEF WritePage, SerialInv, SerialControl
  <2>2. /\ page'.kind = PageKind(project[h])
        /\ page'.shows = IF project[h].takedown THEN {} ELSE AssetsOf(project[h])
    BY <1>3 DEF WritePage
  <2> QED BY <2>1, <2>2 DEF PageKind, AssetsOf
<1>4. CASE CopyAssets(h)
  <2>1. pc'[h] = "writing"
    BY <1>0, <1>4 DEF CopyAssets, Goto
  <2> QED BY <1>2, <2>1
<1>5. CASE CommitInsert(h) \/ CommitUpdate(h)
  <2>1. pc'[h] = "building"
    BY <1>0, <1>5 DEF CommitInsert, CommitUpdate, Saved, Goto
  <2> QED BY <1>2, <2>1
<1>6. CASE Start(h)
  <2>1. UNCHANGED <<row, page>> /\ pc[h] = "idle"
    BY <1>6 DEF Start, StartSave, StartPublish, StartTakedown, StartUpload, Begin
  <2> QED BY <1>1, <2>1
<1>7. CASE CopyArtifact(h) \/ FetchFails(h) \/ StoreUpload(h) \/ Merge(h) \/ InsertConflicts(h)
  <2>1. UNCHANGED <<row, page>> /\ pc[h] \in {"copying", "storing", "merging", "committing"}
    BY <1>7 DEF CopyArtifact, FetchFails, StoreUpload, Merge, InsertConflicts
  <2> QED BY <1>1, <2>1
<1> QED BY <1>3, <1>4, <1>5, <1>6, <1>7 DEF Continue

\* When commands run one at a time and none is killed, the page left behind always
\* shows the row: a stale page takes a crash, an overlap or a change through the
\* API, which builds no page.
THEOREM PageAlwaysSettles == ASSUME Requests = {} PROVE FairSerialSpec => []PageSettles
<1>1. FairSerialSpec => SerialSpec
  <2>1. [CrashFree /\ OneAtATime']_vars => [Next /\ OneAtATime']_vars
    BY DEF Next
  <2> QED BY <2>1, PTL DEF FairSerialSpec, SerialSpec
<1>2. Init => PageSettles
  BY DEF Init, PageSettles
<1>3. IInv /\ SerialInv /\ PageSettles /\ [CrashFree /\ OneAtATime']_vars => PageSettles'
  <2> SUFFICES ASSUME IInv, SerialInv, PageSettles, [CrashFree /\ OneAtATime']_vars
               PROVE  PageSettles'
    OBVIOUS
  <2>1. CASE UNCHANGED vars
    BY <2>1 DEF vars, handlerVars, PageSettles, PageKind, AssetsOf
  <2>2. CASE CrashFree
    BY <2>2, SettlesStep DEF CrashFree
  <2> QED BY <2>1, <2>2
<1> QED BY <1>1, <1>2, <1>3, SerialInvariance, PTL DEF FairSerialSpec
=============================================================================
