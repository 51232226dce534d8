-------------------------- MODULE ProjectLifecycle --------------------------
(***************************************************************************)
(* One makeover project while API requests and CLI commands act on it:     *)
(* SaveProject (a pipeline run), PublishProject, TakedownProject and       *)
(* UploadBeforeImage, over the `projects' row in SQLite, the project's     *)
(* directory in the artifact store and, for the CLI, the landing page      *)
(* under --out.  Every await of a use case ends a step, so the steps of    *)
(* different handlers interleave, and a process may die between any two.   *)
(*                                                                         *)
(* Projects share neither row, directory nor page, so one is modelled.     *)
(***************************************************************************)
EXTENDS Naturals, Sequences

CONSTANTS
    Requests,     \* slots for API requests being served at once
    Commands,     \* slots for CLI commands being run at once
    CopyOrder,    \* artifact file names in the order _copy_artifacts stores them
    PageFiles,    \* the artifact files the landing page copies
    UploadNames,  \* file names a manual upload may carry
    MaxRenders,   \* BOUND: renders that produce artifacts
    Photo,        \* a remote photo URL
    FirstPhoto,   \* what photo_urls may offer at a run: a subset of {Photo, NONE}
    Upload,       \* contents of an uploaded picture
    Torn,         \* contents of a file whose write was cut short
    NONE          \* None: no row, no file, no value in a nullable column

Handlers == Requests \cup Commands

CopyIndex == 1 .. Len(CopyOrder)

ASSUME CopyAssumption ==
    /\ CopyOrder \in Seq(STRING)
    /\ Len(CopyOrder) > 0
    /\ PageFiles \subseteq {CopyOrder[i] : i \in CopyIndex}
    /\ UploadNames \subseteq STRING
ASSUME BoundAssumption == MaxRenders \in Nat
ASSUME HandlerAssumption == Requests \cap Commands = {}
VARIABLES
    row,       \* the projects row, or NONE
    disk,      \* var/artifacts/<id>: what each file holds, or NONE
    assets,    \* files present in <out>/<id>/assets
    page,      \* <out>/<id>/index.html
    renders,   \* render jobs that produced artifacts so far
    pc,        \* where each handler is
    op,        \* the use case it executes
    project,   \* the Project object it holds in memory
    copied,    \* artifacts it has copied
    pending    \* what its session.merge found: an INSERT, or the changed columns

handlerVars == <<pc, op, project, copied, pending>>
vars == <<row, disk, assets, page, renders, handlerVars>>

-----------------------------------------------------------------------------
(* Records *)

Outcomes == {"rendered", "failed"}   \* BRIEF_FAILED and RENDER_FAILED are treated alike
Sources  == {"auto_photo", "manual_upload"}
Files    == {CopyOrder[i] : i \in CopyIndex} \cup UploadNames
Columns  == {"outcome", "bundle", "imageUri", "imageSource", "published", "takedown"}

Project == [outcome : Outcomes, bundle : Nat \cup {NONE},
            imageUri : UploadNames \cup {Photo, NONE}, imageSource : Sources \cup {NONE},
            published : BOOLEAN, takedown : BOOLEAN]

ASSUME ValueAssumption ==
    /\ NONE \notin Nat \cup Project \cup UploadNames \cup Sources \cup {Photo, Upload, Torn}
    /\ Photo \notin UploadNames
    /\ FirstPhoto \subseteq {Photo, NONE}

Blank == [outcome |-> "failed", bundle |-> NONE, imageUri |-> NONE,
          imageSource |-> NONE, published |-> FALSE, takedown |-> FALSE]

HasImage(p) == p.imageUri # NONE /\ p.imageSource # NONE

\* _to_domain: a before-image needs both its columns.
ToDomain(r) ==
    IF HasImage(r) THEN r ELSE [r EXCEPT !.imageUri = NONE, !.imageSource = NONE]

\* The columns session.merge marks as changed after its own SELECT.
Changed(p, r) == {c \in Columns : p[c] # r[c]}

\* Mutant: _to_row forgets the takedown column.
UpdatedNoTakedown(r, p, cols) ==
    [outcome     |-> IF "outcome"     \in cols THEN p.outcome     ELSE r.outcome,
     bundle      |-> IF "bundle"      \in cols THEN p.bundle      ELSE r.bundle,
     imageUri    |-> IF "imageUri"    \in cols THEN p.imageUri    ELSE r.imageUri,
     imageSource |-> IF "imageSource" \in cols THEN p.imageSource ELSE r.imageSource,
     published   |-> IF "published"   \in cols THEN p.published   ELSE r.published,
     takedown    |-> r.takedown]

\* The UPDATE of commit() writes those columns and no other.
Updated(r, p, cols) ==
    [outcome     |-> IF "outcome"     \in cols THEN p.outcome     ELSE r.outcome,
     bundle      |-> IF "bundle"      \in cols THEN p.bundle      ELSE r.bundle,
     imageUri    |-> IF "imageUri"    \in cols THEN p.imageUri    ELSE r.imageUri,
     imageSource |-> IF "imageSource" \in cols THEN p.imageSource ELSE r.imageSource,
     published   |-> IF "published"   \in cols THEN p.published   ELSE r.published,
     takedown    |-> IF "takedown"    \in cols THEN p.takedown    ELSE r.takedown]

NoMerge == [insert |-> FALSE, cols |-> {}]

\* Mutant: Names a template the builder does not have.
PageKindRemoved(p) ==
    IF p.takedown THEN "removed" ELSE IF p.published THEN "live" ELSE "draft"

\* Which template the builder renders, and whether with the DRAFT watermark.
PageKind(p) ==
    CASE p.takedown                   -> "placeholder"
      [] ~p.takedown /\ p.published   -> "live"
      [] ~p.takedown /\ ~p.published  -> "draft"

BeforeAsset == "before"

\* The local files the builder copies for a project that is not taken down.
AssetsOf(p) ==
    (IF p.bundle = NONE THEN {} ELSE PageFiles) \cup
    (IF HasImage(p) /\ p.imageUri # Photo THEN {BeforeAsset} ELSE {})

-----------------------------------------------------------------------------
Init ==
    /\ row = NONE
    /\ disk = [f \in Files |-> NONE]
    /\ assets = {}
    /\ page = [kind |-> "none", shows |-> {}, image |-> FALSE]
    /\ renders = 0
    /\ pc = [h \in Handlers |-> "idle"]
    /\ op = [h \in Handlers |-> "none"]
    /\ project = [h \in Handlers |-> Blank]
    /\ copied = [h \in Handlers |-> 0]
    /\ pending = [h \in Handlers |-> NoMerge]

Goto(h, label) == pc' = [pc EXCEPT ![h] = label]

Begin(h, useCase, p, label) ==
    /\ pc[h] = "idle"
    /\ Goto(h, label)
    /\ op' = [op EXCEPT ![h] = useCase]
    /\ project' = [project EXCEPT ![h] = p]
    /\ UNCHANGED <<row, disk, assets, page, copied, pending>>

\* The handler returns or raises; what it held in memory is gone.
End(h) ==
    /\ Goto(h, "idle")
    /\ op' = [op EXCEPT ![h] = "none"]
    /\ project' = [project EXCEPT ![h] = Blank]
    /\ copied' = [copied EXCEPT ![h] = 0]
    /\ pending' = [pending EXCEPT ![h] = NoMerge]

-----------------------------------------------------------------------------
(* SaveProject: a fresh Project, never based on the row it replaces.  Only *)
(* a job that has artifacts has something to copy first; a job that did    *)
(* not succeed may still carry some.                                       *)

NewProject(outcome, bundle, photo) ==
    [outcome     |-> outcome,
     bundle      |-> bundle,
     imageUri    |-> photo,
     imageSource |-> IF photo = NONE THEN NONE ELSE "auto_photo",
     published   |-> FALSE,
     takedown    |-> FALSE]

StartSave(h) ==
    \E outcome \in Outcomes, photo \in FirstPhoto :
        \/ /\ outcome # "rendered"
           /\ Begin(h, "save", NewProject(outcome, NONE, photo), "merging")
           /\ UNCHANGED renders
        \/ /\ renders < MaxRenders
           /\ renders' = renders + 1
           /\ Begin(h, "save", NewProject(outcome, renders + 1, photo), "copying")

\* Fetch one artifact, find its digest right, store it under its fixed name.
CopyArtifact(h) ==
    /\ pc[h] = "copying"
    /\ LET next == copied[h] + 1 IN
         /\ disk' = [disk EXCEPT ![CopyOrder[next]] = project[h].bundle]
         /\ copied' = [copied EXCEPT ![h] = next]
         /\ Goto(h, IF next = Len(CopyOrder) THEN "merging" ELSE "copying")
    /\ UNCHANGED <<row, assets, page, renders, op, project, pending>>

\* Mutant: an artifact that cannot be fetched is passed over.
FetchSkipped(h) ==
    /\ pc[h] = "copying"
    /\ Goto(h, "merging")
    /\ UNCHANGED <<row, disk, assets, page, renders, op, project, copied, pending>>

\* A 404, a transport error or a digest that does not match raises out of execute.
FetchFails(h) ==
    /\ pc[h] = "copying"
    /\ End(h)
    /\ UNCHANGED <<row, disk, assets, page, renders>>

-----------------------------------------------------------------------------
(* The other use cases read the row, replace fields of that snapshot and   *)
(* save all of it.  A refused request changes nothing and is not a step.   *)

\* Mutants: each drops one of the three conditions of publishing.
PublishUnder(h, guard) ==
    /\ row # NONE
    /\ guard
    /\ Begin(h, "publish", [ToDomain(row) EXCEPT !.published = TRUE], "merging")
    /\ UNCHANGED renders
PublishTakenDown(h) == PublishUnder(h, row.outcome = "rendered" /\ HasImage(row))
PublishNoImage(h)   == PublishUnder(h, ~row.takedown /\ row.outcome = "rendered")
PublishNoRender(h)  == PublishUnder(h, ~row.takedown /\ HasImage(row))

StartPublish(h) ==
    /\ row # NONE
    /\ ~row.takedown
    /\ row.outcome = "rendered"
    /\ HasImage(row)
    /\ Begin(h, "publish", [ToDomain(row) EXCEPT !.published = TRUE], "merging")
    /\ UNCHANGED renders

StartTakedown(h) ==
    /\ row # NONE
    /\ Begin(h, "takedown",
             [ToDomain(row) EXCEPT !.published = FALSE, !.takedown = TRUE], "merging")
    /\ UNCHANGED renders

\* Only the API has an upload endpoint.
StartUpload(h) ==
    /\ row # NONE
    /\ h \in Requests
    /\ \E name \in UploadNames :
         Begin(h, "upload",
               [row EXCEPT !.imageUri = name, !.imageSource = "manual_upload"], "storing")
    /\ UNCHANGED renders

StoreUpload(h) ==
    /\ pc[h] = "storing"
    /\ disk' = [disk EXCEPT ![project[h].imageUri] = Upload]
    /\ Goto(h, "merging")
    /\ UNCHANGED <<row, assets, page, renders, op, project, copied, pending>>

-----------------------------------------------------------------------------
(* SqlAlchemyProjectRepository.save: merge() SELECTs the row and compares, *)
(* commit() writes.  SQLite holds no lock between the two.                 *)

Merge(h) ==
    /\ pc[h] = "merging"
    /\ pending' = [pending EXCEPT ![h] =
                     IF row = NONE THEN [insert |-> TRUE, cols |-> {}]
                     ELSE [insert |-> FALSE, cols |-> Changed(project[h], row)]]
    /\ Goto(h, "committing")
    /\ UNCHANGED <<row, disk, assets, page, renders, op, project, copied>>

Saved(h) ==
    IF h \in Commands THEN Goto(h, "building") /\ UNCHANGED <<op, project, copied, pending>>
    ELSE End(h)

CommitInsert(h) ==
    /\ pc[h] = "committing"
    /\ pending[h].insert
    /\ row = NONE
    /\ row' = project[h]
    /\ Saved(h)
    /\ UNCHANGED <<disk, assets, page, renders>>

\* Another handler inserted the row first: IntegrityError, nothing written.
InsertConflicts(h) ==
    /\ pc[h] = "committing"
    /\ pending[h].insert
    /\ row # NONE
    /\ End(h)
    /\ UNCHANGED <<row, disk, assets, page, renders>>

CommitUpdate(h) ==
    /\ pc[h] = "committing"
    /\ ~pending[h].insert
    /\ row' = Updated(row, project[h], pending[h].cols)
    /\ Saved(h)
    /\ UNCHANGED <<disk, assets, page, renders>>

-----------------------------------------------------------------------------
(* JinjaLandingPageBuilder.build, called by the CLI commands alone, with   *)
(* the Project the use case returned and not with the row.                 *)

\* Mutant: Writes index.html without having copied what it shows.
CopyAssetsNever(h) ==
    /\ pc[h] = "building"
    /\ Goto(h, "writing")
    /\ UNCHANGED <<row, disk, assets, page, renders, op, project, copied, pending>>

CopyAssets(h) ==
    /\ pc[h] = "building"
    /\ assets' = IF project[h].takedown THEN assets ELSE assets \cup AssetsOf(project[h])
    /\ Goto(h, "writing")
    /\ UNCHANGED <<row, disk, page, renders, op, project, copied, pending>>

WritePage(h) ==
    /\ pc[h] = "writing"
    /\ page' = [kind  |-> PageKind(project[h]),
                shows |-> IF project[h].takedown THEN {} ELSE AssetsOf(project[h]),
                image |-> ~project[h].takedown /\ HasImage(project[h])]
    /\ End(h)
    /\ UNCHANGED <<row, disk, assets, renders>>

-----------------------------------------------------------------------------
\* The process dies; a file it was writing may be left cut short.
Crash(h) ==
    /\ pc[h] # "idle"
    /\ \/ UNCHANGED disk
       \/ /\ pc[h] = "copying"
          /\ disk' = [disk EXCEPT ![CopyOrder[copied[h] + 1]] = Torn]
       \/ /\ pc[h] = "storing"
          /\ disk' = [disk EXCEPT ![project[h].imageUri] = Torn]
    /\ End(h)
    /\ UNCHANGED <<row, assets, page, renders>>

Start(h) == StartSave(h) \/ StartPublish(h) \/ StartTakedown(h) \/ StartUpload(h)

Continue(h) ==
    \/ CopyArtifact(h) \/ FetchFails(h) \/ StoreUpload(h)
    \/ Merge(h) \/ CommitInsert(h) \/ InsertConflicts(h) \/ CommitUpdate(h)
    \/ CopyAssets(h) \/ WritePage(h)

CrashFree == \E h \in Handlers : Start(h) \/ Continue(h)
Next == CrashFree \/ \E h \in Handlers : Crash(h)

Spec == Init /\ [][Next]_vars

\* One operator, one command or request at a time.
OneAtATime == \A g, h \in Handlers : pc[g] # "idle" /\ pc[h] # "idle" => g = h
SerialSpec == Init /\ [][Next /\ OneAtATime']_vars

\* The event loop runs every task that is ready, and no process is killed.
FairSerialSpec ==
    /\ Init
    /\ [][CrashFree /\ OneAtATime']_vars
    /\ \A h \in Handlers : WF_vars(Continue(h))

-----------------------------------------------------------------------------
Labels == {"idle", "copying", "storing", "merging", "committing", "building", "writing"}

\* Every variable has the shape of the object it stands for.
TypeOK ==
    /\ row \in Project \cup {NONE}
    /\ disk \in [Files -> Nat \cup {Upload, Torn, NONE}]
    /\ assets \subseteq PageFiles \cup {BeforeAsset}
    /\ page \in [kind : {"none", "placeholder", "draft", "live"},
                 shows : SUBSET (PageFiles \cup {BeforeAsset}), image : BOOLEAN]
    /\ renders \in Nat
    /\ pc \in [Handlers -> Labels]
    /\ op \in [Handlers -> {"none", "save", "publish", "takedown", "upload"}]
    /\ project \in [Handlers -> Project]
    /\ copied \in [Handlers -> 0 .. Len(CopyOrder)]
    /\ pending \in [Handlers -> [insert : BOOLEAN, cols : SUBSET Columns]]

\* The files a Project refers to are in the artifact store.
Stored(p)   == p.bundle # NONE => \A i \in CopyIndex : disk[CopyOrder[i]] # NONE
Uploaded(p) == p.imageUri \in UploadNames => disk[p.imageUri] # NONE
Prepared(h) == pc[h] \in {"merging", "committing", "building", "writing"}

\* NoDanglingFile: whatever the row or a handler about to save or build refers
\* to in the artifact store is there, so that save_project's "copy first, then
\* save" order never leaves a row whose files are missing and the page builder
\* never copies a file that does not exist.
NoDanglingFile ==
    /\ row # NONE => Stored(row) /\ Uploaded(row)
    /\ \A h \in Handlers : Prepared(h) => Stored(project[h]) /\ Uploaded(project[h])

\* PageIsWhole: the page on disk refers only to assets the builder put there
\* before it wrote index.html, and a page without the DRAFT watermark always
\* has the before-image that publish_project insists on, in whatever order the
\* commands that build pages and the requests that change the row interleave.
PageIsWhole ==
    /\ page.shows \subseteq assets
    /\ page.kind = "live" => page.image

\* What makes the two invariants above inductive: where a handler stands says
\* what it has already put on disk, found in the table or copied to the page.
Control(h) ==
    /\ pc[h] = "idle" => copied[h] = 0
    /\ pc[h] = "copying" =>
         /\ copied[h] < Len(CopyOrder)
         /\ project[h].bundle # NONE
         /\ project[h].imageUri \notin UploadNames
         /\ \A i \in 1 .. copied[h] : disk[CopyOrder[i]] # NONE
    /\ pc[h] = "storing" => project[h].imageUri \in UploadNames /\ Stored(project[h])
    /\ Prepared(h) => Stored(project[h]) /\ Uploaded(project[h])
    /\ pc[h] = "committing" /\ ~pending[h].insert => row # NONE
    /\ pc[h] = "writing" /\ ~project[h].takedown => AssetsOf(project[h]) \subseteq assets
    /\ pc[h] \in {"building", "writing"} => h \in Commands
    /\ h \in Commands /\ project[h].published => HasImage(project[h])
IInv ==
    /\ TypeOK
    /\ NoDanglingFile
    /\ PageIsWhole
    /\ \A h \in Handlers : Control(h)

\* TakedownHolds: once a row is taken down and no handler still works from an
\* older snapshot, neither publish, nor an upload, nor a second takedown brings
\* the project (or a page that shows it) back; only a new pipeline run can.
Sealed ==
    /\ row # NONE
    /\ row.takedown /\ ~row.published
    /\ \A h \in Handlers : pc[h] # "idle" => project[h].takedown /\ ~project[h].published
OutOfSight == Sealed /\ page.kind \notin {"draft", "live"}
TakedownHolds ==
    [][(~ \E h \in Handlers : StartSave(h)) =>
         (Sealed => Sealed') /\ (OutOfSight => OutOfSight')]_vars

\* PublishedIsComplete: a published row has a successful render, artifacts and a
\* before-image, and is not taken down (README: publish "enforces that a
\* project has both a successful render and a before-image").
Complete(p) ==
    p.published => p.outcome = "rendered" /\ p.bundle # NONE /\ HasImage(p) /\ ~p.takedown
PublishedIsComplete == row # NONE => Complete(row)

\* DigestsTrueAtSave: when a run is about to commit its row, every file under
\* its project is the one whose digest the row will carry, although the names
\* are shared with earlier runs, uploads and writes that were cut short.
DigestsTrueAtSave ==
    \A h \in Handlers :
        op[h] = "save" /\ pc[h] \in {"merging", "committing"} /\ project[h].bundle # NONE =>
            \A i \in CopyIndex : disk[CopyOrder[i]] = project[h].bundle

\* PageFollowsRow: when one command runs at a time, the page a command writes
\* shows what the row says at that moment, although it is built from the object
\* the use case returned and the row is not read again.
PageFollowsRow ==
    [][page' # page => row # NONE /\ page'.kind = PageKind(row)
                                  /\ (~row.takedown => page'.shows = AssetsOf(row))]_vars

\* TakedownReachesThePage: a project taken down is eventually no longer shown on
\* its page, unless a new run takes the takedown back first.
TakenDown == row # NONE /\ row.takedown
TakedownReachesThePage == TakenDown ~> (page.kind \notin {"draft", "live"} \/ ~TakenDown)

\* PageSettles: with commands alone, one at a time and none killed, the page left
\* behind when a command ends shows the row as that command left it: what a
\* takedown through the API, an overlap or a crash can break is kept otherwise.
PageSettles ==
    row # NONE /\ (\A h \in Handlers : pc[h] \notin {"building", "writing"}) =>
        /\ page.kind = PageKind(row)
        /\ ~row.takedown => page.shows = AssetsOf(row)

\* The row as the gate sees it: see PublicationGate.
GateOf(r) ==
    CASE r = NONE                                   -> "absent"
      [] r # NONE /\ r.takedown                     -> "withdrawn"
      [] r # NONE /\ ~r.takedown /\ r.published     -> "public"
      [] r # NONE /\ ~r.takedown /\ ~r.published    -> "draft"
FitOf(r) == r # NONE /\ r.outcome = "rendered" /\ HasImage(r)
Gate == INSTANCE PublicationGate WITH gate <- GateOf(row), fit <- FitOf(row)

\* GateButReruns: when one command runs at a time, the row moves only as the
\* publication gate allows, absent to draft, draft to public when fit, anything
\* to withdrawn, and in one way it does not: a new run saved over a project that
\* was taken down.  No publish, upload or second takedown ever breaks the gate.
RerunOverTakedown ==
    /\ GateOf(row) = "withdrawn" /\ GateOf(row)' = "draft"
    /\ \E h \in Handlers : op[h] = "save" /\ pc[h] = "committing"
GateButReruns == Gate!Init /\ [][Gate!Next \/ RerunOverTakedown]_<<GateOf(row), FitOf(row)>>

\* What makes the serial properties inductive: the Project in memory is sound,
\* nothing changed the row since merge() compared it, what was committed is what
\* the handler holds, and each use case changes only what it is for.
Sound(p) == Complete(p) /\ (p.outcome = "rendered" => p.bundle # NONE)
Intent(h) ==
    /\ op[h] = "save"     => ~project[h].published /\ ~project[h].takedown
    /\ op[h] = "publish"  => /\ GateOf(row) \in {"draft", "public"} /\ FitOf(row)
                             /\ GateOf(project[h]) = "public" /\ FitOf(project[h])
    /\ op[h] = "takedown" => /\ row # NONE /\ GateOf(project[h]) = "withdrawn"
                             /\ FitOf(project[h]) = FitOf(row)
    /\ op[h] = "upload"   => /\ row # NONE /\ GateOf(project[h]) = GateOf(row)
                             /\ FitOf(row) => FitOf(project[h])
    /\ op[h] # "none"
SerialControl(h) ==
    /\ Sound(project[h])
    /\ pc[h] \in {"copying", "storing", "merging", "committing"} => Intent(h)
    /\ pc[h] = "committing" =>
         /\ pending[h].insert <=> row = NONE
         /\ row # NONE => pending[h].cols = Changed(project[h], row)
    /\ pc[h] \in {"building", "writing"} => row = project[h]
SerialInv ==
    /\ OneAtATime
    /\ row # NONE => Sound(row)
    /\ \A h \in Handlers : SerialControl(h)

-----------------------------------------------------------------------------
(* What the repository says and the code does not do: see the findings.    *)

\* "A takedown must not be undoable by publishing again without a deliberate,
\* separate reversal - there is none yet." (publish_project.py:28-29)

\* GateSpec: the row moves only as the publication gate allows, so that nothing
\* takes a takedown back even when the use cases run one at a time.
GateSpec == Gate!Spec

\* TakedownSurvivesPublish: the commit of a publish that read the row before the
\* takedown leaves it in place.
TakedownSurvivesPublish ==
    [][\A h \in Handlers :
         (op[h] = "publish" /\ pc[h] = "committing" /\ TakenDown) => row'.takedown]_vars
=============================================================================
