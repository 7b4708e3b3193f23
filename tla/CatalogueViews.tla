--------------------------- MODULE CatalogueViews ---------------------------
(***************************************************************************)
(* The views of the residence on the catalogue page: a draft of all of     *)
(* them, a window that edits one on a copy of its own, and three handlers  *)
(* that may be under way at once: a reload, the upload of an image, and    *)
(* the save, which writes the project, then the views of each block as     *)
(* they were loaded.                                                       *)
(*                                                                         *)
(* Texts and buttons of a view are one number, its revision; an image is   *)
(* named by the view whose window asked for its upload.                    *)
(***************************************************************************)
EXTENDS Catalogue, Naturals

CONSTANTS
    Views,      \* views, named by their identifier
    MaxText     \* bound: revisions of a view

ASSUME ViewsAssumption == None \notin Views /\ MaxText \in Nat

VARIABLES
    saved,      \* Project.views in the database
    blocks,     \* Block.views in the database: the revision of another client
    draft,      \* page: data.views
    copied,     \* page: blockViews
    window,     \* page: editingView, a copy, or Closed
    reload,     \* page: loadApiUnits under way, what it has read
    upload,     \* page: handleUploadViewImage, the view it was asked for
    save,       \* page: handleSaveAll, what it was clicked on
    replaced    \* history: a reload has replaced the draft under the window

viewsVars == <<saved, blocks, draft, copied, window, reload, upload, save, replaced>>

NoView == [there |-> FALSE, text |-> 0, image |-> None]

Closed == [view |-> None, copy |-> NoView]

NoReload == [step |-> "idle", seen |-> [v \in Views |-> NoView]]

NoSave == [step |-> "idle", sent |-> [v \in Views |-> NoView], copied |-> 0]

ViewsInit ==
    /\ \E shown \in SUBSET Views :
          saved = [v \in Views |->
                      IF v \in shown THEN [there |-> TRUE, text |-> 0, image |-> v]
                                     ELSE NoView]
    /\ draft = saved
    /\ blocks = 0 /\ copied = 0
    /\ window = Closed
    /\ reload = NoReload
    /\ upload = None
    /\ save = NoSave
    /\ replaced = FALSE

-----------------------------------------------------------------------------
(* The editor.                                                             *)

Database == <<saved, blocks>>

\* Fault: the window keeps its copy.
FaultFieldInDraftOnly(v, field, value) ==
    /\ draft' = [draft EXCEPT ![v] =
                    IF @.there THEN [@ EXCEPT ![field] = value] ELSE @]
    /\ UNCHANGED window

\* A field of view v changes in the draft, and in the window that shows it.
SetField(v, field, value) ==
    /\ draft' = [draft EXCEPT ![v] =
                    IF @.there THEN [@ EXCEPT ![field] = value] ELSE @]
    /\ window' = IF window.view = v THEN [window EXCEPT !.copy[field] = value] ELSE window

\* createBlankView: without an image.
AddView(v) ==
    /\ ~draft[v].there /\ ~saved[v].there /\ window = Closed
    /\ draft' = [draft EXCEPT ![v] = [NoView EXCEPT !.there = TRUE]]
    /\ window' = [view |-> v, copy |-> [NoView EXCEPT !.there = TRUE]]
    /\ replaced' = FALSE
    /\ UNCHANGED <<Database, copied, reload, upload, save>>

OpenView(v) ==
    /\ draft[v].there /\ window = Closed
    /\ window' = [view |-> v, copy |-> draft[v]]
    /\ replaced' = FALSE
    /\ UNCHANGED <<Database, draft, copied, reload, upload, save>>

CloseView ==
    /\ window # Closed
    /\ window' = Closed
    /\ UNCHANGED <<Database, draft, copied, reload, upload, save, replaced>>

EditView ==
    /\ window # Closed /\ window.copy.text < MaxText
    /\ SetField(window.view, "text", window.copy.text + 1)
    /\ UNCHANGED <<Database, copied, reload, upload, save, replaced>>

DeleteView(v) ==
    /\ draft[v].there /\ window = Closed
    /\ draft' = [draft EXCEPT ![v] = NoView]
    /\ UNCHANGED <<Database, copied, window, reload, upload, save, replaced>>

\* One upload at a time (uploadingViewImage), asked for the view of the window.
AskWindowImage ==
    /\ window # Closed /\ upload = None
    /\ upload' = window.view
    /\ UNCHANGED <<Database, draft, copied, window, reload, save, replaced>>

\* The image goes to the view it was asked for, if it is still in the draft.
ImageUploaded ==
    /\ upload # None
    /\ SetField(upload, "image", upload)
    /\ upload' = None
    /\ UNCHANGED <<Database, copied, reload, save, replaced>>

UploadFails ==
    /\ upload # None
    /\ upload' = None
    /\ UNCHANGED <<Database, draft, copied, window, reload, save, replaced>>

-----------------------------------------------------------------------------
(* loadApiUnits: the projects, shown at once; then the views of the blocks. *)

AskReload ==
    /\ reload = NoReload
    /\ window = Closed
    /\ reload' = [NoReload EXCEPT !.step = "asked", !.seen = saved]
    /\ UNCHANGED <<Database, draft, copied, window, upload, save, replaced>>

ShowProjects ==
    /\ reload.step = "asked"
    /\ draft' = reload.seen
    /\ reload' = [reload EXCEPT !.step = "read"]
    /\ replaced' = (window # Closed)
    /\ UNCHANGED <<Database, copied, window, upload, save>>

ShowBlocks ==
    /\ reload.step = "read"
    /\ copied' = blocks
    /\ reload' = NoReload
    /\ UNCHANGED <<Database, draft, window, upload, save, replaced>>

ReloadFails ==
    /\ reload # NoReload
    /\ reload' = NoReload
    /\ UNCHANGED <<Database, draft, copied, window, upload, save, replaced>>

-----------------------------------------------------------------------------
(* handleSaveAll.                                                          *)

MissingImage == {v \in Views : draft[v].there /\ draft[v].image = None}

\* The button of the page or of the window; nothing is sent while a view has
\* no image.
SaveAll ==
    /\ save = NoSave
    /\ MissingImage = {}
    /\ save' = [step |-> "project", sent |-> draft, copied |-> copied]
    /\ UNCHANGED <<Database, draft, copied, window, reload, upload, replaced>>

\* PATCH of the project.
SaveProject ==
    /\ save.step = "project"
    /\ saved' = save.sent
    /\ save' = [save EXCEPT !.step = "blocks"]
    /\ UNCHANGED <<blocks, draft, copied, window, reload, upload, replaced>>

\* PATCH of each block with what the page has of it; then the window closes
\* ("Valider & Enregistrer"), or there is none.
SaveBlocks ==
    /\ save.step = "blocks"
    /\ blocks' = save.copied
    /\ copied' = save.copied
    /\ save' = NoSave
    /\ window' \in {window, Closed}
    /\ UNCHANGED <<saved, draft, reload, upload, replaced>>

\* Either PATCH fails: what has been written stays written.
SaveFails ==
    /\ save # NoSave
    /\ save' = NoSave
    /\ UNCHANGED <<Database, draft, copied, window, reload, upload, replaced>>

\* Another client of the API writes the views of a block.
OtherClient ==
    /\ blocks < MaxText
    /\ blocks' = blocks + 1
    /\ UNCHANGED <<saved, draft, copied, window, reload, upload, save, replaced>>

ViewsEdit ==
    \/ \E v \in Views : AddView(v) \/ OpenView(v) \/ DeleteView(v)
    \/ CloseView \/ EditView \/ AskWindowImage \/ ImageUploaded \/ UploadFails

ViewsNext ==
    \/ ViewsEdit
    \/ AskReload \/ ShowProjects \/ ShowBlocks \/ ReloadFails
    \/ SaveAll \/ SaveProject \/ SaveBlocks \/ SaveFails
    \/ OtherClient

ViewsSpec == ViewsInit /\ [][ViewsNext]_viewsVars

-----------------------------------------------------------------------------
(* What the editor guarantees.                                             *)

\* What the window shows is what a save would write, whatever answers come
\* while it is open; except after the answer of a reload, which replaces the
\* draft and leaves the window.
WindowShowsDraft ==
    window # Closed /\ ~replaced => draft[window.view] = window.copy

=============================================================================
