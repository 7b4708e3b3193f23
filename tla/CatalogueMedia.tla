--------------------------- MODULE CatalogueMedia ---------------------------
(***************************************************************************)
(* The pictures of the catalogue: the rows of "unit_media" and the files   *)
(* of the public bucket, which no transaction ties together                *)
(* (ProjectService, StorageService, the media panel of the page).          *)
(*                                                                         *)
(* A request uploads at most one file and inserts at most one row; both    *)
(* are named after it (a file has a random key, which nobody else takes).  *)
(* Type, alternative text and order of a picture are left out.             *)
(***************************************************************************)
EXTENDS Catalogue, FiniteSets

CONSTANTS
    Requests    \* bound: requests of the page; also their files and rows

\* None is also the address of a file kept elsewhere.
ASSUME MediaAssumption == None \notin Requests

VARIABLES
    units,      \* the units that have not been deleted
    media,      \* rows of "unit_media": their unit and the file they show
    views,      \* files shown by the saved views of the project
    bucket,     \* files of the public bucket
    request,       \* the requests
    saving,     \* page: savingMedia, which disables "Ajouter le média"
    given,      \* history: files whose address was typed in by hand, or whose
                \*          row was committed by an insertion that failed
    excused     \* history: files left behind with a warning in the log, or by
                \*          a deleted unit, a new address, a dead request, a
                \*          view that was not saved

mediaVars == <<units, media, views, bucket, request, saving, given, excused>>

NoMedia == [unit |-> None, file |-> None]

NoRequest == [op |-> "idle", step |-> "idle", unit |-> None, of |-> None, file |-> None]

MediaOps == {"add", "update", "remove", "replace", "upload", "image"}

MediaInit ==
    /\ units = Units
    /\ media = [m \in Requests |-> NoMedia]
    /\ views = {} /\ bucket = {}
    /\ request = [q \in Requests |-> NoRequest]
    /\ saving = FALSE
    /\ given = {} /\ excused = {}

MediaRows == {m \in Requests : media[m].unit # None}

-----------------------------------------------------------------------------
(* The panel of the page.                                                  *)

StartRequest(q, op, u, of, file) ==
    /\ request[q] = NoRequest
    /\ request' = [request EXCEPT ![q] =
          [op |-> op, step |-> "sent", unit |-> u, of |-> of, file |-> file]]
    /\ saving' = (saving \/ op \in {"add", "upload", "replace"})
    /\ UNCHANGED <<units, media, views, bucket, given, excused>>

\* "Ajouter le média": an address typed in, of the bucket or of elsewhere.
AskAdd(q, u, file) == ~saving /\ StartRequest(q, "add", u, None, file)

AskUpload(q, u) == StartRequest(q, "upload", u, None, q)

AskUpdate(q, m, file) == media[m].unit # None /\ StartRequest(q, "update", None, m, file)

AskRemove(q, m) == media[m].unit # None /\ StartRequest(q, "remove", None, m, None)

\* handleReplaceMedia: removes, then uploads in the same unit.
AskReplace(q, m) == media[m].unit # None /\ StartRequest(q, "replace", media[m].unit, m, q)

\* An image for a view of the project (uploadBlockImage).
AskImage(q) == StartRequest(q, "image", None, None, q)

Ask(q) ==
    \/ \E u \in units : AskUpload(q, u) \/ \E f \in bucket \cup {None} : AskAdd(q, u, f)
    \/ \E m \in Requests :
          \/ \E f \in bucket \cup {None} : AskUpdate(q, m, f)
          \/ AskRemove(q, m) \/ AskReplace(q, m)
    \/ AskImage(q)

-----------------------------------------------------------------------------
(* The API.                                                                *)

At(q, ops, step) == request[q].op \in ops /\ request[q].step = step

Goto(q, step) == request' = [request EXCEPT ![q].step = step] /\ UNCHANGED <<units, saving>>

Ends(q) ==
    /\ request' = [request EXCEPT ![q] = [NoRequest EXCEPT !.op = "done"]]
    /\ saving' = (saving /\ request[q].op \notin {"add", "upload", "replace"})
    /\ UNCHANGED units

\* addMedia: the foreign key wants the unit.
AddMedia(q) ==
    /\ At(q, {"add"}, "sent") /\ request[q].unit \in units
    /\ media' = [media EXCEPT ![q] = [unit |-> request[q].unit, file |-> request[q].file]]
    /\ given' = given \cup {request[q].file}
    /\ Ends(q)
    /\ UNCHANGED <<views, bucket, excused>>

\* updateMedia: the file it showed stays where it is.
UpdateMedia(q) ==
    LET m == request[q].of IN
    /\ At(q, {"update"}, "sent") /\ media[m].unit # None
    /\ media' = [media EXCEPT ![m].file = request[q].file]
    /\ given' = given \cup {request[q].file}
    /\ excused' = excused \cup {media[m].file, request[q].file}
    /\ Ends(q)
    /\ UNCHANGED <<views, bucket>>

\* removeMedia: reads the row, ...
FindMedia(q) ==
    /\ At(q, {"remove", "replace"}, "sent") /\ media[request[q].of].unit # None
    /\ request' = [request EXCEPT ![q].step = "found", ![q].file = media[request[q].of].file]
    /\ UNCHANGED <<units, media, views, bucket, saving, given, excused>>

\* Fault: the file is deleted before the row.
FaultFileFirst(q) ==
    /\ At(q, {"remove", "replace"}, "found") /\ media[request[q].of].unit # None
    /\ bucket' = bucket \ {request[q].file}
    /\ Goto(q, "gone")
    /\ UNCHANGED <<media, views, given, excused>>

\* ... deletes it (Prisma refuses if it is gone by now), ...
DropRow(q) ==
    /\ At(q, {"remove", "replace"}, "found") /\ media[request[q].of].unit # None
    /\ media' = [media EXCEPT ![request[q].of] = NoMedia]
    /\ Goto(q, "gone")
    /\ UNCHANGED <<views, bucket, given, excused>>

\* ... then the file it had read, if it is one of the bucket; a failure is
\* only logged.  A replacement goes on with its upload.
DropFile(q) ==
    /\ At(q, {"remove", "replace"}, "gone")
    /\ \/ bucket' = bucket \ {request[q].file} /\ UNCHANGED excused
       \/ excused' = excused \cup {request[q].file} /\ UNCHANGED bucket
    /\ IF request[q].op = "replace"
       THEN /\ request' = [request EXCEPT ![q].op = "upload", ![q].step = "sent", ![q].file = q]
            /\ UNCHANGED <<units, saving>>
       ELSE Ends(q)
    /\ UNCHANGED <<media, views, given>>

\* uploadMedia, uploadBlockImage: the file first, ...
PutFile(q) ==
    /\ At(q, {"upload", "image"}, "sent")
    /\ bucket' = bucket \cup {q}
    /\ Goto(q, "put")
    /\ UNCHANGED <<media, views, given, excused>>

\* ... then the row, ...
InsertMedia(q) ==
    /\ At(q, {"upload"}, "put") /\ request[q].unit \in units
    /\ media' = [media EXCEPT ![q] = [unit |-> request[q].unit, file |-> q]]
    /\ Ends(q)
    /\ UNCHANGED <<views, bucket, given, excused>>

\* ... which may be refused (the unit is deleted, the database does not
\* answer), or be there although the insertion has failed.
InsertFails(q) ==
    /\ At(q, {"upload"}, "put")
    /\ \/ UNCHANGED <<media, given>>
       \/ /\ request[q].unit \in units
          /\ media' = [media EXCEPT ![q] = [unit |-> request[q].unit, file |-> q]]
          /\ given' = given \cup {q}
    /\ Goto(q, "refused")
    /\ UNCHANGED <<views, bucket, excused>>

\* The compensation; its own failure is only logged.
CleanUp(q) ==
    /\ At(q, {"upload"}, "refused")
    /\ \/ bucket' = bucket \ {q} /\ UNCHANGED excused
       \/ excused' = excused \cup {q} /\ UNCHANGED bucket
    /\ Ends(q)
    /\ UNCHANGED <<media, views, given>>

\* The page saves the view with its new image, or never does.
SaveView(q) ==
    /\ At(q, {"image"}, "put")
    /\ \/ views' = views \cup {q} /\ UNCHANGED excused
       \/ excused' = excused \cup {q} /\ UNCHANGED views
    /\ Ends(q)
    /\ UNCHANGED <<media, bucket, given>>

\* deleteUnit: ON DELETE CASCADE takes the rows, nobody takes the files.
DropUnit(u) ==
    LET lost == {m \in MediaRows : media[m].unit = u} IN
    /\ u \in units
    /\ units' = units \ {u}
    /\ media' = [m \in Requests |-> IF m \in lost THEN NoMedia ELSE media[m]]
    /\ excused' = excused \cup {media[m].file : m \in lost}
    /\ UNCHANGED <<views, bucket, request, saving, given>>

\* An error, a lost answer or a crash: the handlers of both sides stop there.
RequestDies(q) ==
    /\ request[q].op \in MediaOps
    /\ excused' = IF request[q].step \in {"put", "refused", "gone"}
                  THEN excused \cup {request[q].file} ELSE excused
    /\ Ends(q)
    /\ UNCHANGED <<media, views, bucket, given>>

Serve(q) ==
    \/ AddMedia(q) \/ UpdateMedia(q)
    \/ FindMedia(q) \/ DropRow(q) \/ DropFile(q)
    \/ PutFile(q) \/ InsertMedia(q) \/ InsertFails(q) \/ CleanUp(q)
    \/ SaveView(q) \/ RequestDies(q)

MediaNext ==
    \/ \E q \in Requests : Ask(q) \/ Serve(q)
    \/ \E u \in Units : DropUnit(u)

MediaSpec == MediaInit /\ [][MediaNext]_mediaVars

-----------------------------------------------------------------------------
(* What ties the rows to the files.                                        *)

Shown == views \cup {media[m].file : m \in MediaRows}

\* The file of a picture is in the bucket, as long as nobody typed its
\* address in: a file with one row is deleted after that row, and a failed
\* insertion takes back its own file only.
ShownFileIsThere ==
    \A f \in (Shown \ {None}) \ given : f \in bucket

\* A file in flight is one that a request will still show or delete.
InHand(f) == \E q \in Requests :
    request[q].op \in {"remove", "replace", "upload", "image"} /\ request[q].file = f

\* "Jamais de blob orphelin silencieux": a file that nothing shows is in the
\* hands of a request, or left behind in one of the ways above; two requests
\* on the same picture leave none.
OrphansAreExcused == bucket \ Shown \subseteq excused \cup {f \in bucket : InHand(f)}

\* Both ways: the rows and the bucket keep together.
FilesMatchRows == ShownFileIsThere /\ OrphansAreExcused

=============================================================================
