-------------------------------- MODULE Kyc --------------------------------
(***************************************************************************)
(* The identity documents of one buyer (AuthService.uploadKyc, KycService, *)
(* KycDocumentRetentionProcessor): batches of one or two faces, each face  *)
(* an object of the storage and a row of the database, the review of the   *)
(* latest batch, and the purge of a rejected one fifteen days later.       *)
(*                                                                         *)
(* Every handler reads, awaits, then writes unconditionally; a request or  *)
(* the worker may die between two steps.  A "Fault" is a plausible bug of  *)
(* the operation that follows it, as in UnitLedger.                        *)
(***************************************************************************)
EXTENDS Naturals, FiniteSets

CONSTANTS
    Batches,    \* the batches ever submitted (kycBatchId)
    Reviewers   \* administrators' requests in flight at once

ASSUME KycAssumption == IsFiniteSet(Batches)

VARIABLES
    kyc,        \* User.kycStatus
    rows,       \* per batch, the faces that have a Document row
    objects,    \* per batch, the faces whose object is in the storage
    createdAt,  \* per batch, the order of insertion of its rows (0: never)
    rejected,   \* the batches whose rows carry rejectedAt
    upload,     \* per batch, the progress of its submission
    review,     \* per reviewer, the request in flight
    job,        \* per batch and face, the purge job (jobId = documentId)
    stalled,    \* the jobs whose worker died once already
    purge,      \* the job the worker is running, and the faces left to it
    abandoned,  \* history: submissions cut before their rows were inserted
    overtaken,  \* history: reviewers whose request read before a rejection of
                \*          its batch, or checked before a later submission
    unqueued    \* history: rejected batches whose request was cut before it
                \*          queued a purge, which no other did

kycTables == <<kyc, rows, createdAt, rejected>>
jobs      == <<job, stalled, purge>>
reviewHistory == <<overtaken, unqueued>>
kycHistory    == <<abandoned, reviewHistory>>
kycVars   == <<kycTables, objects, upload, review, jobs, kycHistory>>

KycStatuses == {"NON_SOUMIS", "EN_ATTENTE", "VALIDE", "REJETE"}

Faces == {"RECTO", "VERSO"}

NoReview == [op |-> "idle"]

NoPurge == [faces |-> {}]

\* The faces to store, and those known to be stored.
UploadRecords ==
    [step : {"none", "storing", "cleaning", "stored", "listed", "done"},
     faces : SUBSET Faces, kept : SUBSET Faces]

ReviewRecords ==
    [op : {"approve", "reject"}, step : {"read", "checked"}, batch : Batches, face : Faces]
        \cup [op : {"reject"}, step : {"written"}, batch : Batches, face : Faces]

PurgeRecords ==
    [batch : Batches, face : Faces, faces : SUBSET Faces, gone : SUBSET Faces]

JobStates == {"none", "delayed", "active", "done", "failed"}

KycTypeOK ==
    /\ kyc \in KycStatuses
    /\ rows \in [Batches -> SUBSET Faces]
    /\ objects \in [Batches -> SUBSET Faces]
    /\ createdAt \in [Batches -> Nat]
    /\ rejected \subseteq Batches
    /\ upload \in [Batches -> UploadRecords]
    /\ review \in [Reviewers -> ReviewRecords \cup {NoReview}]
    /\ job \in [Batches -> [Faces -> JobStates]]
    /\ stalled \subseteq Batches \X Faces
    /\ purge \in PurgeRecords \cup {NoPurge}
    /\ abandoned \subseteq Batches
    /\ overtaken \subseteq Reviewers
    /\ unqueued \subseteq Batches

KycInit ==
    /\ kyc = "NON_SOUMIS"
    /\ rows = [b \in Batches |-> {}]
    /\ objects = [b \in Batches |-> {}]
    /\ createdAt = [b \in Batches |-> 0]
    /\ rejected = {}
    /\ upload = [b \in Batches |-> [step |-> "none", faces |-> {}, kept |-> {}]]
    /\ review = [h \in Reviewers |-> NoReview]
    /\ job = [b \in Batches |-> [f \in Faces |-> "none"]]
    /\ stalled = {}
    /\ purge = NoPurge
    /\ abandoned = {} /\ overtaken = {} /\ unqueued = {}

-----------------------------------------------------------------------------
(* uploadKyc.                                                              *)

\* A recto is required, a verso too for the documents that have one.
StartUpload(b, faces) ==
    /\ upload[b].step = "none"
    /\ "RECTO" \in faces
    /\ upload' = [upload EXCEPT ![b] = [step |-> "storing", faces |-> faces, kept |-> {}]]
    /\ UNCHANGED <<kycTables, objects, review, jobs, kycHistory>>

\* putObject of the next face, recto first.
NextFace(b) == IF upload[b].kept = {} THEN "RECTO" ELSE "VERSO"

PutFace(b) ==
    LET kept == upload[b].kept \cup {NextFace(b)}
    IN  /\ upload[b].step = "storing"
        /\ objects' = [objects EXCEPT ![b] = @ \cup {NextFace(b)}]
        /\ upload' = [upload EXCEPT
               ![b].kept = kept,
               ![b].step = IF kept = upload[b].faces THEN "stored" ELSE "storing"]
        /\ UNCHANGED <<kycTables, review, jobs, kycHistory>>

\* putObject throws, whether or not the storage kept the face.
PutFails(b) ==
    /\ upload[b].step = "storing"
    /\ upload' = [upload EXCEPT ![b].step = "cleaning"]
    /\ \/ UNCHANGED <<objects, abandoned>>
       \/ /\ objects' = [objects EXCEPT ![b] = @ \cup {NextFace(b)}]
          /\ abandoned' = abandoned \cup {b}
    /\ UNCHANGED <<kycTables, review, jobs, reviewHistory>>

FaultForgetToClean(b) ==
    /\ upload[b].step = "cleaning"
    /\ upload' = [upload EXCEPT ![b].step = "done"]
    /\ UNCHANGED <<kycTables, objects, review, jobs, kycHistory>>

\* The faces already stored are deleted, errors ignored.
CleanFaces(b) ==
    /\ upload[b].step = "cleaning"
    /\ \/ objects' = [objects EXCEPT ![b] = @ \ upload[b].kept] /\ UNCHANGED abandoned
       \/ abandoned' = abandoned \cup {b} /\ UNCHANGED objects
    /\ upload' = [upload EXCEPT ![b].step = "done"]
    /\ UNCHANGED <<kycTables, review, jobs, reviewHistory>>

\* document.createMany: all the faces at once, later than any batch before.
InsertRows(b) ==
    /\ upload[b].step = "stored"
    /\ rows' = [rows EXCEPT ![b] = upload[b].kept]
    /\ createdAt' = [createdAt EXCEPT
           ![b] = 1 + Cardinality({c \in Batches : createdAt[c] # 0})]
    /\ upload' = [upload EXCEPT ![b].step = "listed"]
    /\ overtaken' = overtaken \cup {h \in Reviewers : review[h] # NoReview /\ review[h].step = "checked"}
    /\ UNCHANGED <<kyc, rejected, objects, review, jobs, abandoned, unqueued>>

\* user.update: under review, whatever the status was; a batch under review
\* raises no 409, against the comment of uploadKyc in lib/api.ts (832-834).
MarkSubmitted(b) ==
    /\ upload[b].step = "listed"
    /\ kyc' = "EN_ATTENTE"
    /\ upload' = [upload EXCEPT ![b].step = "done"]
    /\ UNCHANGED <<rows, createdAt, rejected, objects, review, jobs, kycHistory>>

\* The request dies, or the database refuses: nothing is undone.
UploadAborts(b) ==
    /\ upload[b].step \notin {"none", "done"}
    /\ upload' = [upload EXCEPT ![b].step = "done"]
    /\ abandoned' = IF upload[b].step = "listed" THEN abandoned ELSE abandoned \cup {b}
    /\ UNCHANGED <<kycTables, objects, review, jobs, reviewHistory>>

-----------------------------------------------------------------------------
(* approve and reject.                                                     *)

\* ensureIsLatestKycBatch, over the rows still in the database.
IsLatest(b) ==
    /\ rows[b] # {}
    /\ \A c \in Batches : rows[c] # {} => createdAt[c] <= createdAt[b]

\* getKycDocumentOrThrow and the check of rejectedAt, for any face.
ReviewRead(h, op, b, f) ==
    /\ review[h] = NoReview
    /\ f \in rows[b] /\ b \notin rejected
    /\ review' = [review EXCEPT ![h] =
           [op |-> op, step |-> "read", batch |-> b, face |-> f]]
    /\ UNCHANGED <<kycTables, objects, upload, jobs, kycHistory>>

\* The request is over, and its history with it.
EndReview(h) ==
    /\ review' = [review EXCEPT ![h] = NoReview]
    /\ overtaken' = overtaken \ {h}

FaultReviewUnchecked(h) ==
    /\ review[h] # NoReview /\ review[h].step = "read"
    /\ review' = [review EXCEPT ![h].step = "checked"]
    /\ UNCHANGED <<kycTables, objects, upload, jobs, kycHistory>>

\* A later batch ends the request with a 409.
ReviewCheck(h) ==
    /\ review[h] # NoReview /\ review[h].step = "read"
    /\ IF IsLatest(review[h].batch)
       THEN review' = [review EXCEPT ![h].step = "checked"] /\ UNCHANGED overtaken
       ELSE EndReview(h)
    /\ UNCHANGED <<kycTables, objects, upload, jobs, abandoned, unqueued>>

\* user.update without a condition.
Approve(h) ==
    /\ review[h] # NoReview /\ review[h].op = "approve" /\ review[h].step = "checked"
    /\ kyc' = "VALIDE"
    /\ EndReview(h)
    /\ UNCHANGED <<rows, createdAt, rejected, objects, upload, jobs, abandoned, unqueued>>

\* The other requests that have read this batch have read it unrejected.
OvertakeReviews(h) ==
    overtaken' = overtaken \cup
        {g \in Reviewers \ {h} : review[g] # NoReview /\ review[g].batch = review[h].batch}

\* The faces of the batch and the user in one transaction.
Reject(h) ==
    /\ review[h] # NoReview /\ review[h].op = "reject" /\ review[h].step = "checked"
    /\ rejected' = rejected \cup {review[h].batch}
    /\ kyc' = "REJETE"
    /\ review' = [review EXCEPT ![h].step = "written"]
    /\ OvertakeReviews(h)
    /\ UNCHANGED <<rows, createdAt, objects, upload, jobs, abandoned, unqueued>>

\* retentionQueue.add with jobId = documentId: a second one is ignored.
EnqueuePurge(h) ==
    LET b == review[h].batch
        f == review[h].face
    IN  /\ review[h] # NoReview /\ review[h].step = "written"
        /\ job' = [job EXCEPT ![b][f] = IF @ = "none" THEN "delayed" ELSE @]
        /\ EndReview(h)
        /\ unqueued' = unqueued \ {b}
        /\ UNCHANGED <<kycTables, objects, upload, stalled, purge, abandoned>>

\* A purge of this batch was queued, whatever became of it.
Queued(b) == \E f \in Faces : job[b][f] # "none"

ReviewAborts(h) ==
    /\ review[h] # NoReview
    /\ EndReview(h)
    /\ unqueued' = IF review[h].step = "written" /\ ~Queued(review[h].batch)
                   THEN unqueued \cup {review[h].batch} ELSE unqueued
    /\ UNCHANGED <<kycTables, objects, upload, jobs, abandoned>>

-----------------------------------------------------------------------------
(* purgeRejectedDocument, run by a worker that takes one job at a time.    *)

\* The job's document is read again: gone or not rejected, the job ends;
\* else every face of the batch is to be purged.
PurgeStart(b, f) ==
    /\ purge = NoPurge
    /\ job[b][f] = "delayed"
    /\ IF f \in rows[b] /\ b \in rejected
       THEN /\ purge' = [batch |-> b, face |-> f, faces |-> rows[b], gone |-> {}]
            /\ job' = [job EXCEPT ![b][f] = "active"]
       ELSE /\ job' = [job EXCEPT ![b][f] = "done"]
            /\ UNCHANGED purge
    /\ UNCHANGED <<kycTables, objects, upload, review, stalled, kycHistory>>

\* Then, face by face, deleteObject (idempotent) and the row.
PurgeObject(f) ==
    /\ purge # NoPurge /\ f \in purge.faces /\ purge.gone = {}
    /\ objects' = [objects EXCEPT ![purge.batch] = @ \ {f}]
    /\ purge' = [purge EXCEPT !.gone = {f}]
    /\ UNCHANGED <<kycTables, upload, review, job, stalled, kycHistory>>

FaultPurgeOneFace ==
    /\ purge # NoPurge /\ purge.gone # {}
    /\ rows' = [rows EXCEPT ![purge.batch] = @ \ purge.gone]
    /\ purge' = NoPurge
    /\ job' = [job EXCEPT ![purge.batch][purge.face] = "done"]
    /\ UNCHANGED <<kyc, createdAt, rejected, objects, upload, review, stalled, kycHistory>>

PurgeRow ==
    LET left == purge.faces \ purge.gone
    IN  /\ purge # NoPurge /\ purge.gone # {}
        /\ rows' = [rows EXCEPT ![purge.batch] = @ \ purge.gone]
        /\ purge' = IF left = {} THEN NoPurge
                    ELSE [purge EXCEPT !.faces = left, !.gone = {}]
        /\ job' = IF left = {} THEN [job EXCEPT ![purge.batch][purge.face] = "done"]
                  ELSE job
        /\ UNCHANGED <<kyc, createdAt, rejected, objects, upload, review, stalled, kycHistory>>

\* deleteObject, or the database, throws: no attempts, the job has failed.
PurgeFails ==
    /\ purge # NoPurge
    /\ job' = [job EXCEPT ![purge.batch][purge.face] = "failed"]
    /\ purge' = NoPurge
    /\ UNCHANGED <<kycTables, objects, upload, review, stalled, kycHistory>>

\* The worker dies: BullMQ runs a stalled job once more.
PurgeDies ==
    LET b == purge.batch
        f == purge.face
    IN  /\ purge # NoPurge
        /\ job' = [job EXCEPT ![b][f] = IF <<b, f>> \in stalled THEN "failed" ELSE "delayed"]
        /\ stalled' = stalled \cup {<<b, f>>}
        /\ purge' = NoPurge
        /\ UNCHANGED <<kycTables, objects, upload, review, kycHistory>>

-----------------------------------------------------------------------------

Upload(b) ==
    \/ PutFace(b)
    \/ PutFails(b)
    \/ CleanFaces(b)
    \/ InsertRows(b)
    \/ MarkSubmitted(b)

Review(h) ==
    \/ ReviewCheck(h)
    \/ Approve(h)
    \/ Reject(h)
    \/ EnqueuePurge(h)

Purge ==
    \/ \E b \in Batches, f \in Faces : PurgeStart(b, f)
    \/ \E f \in Faces : PurgeObject(f)
    \/ PurgeRow

KycNext ==
    \/ \E b \in Batches :
          \/ \E faces \in SUBSET Faces : StartUpload(b, faces)
          \/ Upload(b)
          \/ UploadAborts(b)
    \/ \E h \in Reviewers :
          \/ \E op \in {"approve", "reject"}, b \in Batches, f \in Faces :
                ReviewRead(h, op, b, f)
          \/ Review(h)
          \/ ReviewAborts(h)
    \/ Purge
    \/ PurgeFails
    \/ PurgeDies

KycSpec == KycInit /\ [][KycNext]_kycVars

-----------------------------------------------------------------------------

\* A document that the administration can open has its file: the faces are
\* stored before their rows are inserted, and only the purge of a rejected
\* batch takes the file before the row (uploadKyc, purgeRejectedDocument).
ListedFaceIsStored ==
    \A b \in Batches : rows[b] \ objects[b] # {} => b \in rejected

\* No identity document stays in the storage without a row to find it by,
\* except while it is being submitted, or when the submission died or its
\* cleaning failed: neither a refused upload nor a purge leaves one behind.
StoredFaceIsListed ==
    \A b \in Batches :
        objects[b] \ rows[b] # {} =>
            b \in abandoned \/ upload[b].step \in {"storing", "cleaning", "stored"}

\* Both ways: the rows and the storage keep together.
FacesMatchObjects == ListedFaceIsStored /\ StoredFaceIsListed

\* An account is validated on its last submission, there and unrejected, or
\* that submission is about to put the status back to EN_ATTENTE.
Backed ==
    kyc = "VALIDE" =>
        \E b \in Batches :
            /\ \A c \in Batches : createdAt[c] <= createdAt[b]
            /\ upload[b].step = "listed" \/ (rows[b] # {} /\ b \notin rejected)

Later(b) == {c \in Batches : createdAt[c] > createdAt[b]}

\* There were later submissions, and all of them have been purged.
Revived(b) == Later(b) # {} /\ \A c \in Later(b) : rows[c] = {}

\* A validated account loses its backing in three ways only: by an approval
\* that a rejection of its batch or a later submission overtook (approve
\* checks, then updates the user unconditionally); by the approval of a batch
\* that is the latest again because the later ones were purged
\* (ensureIsLatestKycBatch looks at the rows there are, against "seul le lot
\* le plus récent d'un user est actionnable"); by the death of a submission
\* between its rows and the status (uploadKyc).  Rejections and purges, in
\* any order, never do that.
UnbackedInNamedWaysOnly ==
    [][Backed /\ ~Backed' =>
          \/ \E h \in Reviewers :
                Approve(h) /\ (h \in overtaken \/ Revived(review[h].batch))
          \/ \E b \in Batches : UploadAborts(b) /\ upload[b].step = "listed"]_kycVars

\* A rejected batch that still has rows has a purge to come, queued or about
\* to be, unless the request that rejected it died before retentionQueue.add,
\* or the purge failed or was cut by the death of its worker.
RejectedHasPurge ==
    \A b \in rejected :
        \/ rows[b] = {}
        \/ \E f \in Faces : job[b][f] \in {"delayed", "active", "failed"} \/ <<b, f>> \in stalled
        \/ \E h \in Reviewers :
              review[h] # NoReview /\ review[h].step = "written" /\ review[h].batch = b
        \/ b \in unqueued

\* A purge that has run to its end has erased the whole batch, rows and
\* objects, unless deleteObject failed or the worker died on one of its jobs:
\* the jobs of the two faces, of a rejection sent twice or of another batch do
\* not get in its way (purgeRejectedDocument).
FinishedPurgeErased ==
    \A b \in Batches, f \in Faces :
        job[b][f] = "done" =>
            \/ rows[b] = {} /\ objects[b] = {}
            \/ \E g \in Faces : job[b][g] = "failed" \/ <<b, g>> \in stalled

\* The whole way from the rejection of a document to its erasure.
RejectedIsErased == RejectedHasPurge /\ FinishedPurgeErased

=============================================================================
