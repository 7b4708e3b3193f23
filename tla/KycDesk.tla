------------------------------- MODULE KycDesk -------------------------------
(***************************************************************************)
(* The identity page of the back office (app/admin/kyc): the list of the   *)
(* files as it was last read, the two dialogs, and KycService at the other *)
(* end.  Reviews that overlap inside the service are module Kyc; here each *)
(* is served at once.                                                      *)
(*                                                                         *)
(* A dialog covers the page: what is under it is not clicked.              *)
(***************************************************************************)
EXTENDS Pages, Naturals

CONSTANTS
    Clients,        \* users who have submitted a document
    MaxBatches,     \* bound: submissions of a client
    MaxDeskErrors   \* bound: calls that fail

ASSUME KycDeskAssumption ==
    None \notin Clients /\ MaxBatches \in Nat \ {0} /\ MaxDeskErrors \in Nat

VARIABLES
    file,       \* the client's kycStatus, latest batch, and its rejectedAt
    entries,    \* page: entries
    fileLoad,   \* page: load() under way (loading), and what it has read
    fileError,  \* page: error
    viewing,    \* page: viewingId
    approving,  \* page: approvingId
    confirm,    \* page: confirmingApproveId, with the entry it was opened on
    reject,     \* page: rejectingUserId, with the entry it was opened on
    rejecting,  \* page: rejecting
    decision,   \* the approval or rejection under way
    approved,   \* history: clients approved by this visit
    anyRejected,\* history: this visit has rejected
    deskErrors  \* bound: calls that failed

kycDeskVars == <<file, entries, fileLoad, fileError, viewing, approving, confirm, reject,
                 rejecting, decision, approved, anyRejected, deskErrors>>

fileState == <<entries, fileLoad, fileError>>
dialogs == <<confirm, reject>>
decided == <<approved, anyRejected>>

NoEntries == [c \in {} |-> None]

NoFileLoad == [step |-> "none", seen |-> NoEntries]

AskFiles == [step |-> "asked", seen |-> NoEntries]

NoFile == [of |-> None, batch |-> 0]

NoDecision == [op |-> "none", of |-> None, batch |-> 0, step |-> "none"]

KycDeskInit ==
    /\ file = [c \in Clients |-> [status |-> "EN_ATTENTE", batch |-> 1, rejected |-> FALSE]]
    /\ entries = NoEntries /\ fileLoad = AskFiles /\ fileError = FALSE
    /\ viewing = None /\ approving = None /\ rejecting = FALSE
    /\ confirm = NoFile /\ reject = NoFile
    /\ decision = NoDecision
    /\ approved = {} /\ anyRejected = FALSE /\ deskErrors = 0

DeskErr == deskErrors < MaxDeskErrors /\ deskErrors' = deskErrors + 1

-----------------------------------------------------------------------------
(* The list.                                                               *)

\* listAdminKyc.
ReadFiles ==
    /\ fileLoad.step = "asked"
    /\ fileLoad' = [step |-> "read", seen |-> file]
    /\ UNCHANGED <<file, entries, fileError, viewing, approving, dialogs, rejecting, decision,
                   decided, deskErrors>>

\* An action that awaits the reload is over with it; neither of its flags is
\* put back.
EndDecision == decision' = IF decision.step = "reload" THEN NoDecision ELSE decision

ShowFiles ==
    /\ fileLoad.step = "read"
    /\ entries' = fileLoad.seen /\ fileLoad' = NoFileLoad
    /\ EndDecision
    /\ UNCHANGED <<file, fileError, viewing, approving, dialogs, rejecting, decided, deskErrors>>

\* load catches its own failures.
FilesFail ==
    /\ fileLoad.step # "none" /\ DeskErr
    /\ fileError' = TRUE /\ fileLoad' = NoFileLoad
    /\ EndDecision
    /\ UNCHANGED <<file, entries, viewing, approving, dialogs, rejecting, decided>>

\* The table, under no dialog.
TableShown ==
    /\ fileLoad = NoFileLoad /\ ~fileError
    /\ confirm = NoFile /\ reject = NoFile

\* "Réessayer".
ReloadFiles ==
    /\ fileError /\ fileLoad = NoFileLoad
    /\ confirm = NoFile /\ reject = NoFile
    /\ fileLoad' = AskFiles /\ fileError' = FALSE
    /\ UNCHANGED <<file, entries, viewing, approving, dialogs, rejecting, decision, decided, deskErrors>>

\* canReview.
CanReview(c) ==
    TableShown /\ c \in DOMAIN entries /\ entries[c].batch > 0 /\ entries[c].status # "VALIDE"

\* "Voir recto", "Voir verso".
ViewDocument(c) ==
    /\ CanReview(c) /\ viewing = None
    /\ viewing' = c
    /\ UNCHANGED <<file, fileState, approving, dialogs, rejecting, decision, decided, deskErrors>>

\* getDocumentSignedUrl, or its failure.
DocumentViewed ==
    /\ viewing # None
    /\ viewing' = None
    /\ UNCHANGED <<file, fileState, approving, dialogs, rejecting, decision, decided, deskErrors>>

-----------------------------------------------------------------------------
(* "Valider".                                                              *)

AskApproval(c) ==
    /\ CanReview(c) /\ approving = None
    /\ confirm' = [of |-> c, batch |-> entries[c].batch]
    /\ UNCHANGED <<file, fileState, viewing, approving, reject, rejecting, decision, decided, deskErrors>>

CloseApproval ==
    /\ confirm # NoFile /\ approving = None
    /\ confirm' = NoFile
    /\ UNCHANGED <<file, fileState, viewing, approving, reject, rejecting, decision, decided, deskErrors>>

\* handleApprove, for the document that the list now has.
HandleApprove ==
    /\ confirm # NoFile /\ approving = None
    /\ entries[confirm.of].batch > 0
    /\ approving' = confirm.of /\ confirm' = NoFile
    /\ decision' = [op |-> "approve", of |-> confirm.of, batch |-> entries[confirm.of].batch,
                    step |-> "sent"]
    /\ UNCHANGED <<file, fileState, viewing, reject, rejecting, decided, deskErrors>>

Actionable(c, b) == file[c].batch = b /\ ~file[c].rejected

\* approve.
ServeApproval ==
    /\ decision.op = "approve" /\ decision.step = "sent" /\ Actionable(decision.of, decision.batch)
    /\ file' = [file EXCEPT ![decision.of].status = "VALIDE"]
    /\ decision' = [decision EXCEPT !.step = "served"]
    /\ UNCHANGED <<fileState, viewing, approving, dialogs, rejecting, decided, deskErrors>>

\* The answer: the list is loaded again, and approvingId stays.
ApprovalDone ==
    /\ decision.op = "approve" /\ decision.step = "served"
    /\ approved' = approved \cup {decision.of}
    /\ decision' = [decision EXCEPT !.step = "reload"]
    /\ fileLoad' = AskFiles /\ fileError' = FALSE
    /\ UNCHANGED <<file, entries, viewing, approving, dialogs, rejecting, anyRejected, deskErrors>>

\* Refused, or answered with an error: what a decision may fail with.
DecisionFails ==
    \/ decision.step = "sent" /\ ~Actionable(decision.of, decision.batch) /\ UNCHANGED deskErrors
    \/ decision.step \in {"sent", "served"} /\ DeskErr

\* Fault: the catch forgets the flag.
FaultApprovalFails ==
    /\ decision.op = "approve" /\ DecisionFails
    /\ decision' = NoDecision
    /\ UNCHANGED <<file, fileState, viewing, approving, dialogs, rejecting, decided>>

ApprovalFails ==
    /\ decision.op = "approve" /\ DecisionFails
    /\ approving' = None /\ decision' = NoDecision
    /\ UNCHANGED <<file, fileState, viewing, dialogs, rejecting, decided>>

-----------------------------------------------------------------------------
(* "Rejeter".                                                              *)

\* Fault: not disabled while an approval is under way.
FaultAskRejection(c) ==
    /\ CanReview(c) /\ entries[c].status # "REJETE"
    /\ reject' = [of |-> c, batch |-> entries[c].batch]
    /\ UNCHANGED <<file, fileState, viewing, approving, confirm, rejecting, decision, decided, deskErrors>>

AskRejection(c) ==
    /\ CanReview(c) /\ entries[c].status # "REJETE" /\ approving = None
    /\ reject' = [of |-> c, batch |-> entries[c].batch]
    /\ UNCHANGED <<file, fileState, viewing, approving, confirm, rejecting, decision, decided, deskErrors>>

CloseRejection ==
    /\ reject # NoFile /\ ~rejecting
    /\ reject' = NoFile
    /\ UNCHANGED <<file, fileState, viewing, approving, confirm, rejecting, decision, decided, deskErrors>>

\* handleReject, a reason being typed.
HandleReject ==
    /\ reject # NoFile /\ ~rejecting
    /\ reject.of \in DOMAIN entries /\ entries[reject.of].batch > 0
    /\ rejecting' = TRUE
    /\ decision' = [op |-> "reject", of |-> reject.of, batch |-> entries[reject.of].batch,
                    step |-> "sent"]
    /\ UNCHANGED <<file, fileState, viewing, approving, dialogs, decided, deskErrors>>

\* KycService.reject.
ServeRejection ==
    /\ decision.op = "reject" /\ decision.step = "sent" /\ Actionable(decision.of, decision.batch)
    /\ file' = [file EXCEPT ![decision.of].status = "REJETE", ![decision.of].rejected = TRUE]
    /\ decision' = [decision EXCEPT !.step = "served"]
    /\ UNCHANGED <<fileState, viewing, approving, dialogs, rejecting, decided, deskErrors>>

\* The answer: the dialog closes, the list is loaded again, rejecting stays.
RejectionDone ==
    /\ decision.op = "reject" /\ decision.step = "served"
    /\ reject' = NoFile /\ anyRejected' = TRUE
    /\ decision' = [decision EXCEPT !.step = "reload"]
    /\ fileLoad' = AskFiles /\ fileError' = FALSE
    /\ UNCHANGED <<file, entries, viewing, approving, confirm, rejecting, approved, deskErrors>>

RejectionFails ==
    /\ decision.op = "reject" /\ DecisionFails
    /\ rejecting' = FALSE /\ decision' = NoDecision
    /\ UNCHANGED <<file, fileState, viewing, approving, dialogs, decided>>

-----------------------------------------------------------------------------

\* AuthService.uploadKyc: a new batch, whatever the status was.
SubmitBatch(c) ==
    /\ file[c].batch < MaxBatches
    /\ file' = [file EXCEPT ![c] = [status |-> "EN_ATTENTE", batch |-> @.batch + 1, rejected |-> FALSE]]
    /\ UNCHANGED <<fileState, viewing, approving, dialogs, rejecting, decision, decided, deskErrors>>

\* Another administrator decides on the file.
OtherReview(c) ==
    /\ ~file[c].rejected
    /\ file' \in {[file EXCEPT ![c].status = "VALIDE"],
                  [file EXCEPT ![c].status = "REJETE", ![c].rejected = TRUE]}
    /\ UNCHANGED <<fileState, viewing, approving, dialogs, rejecting, decision, decided, deskErrors>>

KycDeskNext ==
    \/ ReadFiles \/ ShowFiles \/ FilesFail \/ ReloadFiles \/ DocumentViewed
    \/ \E c \in Clients :
          ViewDocument(c) \/ AskApproval(c) \/ AskRejection(c) \/ SubmitBatch(c) \/ OtherReview(c)
    \/ CloseApproval \/ HandleApprove \/ ServeApproval \/ ApprovalDone \/ ApprovalFails
    \/ CloseRejection \/ HandleReject \/ ServeRejection \/ RejectionDone \/ RejectionFails

KycDeskSpec == KycDeskInit /\ [][KycDeskNext]_kycDeskVars

-----------------------------------------------------------------------------
(* What an administrator may rely on.                                      *)

\* A decision is sent for the document that the list showed when its dialog
\* was opened, though the handlers look it up in the list again.
DecidesOnWhatWasListed ==
    [][\A d \in {confirm, reject} :
          d # NoFile /\ decision = NoDecision /\ decision'.of = d.of => decision'.batch = d.batch]_kycDeskVars

\* The buttons of the page come back after every decision but a successful one:
\* after an approval none is offered again, and after a rejection the next
\* dialog can be neither sent nor closed, until the page is reloaded.
StuckAfterSuccessOnly ==
    /\ approving # None => decision.op = "approve" \/ approved # {}
    /\ rejecting => decision.op = "reject" \/ anyRejected

=============================================================================
