--------------------------- MODULE BuyerDocuments ---------------------------
(***************************************************************************)
(* The contracts and the identity dossier on the buyer's page (app/suivi): *)
(* the lists as they were last read, the dialog in which a contract is     *)
(* signed by hand, the form that submits the faces of an identity          *)
(* document, and the calls in flight.  One visit of the page.              *)
(*                                                                         *)
(* A drawing is named by the contract it was made under.  The contracts    *)
(* and the review of the dossier are modules Contract and Kyc; here they   *)
(* are what the page reads and asks of them.                               *)
(***************************************************************************)
EXTENDS Pages, Naturals

CONSTANTS
    Contracts,  \* documents of the buyer's reservations
    Sends,      \* bound: signatures sent
    MaxFailures \* bound: calls that fail

ASSUME ContractsAssumption == None \notin Contracts /\ MaxFailures \in Nat

VARIABLES
    contract,       \* Document: the buyer's drawing, its reservation cancelled
    identity,       \* User.kycStatus
    documents,      \* page: documents, None before the first answer
    documentLoads,  \* page: loadDocuments under way, the last and an older one
    documentsBusy,  \* page: documentsLoading
    documentsError, \* page: documentsError
    signing,        \* page: signingDocumentId, whose dialog is open
    ink,            \* page: hasInk, the contract the pad was drawn for
    sends,          \* page: handleConfirmSignature under way
    kyc,            \* page: kyc, None before the first answer
    kycLoad,        \* page: loadKyc under way, and what it has read
    kycError,       \* page: kycError
    filled,         \* page: kycRecto, and kycVerso if kycType requires it
    upload,         \* page: handleKycUpload under way
    failures,       \* bound
    uncertain       \* history: an upload ended with an error

documentVars == <<contract, identity, documents, documentLoads, documentsBusy, documentsError,
                  signing, ink, sends, kyc, kycLoad, kycError, filled, upload,
                  failures, uncertain>>

documentRows == <<contract, identity>>
documentList == <<documents, documentLoads, documentsBusy, documentsError>>
dialog == <<signing, ink>>
kycState == <<kyc, kycLoad, kycError, filled, upload, uncertain>>

Identities == {"NON_SOUMIS", "EN_ATTENTE", "VALIDE", "REJETE"}

\* kycLoad is null, under way or read.
ASSUME NullAssumption == None \notin Identities \cup {"asked"}

Rows == [Contracts -> [drawing : Contracts \cup {None}, obsolete : BOOLEAN]]

NoLoad == [step |-> "none", rows |-> None]

Asked == [NoLoad EXCEPT !.step = "asked"]

NoSend == [of |-> None, drawing |-> None, step |-> "idle"]

DocumentInit ==
    /\ contract = [d \in Contracts |-> [drawing |-> None, obsolete |-> FALSE]]
    /\ identity \in {"NON_SOUMIS", "VALIDE"}
    /\ documents = None
    /\ documentLoads = [last |-> Asked, older |-> NoLoad]
    /\ documentsBusy = TRUE /\ documentsError = FALSE
    /\ signing = None /\ ink = None
    /\ sends = [s \in Sends |-> NoSend]
    /\ kyc = None /\ kycLoad = "asked" /\ kycError = FALSE
    /\ filled = FALSE /\ upload = "none"
    /\ failures = 0 /\ uncertain = FALSE

Fails == failures < MaxFailures /\ failures' = failures + 1

-----------------------------------------------------------------------------
(* loadDocuments.                                                          *)

\* A load begins, whichever is under way; two are kept.
StartLoad ==
    /\ documentLoads' = [last |-> Asked, older |-> documentLoads.last]
    /\ documentsBusy' = TRUE /\ documentsError' = FALSE
    /\ UNCHANGED <<documents>>

\* "Réessayer", under the error.
RetryDocuments ==
    /\ documentsError /\ ~documentsBusy
    /\ StartLoad
    /\ UNCHANGED <<documentRows, dialog, sends, kycState, failures>>

\* listDocuments.
ListDocuments(n) ==
    /\ documentLoads[n] = Asked
    /\ documentLoads' = [documentLoads EXCEPT ![n] = [step |-> "read", rows |-> contract]]
    /\ UNCHANGED <<documentRows, documents, documentsBusy, documentsError, dialog,
                   sends, kycState, failures>>

ShowDocuments(n) ==
    /\ documentLoads[n].step = "read"
    /\ documents' = documentLoads[n].rows
    /\ documentLoads' = [documentLoads EXCEPT ![n] = NoLoad]
    /\ documentsBusy' = FALSE
    /\ UNCHANGED <<documentRows, documentsError, dialog, sends, kycState, failures>>

DocumentsFail(n) ==
    /\ documentLoads[n] # NoLoad /\ Fails
    /\ documentLoads' = [documentLoads EXCEPT ![n] = NoLoad]
    /\ documentsBusy' = FALSE /\ documentsError' = TRUE
    /\ UNCHANGED <<documentRows, documents, dialog, sends, kycState>>

-----------------------------------------------------------------------------
(* The signature.                                                          *)

\* isDocumentObsolete, hasOwnerSignature, and the dossier where it is known.
SignOffered(d) ==
    /\ ~documentsBusy /\ ~documentsError /\ documents # None
    /\ documents[d].drawing = None /\ ~documents[d].obsolete
    /\ kyc \in {None, "VALIDE"}

\* The dialog covers the page: one at a time.
OpenDialog(d) ==
    /\ SignOffered(d) /\ signing = None
    /\ signing' = d
    /\ UNCHANGED <<documentRows, documentList, ink, sends, kycState, failures>>

Draw ==
    /\ signing # None
    /\ ink' = signing
    /\ UNCHANGED <<documentRows, documentList, signing, sends, kycState, failures>>

\* "Effacer".
Clear ==
    /\ ink # None
    /\ ink' = None
    /\ UNCHANGED <<documentRows, documentList, signing, sends, kycState, failures>>

CloseDialog ==
    /\ signing # None
    /\ signing' = None /\ ink' = None
    /\ UNCHANGED <<documentRows, documentList, sends, kycState, failures>>

\* "Valider la signature": the image is made of the canvas, for the contract
\* of the dialog clicked in; nothing stops a second click.
Confirm(s) ==
    /\ IsFirst(s, {x \in Sends : sends[x] = NoSend}) /\ ink # None
    /\ sends' = [sends EXCEPT ![s] = [of |-> signing, drawing |-> ink, step |-> "blob"]]
    /\ UNCHANGED <<documentRows, documentList, dialog, kycState, failures>>

\* Fault: it is sent for the contract whose dialog is open by then.
FaultSendForOpenDialog(s) ==
    /\ sends[s].step = "blob"
    /\ sends' = [sends EXCEPT ![s].step = "sent",
                     ![s].of = IF signing = None THEN @ ELSE signing]
    /\ UNCHANGED <<documentRows, documentList, dialog, kycState, failures>>

\* The image is ready and is sent, even if the dialog was closed meanwhile.
SendSignature(s) ==
    /\ sends[s].step = "blob"
    /\ sends' = [sends EXCEPT ![s].step = "sent"]
    /\ UNCHANGED <<documentRows, documentList, dialog, kycState, failures>>

\* ContractService.signContract, one step here.
ServeSignature(s) ==
    LET d == sends[s].of IN
    /\ sends[s].step = "sent"
    /\ identity = "VALIDE" /\ contract[d] = [drawing |-> None, obsolete |-> FALSE]
    /\ contract' = [contract EXCEPT ![d].drawing = sends[s].drawing]
    /\ sends' = [sends EXCEPT ![s].step = "signed"]
    /\ UNCHANGED <<identity, documentList, dialog, kycState, failures>>

\* The answer closes whichever dialog is open and loads the list again.
Signed(s) ==
    /\ sends[s].step = "signed"
    /\ sends' = [sends EXCEPT ![s].step = "done"]
    /\ signing' = None /\ ink' = None
    /\ StartLoad
    /\ UNCHANGED <<documentRows, kycState, failures>>

\* Refused, or the answer is lost: the error shows in whichever dialog.
SignatureFails(s) ==
    /\ sends[s].step \in {"sent", "signed"}
    /\ sends[s].step = "signed" => Fails
    /\ sends[s].step = "sent" => UNCHANGED failures
    /\ sends' = [sends EXCEPT ![s].step = "done"]
    /\ UNCHANGED <<documentRows, documentList, dialog, kycState>>

-----------------------------------------------------------------------------
(* The identity dossier.                                                   *)

FormShown == kyc # None /\ kycLoad = None /\ ~kycError

FormOpen == FormShown /\ upload = "none" /\ kyc # "EN_ATTENTE"

\* getKyc.
GetKyc ==
    /\ kycLoad = "asked"
    /\ kycLoad' = identity
    /\ UNCHANGED <<documentRows, documentList, dialog, sends, kyc, kycError, filled, upload,
                   uncertain, failures>>

\* The upload that awaited it is over with it.
EndUpload == upload' = IF upload = "reload" THEN "none" ELSE upload

ShowKyc ==
    /\ kycLoad \in Identities
    /\ kyc' = kycLoad /\ kycLoad' = None
    /\ EndUpload
    /\ UNCHANGED <<documentRows, documentList, dialog, sends, kycError, filled, uncertain,
                   failures>>

\* No button retries it.
KycFails ==
    /\ kycLoad # None /\ Fails
    /\ kycLoad' = None /\ kycError' = TRUE
    /\ EndUpload
    /\ UNCHANGED <<documentRows, documentList, dialog, sends, kyc, filled, uncertain>>

\* A face is chosen, or another type, which drops the verso and may not
\* require it: with the form complete or not, in the end.
FillForm ==
    /\ FormOpen
    /\ filled' = ~filled
    /\ UNCHANGED <<documentRows, documentList, dialog, sends, kyc, kycLoad, kycError, upload,
                   uncertain, failures>>

Transmit ==
    /\ FormOpen /\ filled
    /\ upload' = "sent"
    /\ UNCHANGED <<documentRows, documentList, dialog, sends, kyc, kycLoad, kycError, filled,
                   uncertain, failures>>

\* AuthService.uploadKyc: whatever the status was; it raises no 409.
ServeUpload ==
    /\ upload = "sent"
    /\ identity' = "EN_ATTENTE"
    /\ upload' = "served"
    /\ UNCHANGED <<contract, documentList, dialog, sends, kyc, kycLoad, kycError, filled,
                   uncertain, failures>>

\* Fault: the form is emptied and the dossier is not loaded again.
FaultUploadedWithoutReload ==
    /\ upload = "served"
    /\ filled' = FALSE
    /\ upload' = "none"
    /\ UNCHANGED <<documentRows, documentList, dialog, sends, kyc, kycLoad, kycError,
                   uncertain, failures>>

Uploaded ==
    /\ upload = "served"
    /\ filled' = FALSE
    /\ upload' = "reload"
    /\ kycLoad' = "asked" /\ kycError' = FALSE
    /\ UNCHANGED <<documentRows, documentList, dialog, sends, kyc, uncertain, failures>>

UploadFails ==
    /\ upload \in {"sent", "served"} /\ Fails
    /\ upload' = "none" /\ uncertain' = TRUE
    /\ UNCHANGED <<documentRows, documentList, dialog, sends, kyc, kycLoad, kycError, filled>>

-----------------------------------------------------------------------------

\* KycService: the review.
Reviewed ==
    /\ identity = "EN_ATTENTE"
    /\ identity' \in {"VALIDE", "REJETE"}
    /\ UNCHANGED <<contract, documentList, dialog, sends, kycState, failures>>

\* The reservation of a contract is cancelled.
ReservationCancelled(d) ==
    /\ ~contract[d].obsolete
    /\ contract' = [contract EXCEPT ![d].obsolete = TRUE]
    /\ UNCHANGED <<identity, documentList, dialog, sends, kycState, failures>>

SignNext ==
    \/ \E d \in Contracts : OpenDialog(d) \/ ReservationCancelled(d)
    \/ Draw \/ Clear \/ CloseDialog
    \/ \E s \in Sends :
          Confirm(s) \/ SendSignature(s) \/ ServeSignature(s) \/ Signed(s) \/ SignatureFails(s)

IdentityNext ==
    \/ GetKyc \/ ShowKyc \/ KycFails
    \/ FillForm \/ Transmit \/ ServeUpload \/ Uploaded \/ UploadFails \/ Reviewed

DocumentNext ==
    \/ RetryDocuments
    \/ \E n \in {"last", "older"} : ListDocuments(n) \/ ShowDocuments(n) \/ DocumentsFail(n)
    \/ SignNext \/ IdentityNext

DocumentSpec == DocumentInit /\ [][DocumentNext]_documentVars

-----------------------------------------------------------------------------
(* What the buyer may rely on.                                             *)

\* A contract carries the drawing made under it, however dialogs are closed
\* and opened while the image is made and sent.
SignsWhatWasDrawn == \A d \in Contracts : contract[d].drawing \in {d, None}

\* A dossier under review is replaced by another only after an upload whose
\* outcome the page does not know.  The comment of uploadKyc in lib/api.ts
\* (832-834) promises that it never is: "une nouvelle soumission est possible
\* après rejet (le serveur lève 409 tant que le lot précédent est en cours)".
\* AuthService.uploadKyc (auth.service.ts:336-394) has no such check: the
\* page, which hides its form once it has read EN_ATTENTE, is the only
\* barrier, and an upload served whose answer is lost leaves the form open.
ResubmitsAfterErrorOnly ==
    [][ServeUpload /\ identity = "EN_ATTENTE" => uncertain]_documentVars

=============================================================================
