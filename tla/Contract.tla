------------------------------ MODULE Contract ------------------------------
(***************************************************************************)
(* The sale contracts of one reservation (ContractService): generated when *)
(* the deposit is paid, from the buyer's space or by an administrator;     *)
(* regenerated by an administrator; signed by the owner, then by the       *)
(* administration, and countersigned once both have signed.                *)
(*                                                                         *)
(* A row of "documents" is named by the key of its PDF, which is new for   *)
(* every rendering (randomUUID).  The image of a signature is uploaded     *)
(* before its row is inserted and read by nobody else: the upload is part  *)
(* of the step that precedes the insertion.  Refused requests are          *)
(* stuttering steps; a request may be abandoned between two steps.         *)
(* A "Fault" is a plausible bug of the operation that follows it.          *)
(***************************************************************************)
EXTENDS Naturals, FiniteSets

CONSTANTS
    Docs,       \* contracts that may ever be rendered, numbered in that order
    Requests,   \* requests (or payment notifications) in flight at once
    None        \* the contract of a request that works on none yet

ASSUME ContractAssumption ==
    /\ Docs \subseteq Nat
    /\ None \notin Docs
    /\ IsFiniteSet(Docs) /\ IsFiniteSet(Requests)

VARIABLES
    cancelled,      \* the reservation is ANNULEE
    verified,       \* its buyer's kycStatus is VALIDE
    contracts,      \* rows of "documents" of this reservation
    createdAt,      \* Document.createdAt
    file,           \* the object of each PDF in the storage
    signatures,     \* rows of "contract_signatures": <<document, signerType>>
    countersigned,  \* documents whose signedFileUrl is set
    request,        \* progress of each request
    unsealed        \* history: contracts signed by both whose last signing
                    \* request died before the countersigned copy

gateVars == <<cancelled, verified>>

sideVars == <<gateVars, unsealed>>

rowVars == <<contracts, createdAt, file, signatures, countersigned>>

vars == <<sideVars, rowVars, request>>

Owner == "PROPRIETAIRE"

SignerTypes == {Owner, "ADMIN"}

Idle == [step |-> "idle", doc |-> None, signer |-> "none"]

RequestRecords ==
    [step : {"find", "render"}, doc : {None}, signer : {"none"}]
        \cup [step : {"insert", "delete", "purge"}, doc : Docs, signer : {"none"}]
        \cup [step : {"identity", "sign", "reread", "seal"}, doc : Docs, signer : SignerTypes]

ContractTypeOK ==
    /\ cancelled \in BOOLEAN
    /\ verified \in BOOLEAN
    /\ contracts \subseteq Docs
    /\ createdAt \in [Docs -> Nat]
    /\ file \in [Docs -> {"none", "stored", "deleted"}]
    /\ signatures \subseteq Docs \X SignerTypes
    /\ countersigned \subseteq Docs
    /\ unsealed \subseteq Docs
    /\ request \in [Requests -> RequestRecords \cup {Idle}]

Init ==
    /\ cancelled = FALSE
    /\ verified \in BOOLEAN
    /\ contracts = {}
    /\ createdAt = [d \in Docs |-> 0]
    /\ file = [d \in Docs |-> "none"]
    /\ signatures = {}
    /\ countersigned = {}
    /\ request = [q \in Requests |-> Idle]
    /\ unsealed = {}

\* A key not used yet (randomUUID).
NewKey(d) == file[d] = "none" /\ \A e \in Docs : file[e] = "none" => d <= e

At(q, step) == request[q].step = step

Goto(q, step) == request' = [request EXCEPT ![q].step = step]

Finish(q) == request' = [request EXCEPT ![q] = Idle]

\* findFirst ... orderBy createdAt desc.
IsLatest(d) == d \in contracts /\ \A e \in contracts : createdAt[d] >= createdAt[e]

SignedBy(d, signer) == <<d, signer>> \in signatures

FullySigned(d) == \A signer \in SignerTypes : SignedBy(d, signer)

\* A signature has just been inserted, and its request is not over.
Sealing(q, d) == request[q].doc = d /\ request[q].step \in {"reread", "seal"}

-----------------------------------------------------------------------------
(* The reservation and the identity check, seen from here.                 *)

\* cancelReservation, the expiration job, adminSetStatus both ways.
ReservationChanges ==
    /\ cancelled' = ~cancelled
    /\ UNCHANGED <<verified, rowVars, request, unsealed>>

\* approve, reject, uploadKyc.
KycChanges ==
    /\ verified' = ~verified
    /\ UNCHANGED <<cancelled, rowVars, request, unsealed>>

-----------------------------------------------------------------------------
(* generateBuyerContract.                                                  *)

StartGenerate(q) ==
    /\ request[q] = Idle
    /\ request' = [request EXCEPT ![q] = [Idle EXCEPT !.step = "find"]]
    /\ UNCHANGED <<sideVars, rowVars>>

\* An existing contract is returned, and nothing is generated.
FindContract(q) ==
    /\ At(q, "find")
    /\ IF contracts = {} THEN Goto(q, "render") ELSE Finish(q)
    /\ UNCHANGED <<sideVars, rowVars>>

\* Fault: the error of the upload is swallowed.
FaultRenderWithoutUpload(q, d) ==
    /\ At(q, "render")
    /\ NewKey(d)
    /\ request' = [request EXCEPT ![q] = [Idle EXCEPT !.step = "insert", !.doc = d]]
    /\ UNCHANGED <<sideVars, rowVars>>

\* pdf.generate puts the object, under a key of its own.
RenderContract(q, d) ==
    /\ At(q, "render")
    /\ NewKey(d)
    /\ file' = [file EXCEPT ![d] = "stored"]
    /\ request' = [request EXCEPT ![q] = [Idle EXCEPT !.step = "insert", !.doc = d]]
    /\ UNCHANGED <<sideVars, contracts, createdAt, signatures, countersigned>>

\* The row, newer than any other; the notification that follows changes
\* no contract.
InsertContract(q) ==
    LET d == request[q].doc
    IN  /\ At(q, "insert")
        /\ contracts' = contracts \cup {d}
        /\ createdAt' = [createdAt EXCEPT ![d] =
                            1 + Cardinality({e \in Docs : createdAt[e] > 0})]
        /\ Finish(q)
        /\ UNCHANGED <<sideVars, file, signatures, countersigned>>

-----------------------------------------------------------------------------
(* regenerateBuyerContract.                                                *)

\* Fault: force also gets past the signature of the owner.
FaultRegenerateSigned(q, d, force) ==
    /\ request[q] = Idle
    /\ IsLatest(d)
    /\ SignedBy(d, Owner) \/ SignedBy(d, "ADMIN") => force
    /\ request' = [request EXCEPT ![q] = [Idle EXCEPT !.step = "delete", !.doc = d]]
    /\ UNCHANGED <<sideVars, rowVars>>

\* The latest contract, not signed by its owner; if the administration has
\* signed it, force is required (it changes nothing else).
RegenerateRead(q, d, force) ==
    /\ request[q] = Idle
    /\ IsLatest(d)
    /\ ~SignedBy(d, Owner)
    /\ SignedBy(d, "ADMIN") => force
    /\ request' = [request EXCEPT ![q] = [Idle EXCEPT !.step = "delete", !.doc = d]]
    /\ UNCHANGED <<sideVars, rowVars>>

\* No contract yet: the same as a generation.
RegenerateNone(q) == contracts = {} /\ StartGenerate(q)

\* document.delete, by id alone; the signatures go with it (onDelete:
\* Cascade).  A row that is gone already is an error (P2025).
DeleteContract(q) ==
    LET d == request[q].doc
    IN  /\ At(q, "delete")
        /\ IF d \in contracts THEN Goto(q, "purge") ELSE Finish(q)
        /\ contracts' = contracts \ {d}
        /\ signatures' = {s \in signatures : s[1] # d}
        /\ countersigned' = countersigned \ {d}
        /\ unsealed' = unsealed \ {d}
        /\ UNCHANGED <<gateVars, createdAt, file>>

\* storage.deleteObject, then a generation like any other.
PurgeFile(q) ==
    /\ At(q, "purge")
    /\ file' = [file EXCEPT ![request[q].doc] = "deleted"]
    /\ request' = [request EXCEPT ![q] = [Idle EXCEPT !.step = "find"]]
    /\ UNCHANGED <<sideVars, contracts, createdAt, signatures, countersigned>>

-----------------------------------------------------------------------------
(* signContract.                                                           *)

\* The document, its reservation and its signatures are read; nobody checks
\* that this signer has not signed yet.
SignRead(q, d, signer) ==
    /\ request[q] = Idle
    /\ d \in contracts
    /\ ~cancelled
    /\ signer = "ADMIN" => SignedBy(d, Owner)
    /\ request' = [request EXCEPT ![q] =
                      [step |-> IF signer = Owner THEN "identity" ELSE "sign",
                       doc |-> d, signer |-> signer]]
    /\ UNCHANGED <<sideVars, rowVars>>

\* The owner's kycStatus is a later read.
CheckIdentity(q) ==
    /\ At(q, "identity")
    /\ IF verified THEN Goto(q, "sign") ELSE Finish(q)
    /\ UNCHANGED <<sideVars, rowVars>>

\* The insertion fails on a second signature of the same type (P2002) and on
\* a document deleted since (foreign key).
InsertSignature(q) ==
    LET d == request[q].doc
        signer == request[q].signer
    IN  /\ At(q, "sign")
        /\ IF d \in contracts /\ ~SignedBy(d, signer)
           THEN /\ signatures' = signatures \cup {<<d, signer>>}
                /\ Goto(q, "reread")
           ELSE /\ Finish(q)
                /\ UNCHANGED signatures
        /\ UNCHANGED <<sideVars, contracts, createdAt, file, countersigned>>

\* Fault: the decision is taken on the signatures as they were before the
\* insertion.
FaultRereadStale(q) ==
    LET d == request[q].doc
        before == signatures \ {<<d, request[q].signer>>}
    IN  /\ At(q, "reread")
        /\ IF {d} \X SignerTypes \subseteq before THEN Goto(q, "seal") ELSE Finish(q)
        /\ UNCHANGED <<sideVars, rowVars>>

\* The signatures are read again: with both, the PDF is countersigned, for
\* which the original is fetched.
RereadSignatures(q) ==
    LET d == request[q].doc
    IN  /\ At(q, "reread")
        /\ IF FullySigned(d) /\ file[d] = "stored" THEN Goto(q, "seal") ELSE Finish(q)
        /\ UNCHANGED <<sideVars, rowVars>>

\* The countersigned PDF is stored under another key, then the row updated
\* (an error if it is gone).
Countersign(q) ==
    LET d == request[q].doc
    IN  /\ At(q, "seal")
        /\ countersigned' = countersigned \cup ({d} \cap contracts)
        /\ Finish(q)
        /\ UNCHANGED <<sideVars, contracts, createdAt, file, signatures>>

\* A crash, a storage error or a database error between two steps.
RequestAborts(q) ==
    LET d == request[q].doc
        alone == \A p \in Requests : Sealing(p, d) => p = q
    IN  /\ request[q] # Idle
        /\ Finish(q)
        /\ unsealed' = IF Sealing(q, d) /\ FullySigned(d) /\ alone
                       THEN unsealed \cup {d} ELSE unsealed
        /\ UNCHANGED <<gateVars, rowVars>>

-----------------------------------------------------------------------------

Generate(q) ==
    \/ StartGenerate(q)
    \/ FindContract(q)
    \/ \E d \in Docs : RenderContract(q, d)
    \/ InsertContract(q)

Regenerate(q) ==
    \/ \E d \in Docs, force \in BOOLEAN : RegenerateRead(q, d, force)
    \/ RegenerateNone(q)
    \/ DeleteContract(q)
    \/ PurgeFile(q)

SignStep(q) ==
    \/ CheckIdentity(q)
    \/ InsertSignature(q)
    \/ RereadSignatures(q)
    \/ Countersign(q)

Sign(q) ==
    \/ \E d \in Docs, signer \in SignerTypes : SignRead(q, d, signer)
    \/ SignStep(q)

Next ==
    \/ ReservationChanges
    \/ KycChanges
    \/ \E q \in Requests : Generate(q) \/ Regenerate(q) \/ Sign(q) \/ RequestAborts(q)

Spec == Init /\ [][Next]_vars

\* A signature that is being recorded goes on, or is abandoned.
Fairness == \A q \in Requests : WF_vars(SignStep(q))

FairSpec == Spec /\ Fairness

-----------------------------------------------------------------------------
(* What the service guarantees.                                            *)

\* The administration only ever signs a contract its owner has signed, even
\* when a regeneration deletes the contract, and its signatures with it,
\* between the check and the insertion (signContract).
OwnerSignsFirst == \A d \in Docs : SignedBy(d, "ADMIN") => SignedBy(d, Owner)

\* A countersigned contract carries both signatures, and still exists, with
\* deletions racing the countersignature (signContract).
CountersignedIsComplete ==
    \A d \in countersigned : d \in contracts /\ FullySigned(d)

\* A contract a buyer can list can be opened: its PDF is in the storage,
\* whatever crashes come between rendering, insertion, deletion and purge.
ListedContractHasFile == \A d \in contracts : file[d] = "stored"

\* Duplicates are bounded: the check of generateBuyerContract lets through
\* no more contracts at a time than there are overlapping requests.
DuplicatesNeedOverlap == Cardinality(contracts) <= Cardinality(Requests)

\* A contract with both signatures is countersigned,
\* or a request that has just signed it is still at work, or was the last to
\* die (two requests may insert a signature each before either reads again).
SignedIsInHand ==
    \A d \in Docs :
        FullySigned(d) =>
            \/ d \in countersigned \cup unsealed
            \/ \E q \in Requests : Sealing(q, d)

\* "Une fois les deux signatures présentes, le PDF est contresigné": whoever
\* signs when, and unless a regeneration that read the contract before
\* deletes it, or a request that had just signed died (a second signature of
\* the same signer is refused, so that nothing makes up for that).
SignedIsCountersigned ==
    \A d \in Docs :
        FullySigned(d) ~> d \in countersigned \/ d \notin contracts \/ d \in unsealed

=============================================================================
