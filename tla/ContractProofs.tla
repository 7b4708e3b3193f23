--------------------------- MODULE ContractProofs ---------------------------
(***************************************************************************)
(* The sale contracts of a reservation for every number of contracts and   *)
(* of overlapping requests: the order of the signatures, what a            *)
(* countersigned contract carries and who still has to make it, the file   *)
(* behind a listed contract, the bound on duplicates, and what the         *)
(* signature of an owner can be lost to.                                   *)
(***************************************************************************)
EXTENDS ContractHistory, FiniteSetTheorems, TLAPS

\* A contract was given a row at some time, perhaps deleted since.
Old(d) == createdAt[d] > 0

\* Rows have files; a contract that ever had a row has a used key.
RowsHaveFiles ==
    \A d \in Docs :
        /\ Old(d) => file[d] # "none"
        /\ d \in contracts => Old(d) /\ file[d] = "stored"

\* What is about to be inserted is new, and rendered by this request alone.
InsertIsNew ==
    \A q \in Requests :
        At(q, "insert") =>
            /\ file[request[q].doc] = "stored"
            /\ ~Old(request[q].doc)
            /\ \A p \in Requests :
                  At(p, "insert") /\ request[p].doc = request[q].doc => p = q

\* The other requests work on contracts that have had a row: a deleted
\* contract never comes back under them.
RequestIsOnOld ==
    \A q \in Requests :
        request[q].step \in {"delete", "purge", "identity", "sign", "reread", "seal"}
            => Old(request[q].doc)

\* An object is deleted after its row.
PurgedIsGone ==
    \A q \in Requests : At(q, "purge") => request[q].doc \notin contracts

RowInv == RowsHaveFiles /\ InsertIsNew /\ RequestIsOnOld /\ PurgedIsGone

\* The signatures of a deleted contract go with it.
SignaturesHaveRow == \A s \in signatures : s[1] \in contracts

IdentityIsOwner ==
    \A q \in Requests : At(q, "identity") => request[q].signer = Owner

\* What the administration read still holds when it inserts, or the contract
\* is gone.
AdminFollowsOwner ==
    \A q \in Requests :
        /\ At(q, "sign")
        /\ request[q].signer = "ADMIN"
        /\ request[q].doc \in contracts
        => SignedBy(request[q].doc, Owner)

\* Likewise for the countersignature.
SealIsDue ==
    \A q \in Requests :
        At(q, "seal") /\ request[q].doc \in contracts => FullySigned(request[q].doc)

SignInv ==
    /\ SignaturesHaveRow
    /\ IdentityIsOwner
    /\ AdminFollowsOwner
    /\ OwnerSignsFirst
    /\ SealIsDue
    /\ CountersignedIsComplete

\* The inductive invariant.
IInv == ContractTypeOK /\ RowInv /\ SignInv

-----------------------------------------------------------------------------

\* The record of a request has the fields of its step.
LEMMA RequestFields ==
    ASSUME ContractTypeOK, NEW q \in Requests
    PROVE  /\ request[q].step \in {"find", "render"} =>
                 request[q].doc = None /\ request[q].signer = "none"
           /\ request[q].step \in {"insert", "delete", "purge"} =>
                 request[q].doc \in Docs /\ request[q].signer = "none"
           /\ request[q].step \in {"identity", "sign", "reread", "seal"} =>
                 request[q].doc \in Docs /\ request[q].signer \in SignerTypes
           /\ request[q] = [step |-> request[q].step, doc |-> request[q].doc,
                            signer |-> request[q].signer]
BY DEF ContractTypeOK, RequestRecords, Idle

\* The date of a new row is later than no date.
LEMMA NextDate ==
    ASSUME ContractTypeOK
    PROVE  1 + Cardinality({e \in Docs : createdAt[e] > 0}) \in Nat \ {0}
<1>1. IsFiniteSet({e \in Docs : createdAt[e] > 0})
  BY FS_Subset, ContractAssumption
<1> QED BY <1>1, FS_CardinalityType

\* A request that goes on keeps its document and its signer.
LEMMA GotoFields ==
    ASSUME ContractTypeOK, NEW q \in Requests, NEW step, Goto(q, step)
    PROVE  \A p \in Requests :
              /\ request'[p].step = IF p = q THEN step ELSE request[p].step
              /\ request'[p].doc = request[p].doc
              /\ request'[p].signer = request[p].signer
<1>1. /\ request'[q].step = step
      /\ request'[q].doc = request[q].doc
      /\ request'[q].signer = request[q].signer
  BY RequestFields DEF Goto, ContractTypeOK
<1>2. ASSUME NEW p \in Requests, p # q PROVE request'[p] = request[p]
  BY <1>2 DEF Goto, ContractTypeOK
<1> QED BY <1>1, <1>2

\* A request that ends has forgotten its document and its signer.
LEMMA FinishFields ==
    ASSUME ContractTypeOK, NEW q \in Requests, Finish(q)
    PROVE  /\ request'[q] = Idle
           /\ \A p \in Requests \ {q} : request'[p] = request[p]
BY DEF Finish, ContractTypeOK

\* The invariant holds initially.
LEMMA InitInv == Init => IInv
<1> SUFFICES ASSUME Init PROVE IInv
  OBVIOUS
<1>1. ContractTypeOK
  BY DEF Init, ContractTypeOK
<1>2. RowInv
  BY DEF Init, RowInv, RowsHaveFiles, InsertIsNew, RequestIsOnOld, PurgedIsGone,
         Idle, At, Old
<1>3. SignInv
  BY DEF Init, SignInv, SignaturesHaveRow, IdentityIsOwner, AdminFollowsOwner,
         OwnerSignsFirst, SealIsDue, CountersignedIsComplete, Idle, At, SignedBy
<1> QED
  BY <1>1, <1>2, <1>3 DEF IInv

-----------------------------------------------------------------------------
(* One lemma for each part of the invariant.                               *)

\* Every step keeps the rows and the requests well typed.
LEMMA TypeStep ==
    ASSUME IInv, [Next]_vars
    PROVE  ContractTypeOK'
<1> USE DEF IInv, gateVars, sideVars, rowVars, ContractTypeOK, RequestRecords,
            SignerTypes, Owner, At
<1>1. CASE ReservationChanges
  BY <1>1 DEF ReservationChanges
<1>2. CASE KycChanges
  BY <1>2 DEF KycChanges
<1>3. ASSUME NEW q \in Requests, StartGenerate(q)
      PROVE  ContractTypeOK'
  BY <1>3, RequestFields DEF StartGenerate, Idle
<1>4. ASSUME NEW q \in Requests, FindContract(q)
      PROVE  ContractTypeOK'
  BY <1>4, RequestFields DEF FindContract, Goto, Finish, Idle
<1>5. ASSUME NEW q \in Requests, NEW d \in Docs, RenderContract(q, d)
      PROVE  ContractTypeOK'
  BY <1>5, RequestFields DEF RenderContract, NewKey, Idle
<1>6. ASSUME NEW q \in Requests, InsertContract(q)
      PROVE  ContractTypeOK'
  BY <1>6, NextDate, RequestFields DEF InsertContract, Finish, Idle
<1>7. ASSUME NEW q \in Requests, NEW d \in Docs, NEW force \in BOOLEAN,
             RegenerateRead(q, d, force)
      PROVE  ContractTypeOK'
  BY <1>7, RequestFields DEF RegenerateRead, IsLatest, Idle
<1>8. ASSUME NEW q \in Requests, RegenerateNone(q)
      PROVE  ContractTypeOK'
  BY <1>8, RequestFields DEF RegenerateNone, StartGenerate, Idle
<1>9. ASSUME NEW q \in Requests, DeleteContract(q)
      PROVE  ContractTypeOK'
  BY <1>9, RequestFields DEF DeleteContract, Goto, Finish, Idle
<1>10. ASSUME NEW q \in Requests, PurgeFile(q)
      PROVE  ContractTypeOK'
  BY <1>10, RequestFields DEF PurgeFile, Idle
<1>11. ASSUME NEW q \in Requests, NEW d \in Docs, NEW signer \in SignerTypes,
             SignRead(q, d, signer)
      PROVE  ContractTypeOK'
  BY <1>11, RequestFields DEF SignRead, Idle
<1>12. ASSUME NEW q \in Requests, CheckIdentity(q)
      PROVE  ContractTypeOK'
  BY <1>12, RequestFields DEF CheckIdentity, Goto, Finish, Idle
<1>13. ASSUME NEW q \in Requests, InsertSignature(q)
      PROVE  ContractTypeOK'
  BY <1>13, RequestFields DEF InsertSignature, Goto, Finish, Idle
<1>14. ASSUME NEW q \in Requests, RereadSignatures(q)
      PROVE  ContractTypeOK'
  BY <1>14, RequestFields DEF RereadSignatures, Goto, Finish, Idle
<1>15. ASSUME NEW q \in Requests, Countersign(q)
      PROVE  ContractTypeOK'
  BY <1>15, RequestFields DEF Countersign, Finish, Idle
<1>16. ASSUME NEW q \in Requests, RequestAborts(q)
      PROVE  ContractTypeOK'
  <2>1. Sealing(q, request[q].doc) => request[q].doc \in Docs
    BY <1>16, RequestFields DEF Sealing
  <2>2. unsealed' \subseteq Docs
    BY <1>16, <2>1 DEF RequestAborts
  <2> QED BY <1>16, <2>2 DEF RequestAborts, Finish, Idle
<1>17. CASE UNCHANGED vars
  BY <1>17 DEF vars
<1> QED
  BY <1>1, <1>2, <1>3, <1>4, <1>5, <1>6, <1>7, <1>8, <1>9, <1>10, <1>11,
     <1>12, <1>13, <1>14, <1>15, <1>16, <1>17
     DEF Next, Generate, Regenerate, Sign, SignStep

\* Every step keeps rows, files and the requests on them consistent.
LEMMA RowStep ==
    ASSUME IInv, [Next]_vars
    PROVE  RowInv'
<1> USE DEF IInv, gateVars, sideVars, rowVars, ContractTypeOK, RowInv, RowsHaveFiles,
            InsertIsNew, RequestIsOnOld, PurgedIsGone, Old, At
<1>1. CASE ReservationChanges
  BY <1>1 DEF ReservationChanges
<1>2. CASE KycChanges
  BY <1>2 DEF KycChanges
<1>3. ASSUME NEW q \in Requests, StartGenerate(q)
      PROVE  RowInv'
  BY <1>3, RequestFields DEF StartGenerate, Idle
<1>4. ASSUME NEW q \in Requests, FindContract(q)
      PROVE  RowInv'
  BY <1>4, RequestFields DEF FindContract, Goto, Finish, Idle
<1>5. ASSUME NEW q \in Requests, NEW d \in Docs, RenderContract(q, d)
      PROVE  RowInv'
  BY <1>5, RequestFields DEF RenderContract, NewKey, Idle
<1>6. ASSUME NEW q \in Requests, InsertContract(q)
      PROVE  RowInv'
  <2>1. request[q].doc \in Docs /\ file[request[q].doc] = "stored"
    BY <1>6, RequestFields DEF InsertContract, RowInv, InsertIsNew, At
  <2>2. /\ createdAt'[request[q].doc] > 0
        /\ \A e \in Docs \ {request[q].doc} : createdAt'[e] = createdAt[e]
    BY <1>6, <2>1, NextDate DEF InsertContract, ContractTypeOK
  <2>3. \A e \in Docs : Old(e)' <=> (Old(e) \/ e = request[q].doc)
    BY <2>2 DEF Old
  <2>4. \A p \in Requests : At(p, "insert") /\ p # q => request[p].doc # request[q].doc
    BY <1>6 DEF InsertContract, RowInv, InsertIsNew
  <2>5. \A p \in Requests : At(p, "purge") => request[p].doc # request[q].doc
    BY <1>6 DEF InsertContract, RowInv, InsertIsNew, RequestIsOnOld, At
  <2>6. Finish(q) /\ UNCHANGED file /\ contracts' = contracts \cup {request[q].doc}
    BY <1>6 DEF InsertContract
  <2>7. RowsHaveFiles'
    BY <2>1, <2>3, <2>6 DEF RowInv, RowsHaveFiles
  <2>8. /\ request'[q].step = "idle"
        /\ \A p \in Requests \ {q} : request'[p] = request[p]
    BY <2>6, FinishFields DEF Idle
  <2>9. ASSUME NEW p \in Requests, At(p, "insert")'
        PROVE  /\ p # q /\ At(p, "insert") /\ request'[p] = request[p]
               /\ request[p].doc \in Docs /\ request[p].doc # request[q].doc
    BY <2>4, <2>8, <2>9, RequestFields DEF At
  <2>12. InsertIsNew'
    BY <2>3, <2>6, <2>9 DEF RowInv, InsertIsNew
  <2>10. RequestIsOnOld'
    BY <2>3, <2>8, RequestFields DEF RowInv, RequestIsOnOld, Old
  <2>11. PurgedIsGone'
    BY <2>5, <2>6, <2>8 DEF RowInv, PurgedIsGone, At
  <2> QED BY <2>7, <2>10, <2>11, <2>12 DEF RowInv
<1>7. ASSUME NEW q \in Requests, NEW d \in Docs, NEW force \in BOOLEAN,
             RegenerateRead(q, d, force)
      PROVE  RowInv'
  BY <1>7, RequestFields DEF RegenerateRead, IsLatest, Idle
<1>8. ASSUME NEW q \in Requests, RegenerateNone(q)
      PROVE  RowInv'
  BY <1>8, RequestFields DEF RegenerateNone, StartGenerate, Idle
<1>9. ASSUME NEW q \in Requests, DeleteContract(q)
      PROVE  RowInv'
  BY <1>9, RequestFields DEF DeleteContract, Goto, Finish, Idle
<1>10. ASSUME NEW q \in Requests, PurgeFile(q)
      PROVE  RowInv'
  BY <1>10, RequestFields DEF PurgeFile, Idle
<1>11. ASSUME NEW q \in Requests, NEW d \in Docs, NEW signer \in SignerTypes,
             SignRead(q, d, signer)
      PROVE  RowInv'
  BY <1>11, RequestFields DEF SignRead, Idle
<1>12. ASSUME NEW q \in Requests, CheckIdentity(q)
      PROVE  RowInv'
  BY <1>12, RequestFields DEF CheckIdentity, Goto, Finish, Idle
<1>13. ASSUME NEW q \in Requests, InsertSignature(q)
      PROVE  RowInv'
  BY <1>13, RequestFields DEF InsertSignature, Goto, Finish, Idle
<1>14. ASSUME NEW q \in Requests, RereadSignatures(q)
      PROVE  RowInv'
  BY <1>14, RequestFields DEF RereadSignatures, Goto, Finish, Idle
<1>15. ASSUME NEW q \in Requests, Countersign(q)
      PROVE  RowInv'
  BY <1>15, RequestFields DEF Countersign, Finish, Idle
<1>16. ASSUME NEW q \in Requests, RequestAborts(q)
      PROVE  RowInv'
  BY <1>16, RequestFields DEF RequestAborts, Finish, Idle
<1>17. CASE UNCHANGED vars
  BY <1>17 DEF vars
<1> QED
  BY <1>1, <1>2, <1>3, <1>4, <1>5, <1>6, <1>7, <1>8, <1>9, <1>10, <1>11,
     <1>12, <1>13, <1>14, <1>15, <1>16, <1>17
     DEF Next, Generate, Regenerate, Sign, SignStep

\* Every step keeps the order of the signatures and of the countersignature.
LEMMA SignStepInv ==
    ASSUME IInv, [Next]_vars
    PROVE  SignInv'
<1> USE DEF IInv, gateVars, sideVars, rowVars, SignInv,
            SignaturesHaveRow, IdentityIsOwner, AdminFollowsOwner,
            OwnerSignsFirst, SealIsDue, CountersignedIsComplete, SignedBy,
            FullySigned, At, SignerTypes, Owner
<1>1. CASE ReservationChanges
  BY <1>1 DEF ReservationChanges
<1>2. CASE KycChanges
  BY <1>2 DEF KycChanges
<1>3. ASSUME NEW q \in Requests, StartGenerate(q)
      PROVE  SignInv'
  BY <1>3, RequestFields DEF StartGenerate, Idle, ContractTypeOK
<1>4. ASSUME NEW q \in Requests, FindContract(q)
      PROVE  SignInv'
  <2>1. CASE contracts = {}
    <3>1. Goto(q, "render")
      BY <1>4, <2>1 DEF FindContract
    <3> QED
      BY <1>4, <2>1, <3>1, GotoFields, RequestFields DEF FindContract
  <2>2. CASE ~(contracts = {})
    <3>1. Finish(q)
      BY <1>4, <2>2 DEF FindContract
    <3> QED
      BY <1>4, <2>2, <3>1, FinishFields, RequestFields DEF FindContract, Idle
  <2> QED BY <2>1, <2>2
<1>5. ASSUME NEW q \in Requests, NEW d \in Docs, RenderContract(q, d)
      PROVE  SignInv'
  BY <1>5, RequestFields DEF RenderContract, NewKey, Idle, ContractTypeOK
<1>6. ASSUME NEW q \in Requests, InsertContract(q)
      PROVE  SignInv'
  <2>1. ~Old(request[q].doc)
    BY <1>6 DEF InsertContract, RowInv, InsertIsNew
  <2>2. \A p \in Requests :
           request[p].step \in {"identity", "sign", "reread", "seal"}
              => request[p].doc # request[q].doc
    BY <2>1 DEF RowInv, RequestIsOnOld
  <2>3. Finish(q) /\ request[q].doc \in Docs
    BY <1>6, RequestFields DEF InsertContract
  <2> QED
    BY <1>6, <2>2, <2>3, FinishFields, RequestFields DEF InsertContract, Idle
<1>7. ASSUME NEW q \in Requests, NEW d \in Docs, NEW force \in BOOLEAN,
             RegenerateRead(q, d, force)
      PROVE  SignInv'
  BY <1>7, RequestFields DEF RegenerateRead, IsLatest, Idle, ContractTypeOK
<1>8. ASSUME NEW q \in Requests, RegenerateNone(q)
      PROVE  SignInv'
  BY <1>8, RequestFields DEF RegenerateNone, StartGenerate, Idle, ContractTypeOK
<1>9. ASSUME NEW q \in Requests, DeleteContract(q)
      PROVE  SignInv'
  <2>1. CASE request[q].doc \in contracts
    <3>1. Goto(q, "purge")
      BY <1>9, <2>1 DEF DeleteContract
    <3> QED
      BY <1>9, <2>1, <3>1, GotoFields, RequestFields DEF DeleteContract
  <2>2. CASE ~(request[q].doc \in contracts)
    <3>1. Finish(q)
      BY <1>9, <2>2 DEF DeleteContract
    <3> QED
      BY <1>9, <2>2, <3>1, FinishFields, RequestFields DEF DeleteContract, Idle
  <2> QED BY <2>1, <2>2
<1>10. ASSUME NEW q \in Requests, PurgeFile(q)
      PROVE  SignInv'
  BY <1>10, RequestFields DEF PurgeFile, Idle, ContractTypeOK
<1>11. ASSUME NEW q \in Requests, NEW d \in Docs, NEW signer \in SignerTypes,
             SignRead(q, d, signer)
      PROVE  SignInv'
  BY <1>11, RequestFields DEF SignRead, Idle, ContractTypeOK
<1>12. ASSUME NEW q \in Requests, CheckIdentity(q)
      PROVE  SignInv'
  <2>1. CASE verified
    <3>1. Goto(q, "sign")
      BY <1>12, <2>1 DEF CheckIdentity
    <3> QED
      BY <1>12, <2>1, <3>1, GotoFields, RequestFields DEF CheckIdentity
  <2>2. CASE ~(verified)
    <3>1. Finish(q)
      BY <1>12, <2>2 DEF CheckIdentity
    <3> QED
      BY <1>12, <2>2, <3>1, FinishFields, RequestFields DEF CheckIdentity, Idle
  <2> QED BY <2>1, <2>2
<1>13. ASSUME NEW q \in Requests, InsertSignature(q)
      PROVE  SignInv'
  BY <1>13, RequestFields DEF InsertSignature, Goto, Finish, Idle, ContractTypeOK
<1>14. ASSUME NEW q \in Requests, RereadSignatures(q)
      PROVE  SignInv'
  <2>1. CASE FullySigned(request[q].doc) /\ file[request[q].doc] = "stored"
    <3>1. Goto(q, "seal")
      BY <1>14, <2>1 DEF RereadSignatures
    <3> QED
      BY <1>14, <2>1, <3>1, GotoFields, RequestFields DEF RereadSignatures
  <2>2. CASE ~(FullySigned(request[q].doc) /\ file[request[q].doc] = "stored")
    <3>1. Finish(q)
      BY <1>14, <2>2 DEF RereadSignatures
    <3> QED
      BY <1>14, <2>2, <3>1, FinishFields, RequestFields DEF RereadSignatures, Idle
  <2> QED BY <2>1, <2>2
<1>15. ASSUME NEW q \in Requests, Countersign(q)
      PROVE  SignInv'
  BY <1>15, RequestFields DEF Countersign, Finish, Idle, ContractTypeOK
<1>16. ASSUME NEW q \in Requests, RequestAborts(q)
      PROVE  SignInv'
  BY <1>16, RequestFields DEF RequestAborts, Finish, Idle, ContractTypeOK
<1>17. CASE UNCHANGED vars
  BY <1>17 DEF vars
<1> QED
  BY <1>1, <1>2, <1>3, <1>4, <1>5, <1>6, <1>7, <1>8, <1>9, <1>10, <1>11,
     <1>12, <1>13, <1>14, <1>15, <1>16, <1>17
     DEF Next, Generate, Regenerate, Sign, SignStep

-----------------------------------------------------------------------------

\* The invariant holds in every reachable state.
LEMMA SpecInv == Spec => []IInv
<1>1. IInv /\ [Next]_vars => IInv'
  BY TypeStep, RowStep, SignStepInv DEF IInv
<1> QED
  BY InitInv, <1>1, PTL DEF Spec

\* Type correctness of the contracts.
THEOREM ContractType == Spec => []ContractTypeOK
BY SpecInv, PTL DEF IInv

\* The administration never signs before the owner (signContract).
THEOREM AdminSignsLast == Spec => []OwnerSignsFirst
<1>1. IInv => OwnerSignsFirst
  BY DEF IInv, SignInv
<1> QED BY SpecInv, <1>1, PTL

\* A countersigned contract carries both signatures (signContract).
THEOREM CountersignedHasBoth == Spec => []CountersignedIsComplete
<1>1. IInv => CountersignedIsComplete
  BY DEF IInv, SignInv
<1> QED BY SpecInv, <1>1, PTL

\* A listed contract has its PDF (generate and regenerateBuyerContract).
THEOREM ContractsHaveFiles == Spec => []ListedContractHasFile
<1>1. IInv => ListedContractHasFile
  BY DEF IInv, RowInv, RowsHaveFiles, ListedContractHasFile, ContractTypeOK
<1> QED BY SpecInv, <1>1, PTL

-----------------------------------------------------------------------------
(* The path of a contract from its second signature to its copy.           *)

\* A request that seals nothing leaves those that do where they are.
LEMMA SealingStays ==
    ASSUME ContractTypeOK, NEW p \in Requests,
           request[p].step \notin {"reread", "seal"},
           \A q \in Requests \ {p} : request'[q] = request[q]
    PROVE  \A q \in Requests, d \in Docs : Sealing(q, d) => Sealing(q, d)'
BY DEF Sealing

\* Whatever keeps the signatures, the copies and the requests that seal keeps
\* the invariant.
LEMMA InHandKept ==
    ASSUME SignedIsInHand, UNCHANGED <<signatures, countersigned, unsealed>>,
           \A q \in Requests, d \in Docs : Sealing(q, d) => Sealing(q, d)'
    PROVE  SignedIsInHand'
BY DEF SignedIsInHand, FullySigned, SignedBy

\* The invariant is inductive with IInv.
LEMMA InHandStep ==
    ASSUME IInv, SignedIsInHand, [Next]_vars
    PROVE  SignedIsInHand'
<1> USE DEF sideVars, gateVars, rowVars
<1>0. ContractTypeOK
  BY DEF IInv
<1>1. CASE ReservationChanges \/ KycChanges \/ UNCHANGED vars
  <2>1. UNCHANGED <<signatures, countersigned, unsealed, request>>
    BY <1>1 DEF ReservationChanges, KycChanges, vars
  <2>2. \A q \in Requests, d \in Docs : Sealing(q, d) => Sealing(q, d)'
    BY <2>1 DEF Sealing
  <2> QED BY <2>1, <2>2, InHandKept
<1>2. ASSUME NEW p \in Requests,
             \/ StartGenerate(p) \/ FindContract(p) \/ (\E d \in Docs : RenderContract(p, d))
             \/ InsertContract(p) \/ (\E d \in Docs, f \in BOOLEAN : RegenerateRead(p, d, f))
             \/ RegenerateNone(p) \/ PurgeFile(p)
             \/ (\E d \in Docs, s \in SignerTypes : SignRead(p, d, s)) \/ CheckIdentity(p)
      PROVE  SignedIsInHand'
  <2>1. request[p].step \notin {"reread", "seal"}
    <3>1. Idle.step = "idle"
      BY DEF Idle
    <3> QED
      BY <1>2, <3>1 DEF StartGenerate, FindContract, RenderContract, InsertContract,
         RegenerateRead, RegenerateNone, PurgeFile, SignRead, CheckIdentity, At
  <2>2. /\ UNCHANGED <<signatures, countersigned, unsealed>>
        /\ \A q \in Requests \ {p} : request'[q] = request[q]
    BY <1>0, <1>2 DEF StartGenerate, FindContract, RenderContract, InsertContract, RegenerateRead,
       RegenerateNone, PurgeFile, SignRead, CheckIdentity, Goto, Finish, ContractTypeOK
  <2> QED BY <1>0, <2>1, <2>2, SealingStays, InHandKept
<1>3. ASSUME NEW p \in Requests, DeleteContract(p)
      PROVE  SignedIsInHand'
  <2>1. \A d \in Docs : FullySigned(d)' => FullySigned(d) /\ d # request[p].doc
    BY <1>3 DEF DeleteContract, FullySigned, SignedBy, SignerTypes, Owner
  <2>2. \A q \in Requests, d \in Docs : Sealing(q, d) => Sealing(q, d)'
    <3>1. request[p].step \notin {"reread", "seal"}
      BY <1>3 DEF DeleteContract, At
    <3>2. \A q \in Requests \ {p} : request'[q] = request[q]
      BY <1>0, <1>3 DEF DeleteContract, Goto, Finish, ContractTypeOK
    <3> QED BY <1>0, <3>1, <3>2, SealingStays
  <2> QED BY <1>3, <2>1, <2>2 DEF DeleteContract, SignedIsInHand
<1>4. ASSUME NEW p \in Requests, InsertSignature(p)
      PROVE  SignedIsInHand'
  <2>1. \A q \in Requests, d \in Docs : Sealing(q, d) => Sealing(q, d)'
    <3>1. request[p].step \notin {"reread", "seal"}
      BY <1>4 DEF InsertSignature, At
    <3>2. \A q \in Requests \ {p} : request'[q] = request[q]
      BY <1>0, <1>4 DEF InsertSignature, Goto, Finish, ContractTypeOK
    <3> QED BY <1>0, <3>1, <3>2, SealingStays
  <2>2. CASE UNCHANGED signatures
    BY <1>4, <2>1, <2>2, InHandKept DEF InsertSignature
  <2>3. CASE signatures' # signatures
    <3>1. Goto(p, "reread") /\ signatures' = signatures \cup {<<request[p].doc, request[p].signer>>}
      BY <1>4, <2>3 DEF InsertSignature
    <3>2. \A d \in Docs : d = request[p].doc => Sealing(p, d)'
      BY <1>0, <3>1, GotoFields DEF Sealing
    <3>3. ASSUME NEW d \in Docs, d # request[p].doc, FullySigned(d)'
          PROVE  FullySigned(d)
      BY <3>1, <3>3 DEF FullySigned, SignedBy
    <3>4. UNCHANGED <<countersigned, unsealed>>
      BY <1>4 DEF InsertSignature
    <3> QED BY <2>1, <3>2, <3>3, <3>4 DEF SignedIsInHand
  <2> QED BY <2>2, <2>3
<1>5. ASSUME NEW p \in Requests, RereadSignatures(p)
      PROVE  SignedIsInHand'
  <2>1. UNCHANGED <<signatures, countersigned, unsealed>>
    BY <1>5 DEF RereadSignatures
  <2>2. CASE FullySigned(request[p].doc)
    <3>1. request[p].doc \in Docs
      BY <1>0, <1>5, RequestFields DEF RereadSignatures, At
    <3>2. request[p].doc \in contracts
      BY <2>2 DEF IInv, SignInv, SignaturesHaveRow, FullySigned, SignedBy, SignerTypes
    <3>3. Goto(p, "seal")
      BY <1>5, <2>2, <3>1, <3>2 DEF RereadSignatures, IInv, RowInv, RowsHaveFiles
    <3>4. \A q \in Requests, d \in Docs : Sealing(q, d) => Sealing(q, d)'
      BY <1>0, <3>3, GotoFields DEF Sealing
    <3> QED BY <2>1, <3>4, InHandKept
  <2>3. CASE ~FullySigned(request[p].doc)
    <3>1. Finish(p)
      BY <1>5, <2>3 DEF RereadSignatures
    <3>2. \A q \in Requests, d \in Docs :
             Sealing(q, d) /\ d # request[p].doc => Sealing(q, d)'
      BY <1>0, <3>1 DEF Sealing, Finish, ContractTypeOK
    <3>3. ASSUME NEW d \in Docs, FullySigned(d)'
          PROVE  d # request[p].doc /\ FullySigned(d)
      BY <2>1, <2>3, <3>3 DEF FullySigned, SignedBy
    <3> QED BY <2>1, <3>2, <3>3 DEF SignedIsInHand
  <2> QED BY <2>2, <2>3
<1>6. ASSUME NEW p \in Requests, Countersign(p)
      PROVE  SignedIsInHand'
  <2>1. UNCHANGED <<signatures, unsealed>> /\ countersigned \subseteq countersigned'
    BY <1>6 DEF Countersign
  <2>2. \A q \in Requests, d \in Docs :
           Sealing(q, d) /\ d # request[p].doc => Sealing(q, d)'
    BY <1>0, <1>6 DEF Countersign, Sealing, Finish, ContractTypeOK
  <2>3. ASSUME NEW d \in Docs, d = request[p].doc, FullySigned(d)' PROVE d \in countersigned'
    <3>1. <<d, Owner>> \in signatures
      BY <1>6, <2>3 DEF Countersign, FullySigned, SignedBy, SignerTypes
    <3>2. d \in contracts
      BY <3>1 DEF IInv, SignInv, SignaturesHaveRow
    <3> QED BY <1>6, <2>3, <3>2 DEF Countersign
  <2> QED BY <2>1, <2>2, <2>3 DEF SignedIsInHand, FullySigned, SignedBy
<1>7. ASSUME NEW p \in Requests, RequestAborts(p)
      PROVE  SignedIsInHand'
  <2>1. UNCHANGED <<signatures, countersigned>> /\ unsealed \subseteq unsealed'
    BY <1>7 DEF RequestAborts
  <2>2. \A q \in Requests \ {p}, d \in Docs : Sealing(q, d) => Sealing(q, d)'
    BY <1>0, <1>7 DEF RequestAborts, Sealing, Finish, ContractTypeOK
  <2>3. ASSUME NEW d \in Docs, FullySigned(d), Sealing(p, d)
        PROVE  d \in unsealed' \/ \E q \in Requests : Sealing(q, d)'
    <3>1. d = request[p].doc
      BY <2>3 DEF Sealing
    <3>2. CASE \A q \in Requests : Sealing(q, d) => q = p
      BY <1>7, <2>3, <3>1, <3>2 DEF RequestAborts
    <3>3. CASE \E q \in Requests : Sealing(q, d) /\ q # p
      BY <2>2, <3>3
    <3> QED BY <3>2, <3>3
  <2> QED BY <2>1, <2>2, <2>3 DEF SignedIsInHand, FullySigned, SignedBy
<1> QED
  BY <1>1, <1>2, <1>3, <1>4, <1>5, <1>6, <1>7 DEF Next, Generate, Regenerate, Sign, SignStep

\* A contract with both signatures is countersigned, or in the hands of a
\* request that has just signed it, or the last of these died (signContract):
\* two signatures at once never leave it to each other.
THEOREM SignedStaysInHand == Spec => []SignedIsInHand
<1>1. Init => SignedIsInHand
  BY DEF Init, SignedIsInHand, FullySigned, SignedBy, SignerTypes
<1>2. IInv /\ SignedIsInHand /\ [Next]_vars => SignedIsInHand'
  BY InHandStep
<1> QED BY <1>1, <1>2, SpecInv, PTL DEF Spec

-----------------------------------------------------------------------------
(* The bound on duplicates: a contract is paid for by a request that found  *)
(* none, and that is still in flight or has made its contract.             *)

Generating == {q \in Requests : request[q].step \in {"render", "insert"}}

OverlapBound ==
    Cardinality(contracts) + Cardinality(Generating) <= Cardinality(Requests)

LEMMA OverlapTypes ==
    ASSUME ContractTypeOK
    PROVE  /\ IsFiniteSet(contracts) /\ Cardinality(contracts) \in Nat
           /\ IsFiniteSet(Generating) /\ Cardinality(Generating) \in Nat
           /\ Cardinality(Requests) \in Nat
<1>1. IsFiniteSet(contracts)
  BY FS_Subset, ContractAssumption DEF ContractTypeOK
<1>2. IsFiniteSet(Generating)
  BY FS_Subset, ContractAssumption DEF Generating
<1> QED BY <1>1, <1>2, FS_CardinalityType, ContractAssumption

\* Fewer contracts and fewer generations keep the bound.
LEMMA OverlapShrinks ==
    ASSUME ContractTypeOK, OverlapBound, ContractTypeOK',
           contracts' \subseteq contracts, Generating' \subseteq Generating
    PROVE  OverlapBound'
<1>1. Cardinality(contracts') <= Cardinality(contracts)
  BY OverlapTypes, FS_Subset
<1>2. Cardinality(Generating') <= Cardinality(Generating)
  BY OverlapTypes, FS_Subset
<1>3. /\ Cardinality(contracts) \in Nat /\ Cardinality(Generating) \in Nat
      /\ Cardinality(Requests) \in Nat
  BY OverlapTypes
<1>4. /\ IsFiniteSet(contracts') /\ IsFiniteSet(Generating')
      /\ Cardinality(contracts') \in Nat /\ Cardinality(Generating') \in Nat
  BY <1>3, OverlapTypes, FS_Subset, FS_CardinalityType
<1> QED BY <1>1, <1>2, <1>3, <1>4 DEF OverlapBound

\* Two actions make a contract or a generation; the others make neither.
LEMMA OverlapOthers ==
    ASSUME IInv, [Next]_vars,
           ~ \E q \in Requests : InsertContract(q) \/ FindContract(q)
    PROVE  contracts' \subseteq contracts /\ Generating' \subseteq Generating
<1> USE DEF IInv, gateVars, sideVars, rowVars, Generating, At
<1>1. ASSUME ReservationChanges
      PROVE  contracts' \subseteq contracts /\ Generating' \subseteq Generating
  BY <1>1
     DEF ReservationChanges, ContractTypeOK
<1>2. ASSUME KycChanges
      PROVE  contracts' \subseteq contracts /\ Generating' \subseteq Generating
  BY <1>2
     DEF KycChanges, ContractTypeOK
<1>3. ASSUME NEW q \in Requests, StartGenerate(q)
      PROVE  contracts' \subseteq contracts /\ Generating' \subseteq Generating
  BY <1>3, GotoFields, FinishFields, RequestFields
     DEF StartGenerate, Idle, ContractTypeOK
<1>4. ASSUME NEW q \in Requests, NEW d \in Docs, RenderContract(q, d)
      PROVE  contracts' \subseteq contracts /\ Generating' \subseteq Generating
  BY <1>4, GotoFields, FinishFields, RequestFields
     DEF RenderContract, NewKey, Idle, ContractTypeOK
<1>5. ASSUME NEW q \in Requests, NEW d \in Docs, NEW force \in BOOLEAN,
             RegenerateRead(q, d, force)
      PROVE  contracts' \subseteq contracts /\ Generating' \subseteq Generating
  BY <1>5, GotoFields, FinishFields, RequestFields
     DEF RegenerateRead, IsLatest, Idle, ContractTypeOK
<1>6. ASSUME NEW q \in Requests, RegenerateNone(q)
      PROVE  contracts' \subseteq contracts /\ Generating' \subseteq Generating
  BY <1>6, GotoFields, FinishFields, RequestFields
     DEF RegenerateNone, StartGenerate, Idle, ContractTypeOK
<1>7. ASSUME NEW q \in Requests, DeleteContract(q)
      PROVE  contracts' \subseteq contracts /\ Generating' \subseteq Generating
  BY <1>7, GotoFields, FinishFields, RequestFields
     DEF DeleteContract, Idle, ContractTypeOK
<1>8. ASSUME NEW q \in Requests, PurgeFile(q)
      PROVE  contracts' \subseteq contracts /\ Generating' \subseteq Generating
  BY <1>8, GotoFields, FinishFields, RequestFields
     DEF PurgeFile, Idle, ContractTypeOK
<1>9. ASSUME NEW q \in Requests, NEW d \in Docs, NEW signer \in SignerTypes,
             SignRead(q, d, signer)
      PROVE  contracts' \subseteq contracts /\ Generating' \subseteq Generating
  BY <1>9, GotoFields, FinishFields, RequestFields
     DEF SignRead, Idle, ContractTypeOK
<1>10. ASSUME NEW q \in Requests, CheckIdentity(q)
      PROVE  contracts' \subseteq contracts /\ Generating' \subseteq Generating
  BY <1>10, GotoFields, FinishFields, RequestFields
     DEF CheckIdentity, Idle, ContractTypeOK
<1>11. ASSUME NEW q \in Requests, InsertSignature(q)
      PROVE  contracts' \subseteq contracts /\ Generating' \subseteq Generating
  BY <1>11, GotoFields, FinishFields, RequestFields
     DEF InsertSignature, Idle, ContractTypeOK
<1>12. ASSUME NEW q \in Requests, RereadSignatures(q)
      PROVE  contracts' \subseteq contracts /\ Generating' \subseteq Generating
  BY <1>12, GotoFields, FinishFields, RequestFields
     DEF RereadSignatures, Idle, ContractTypeOK
<1>13. ASSUME NEW q \in Requests, Countersign(q)
      PROVE  contracts' \subseteq contracts /\ Generating' \subseteq Generating
  BY <1>13, GotoFields, FinishFields, RequestFields
     DEF Countersign, Idle, ContractTypeOK
<1>14. ASSUME NEW q \in Requests, RequestAborts(q)
      PROVE  contracts' \subseteq contracts /\ Generating' \subseteq Generating
  BY <1>14, GotoFields, FinishFields, RequestFields
     DEF RequestAborts, Idle, ContractTypeOK
<1>15. CASE UNCHANGED vars
  BY <1>15
     DEF vars
<1> QED
  BY <1>1, <1>2, <1>3, <1>4, <1>5, <1>6, <1>7, <1>8, <1>9, <1>10, <1>11,
     <1>12, <1>13, <1>14, <1>15
     DEF Next, Generate, Regenerate, Sign, SignStep

\* Every step keeps the bound.
LEMMA OverlapStep ==
    ASSUME IInv, OverlapBound, [Next]_vars
    PROVE  OverlapBound'
<1>1. ContractTypeOK /\ ContractTypeOK'
  BY TypeStep DEF IInv
<1>2. ASSUME NEW q \in Requests, FindContract(q)
      PROVE  OverlapBound'
  <2>1. CASE contracts = {}
    <3>1. contracts' = {} /\ Generating' \subseteq Requests
      BY <1>2, <2>1 DEF FindContract, rowVars, Generating
    <3>2. Cardinality(Generating') <= Cardinality(Requests)
      BY <3>1, FS_Subset, ContractAssumption
    <3>3. Cardinality(contracts') = 0
      BY <3>1, FS_EmptySet
    <3>4. Cardinality(Generating') \in Nat /\ Cardinality(Requests) \in Nat
      BY <3>1, FS_Subset, FS_CardinalityType, ContractAssumption
    <3> QED BY <3>2, <3>3, <3>4 DEF OverlapBound
  <2>2. CASE contracts # {}
    <3>1. Finish(q) /\ contracts' = contracts
      BY <1>2, <2>2 DEF FindContract, rowVars
    <3>2. Generating' \subseteq Generating
      BY <1>1, <3>1, FinishFields DEF Generating, Idle
    <3> QED BY <1>1, <3>1, <3>2, OverlapShrinks
  <2> QED BY <2>1, <2>2
<1>3. ASSUME NEW q \in Requests, InsertContract(q)
      PROVE  OverlapBound'
  <2>1. q \in Generating /\ Finish(q) /\ contracts' = contracts \cup {request[q].doc}
    BY <1>3 DEF InsertContract, Generating, At
  <2>2. Generating' = Generating \ {q}
    BY <1>1, <2>1, FinishFields DEF Generating, Idle
  <2>3. Cardinality(Generating') = Cardinality(Generating) - 1
    BY <1>1, <2>1, <2>2, OverlapTypes, FS_RemoveElement
  <2>4. /\ Cardinality(contracts) \in Nat /\ Cardinality(Generating) \in Nat
        /\ Cardinality(Requests) \in Nat
    BY <1>1, OverlapTypes
  <2>5. Cardinality(contracts') = IF request[q].doc \in contracts
                                  THEN Cardinality(contracts)
                                  ELSE Cardinality(contracts) + 1
    BY <1>1, <2>1, OverlapTypes, FS_AddElement, Zenon
  <2>6. Cardinality(contracts') \in Nat
    BY <1>1, <2>1, OverlapTypes, FS_AddElement, FS_CardinalityType
  <2>7. Cardinality(contracts') <= Cardinality(contracts) + 1
    BY <2>4, <2>5
  <2> QED BY <2>3, <2>4, <2>6, <2>7 DEF OverlapBound
<1>4. CASE ~ \E q \in Requests : InsertContract(q) \/ FindContract(q)
  BY <1>1, <1>4, OverlapOthers, OverlapShrinks
<1> QED BY <1>2, <1>3, <1>4

\* There are no more contracts at a time than overlapping requests
\* (generateBuyerContract).
THEOREM DuplicatesAreBounded == Spec => []DuplicatesNeedOverlap
<1>1. Init => OverlapBound
  <2> SUFFICES ASSUME Init PROVE OverlapBound
    OBVIOUS
  <2>1. contracts = {} /\ Generating = {}
    BY DEF Init, Generating, Idle
  <2>2. Cardinality(contracts) = 0 /\ Cardinality(Generating) = 0
    BY <2>1, FS_EmptySet
  <2>3. Cardinality(Requests) \in Nat
    BY FS_CardinalityType, ContractAssumption
  <2> QED BY <2>2, <2>3 DEF OverlapBound
<1>2. IInv /\ OverlapBound /\ [Next]_vars => OverlapBound'
  BY OverlapStep
<1>3. IInv /\ OverlapBound => DuplicatesNeedOverlap
  BY OverlapTypes DEF IInv, OverlapBound, DuplicatesNeedOverlap
<1> QED BY SpecInv, <1>1, <1>2, <1>3, PTL DEF Spec

-----------------------------------------------------------------------------
(* What the signature of an owner can be lost to.                          *)

\* A regeneration about to delete a contract its owner has signed by now has
\* been overtaken by the signature.
OvertakenInv ==
    \A q \in Requests :
        At(q, "delete") /\ SignedBy(request[q].doc, Owner) => q \in overtaken

\* A request comes to "delete" on a contract its owner has not signed, and
\* stays there until it deletes it or dies (regenerateBuyerContract).
LEMMA DeletionStartsUnsigned ==
    ASSUME ContractTypeOK, Next, NEW q \in Requests, request'[q].step = "delete"
    PROVE  \/ request'[q] = request[q]
           \/ <<request'[q].doc, Owner>> \notin signatures'
<1> USE DEF ContractTypeOK
<1>1. CASE ReservationChanges \/ KycChanges
  BY <1>1 DEF ReservationChanges, KycChanges
<1>2. ASSUME NEW p \in Requests, NEW d \in Docs, NEW force \in BOOLEAN,
             RegenerateRead(p, d, force)
      PROVE  \/ request'[q] = request[q]
             \/ <<request'[q].doc, Owner>> \notin signatures'
  <2>1. signatures' = signatures /\ <<d, Owner>> \notin signatures
    BY <1>2 DEF RegenerateRead, rowVars, SignedBy
  <2>2. CASE p = q
    <3>1. request'[q].doc = d
      BY <1>2, <2>2 DEF RegenerateRead, Idle
    <3> QED BY <2>1, <3>1
  <2>3. CASE p # q
    BY <1>2, <2>3 DEF RegenerateRead
  <2> QED BY <2>2, <2>3
<1>3. ASSUME NEW p \in Requests, NEW d \in Docs, RenderContract(p, d)
      PROVE  request'[q] = request[q]
  BY <1>3 DEF RenderContract
<1>4. ASSUME NEW p \in Requests, NEW d \in Docs, NEW signer \in SignerTypes,
             SignRead(p, d, signer)
      PROVE  request'[q] = request[q]
  BY <1>4 DEF SignRead
<1>5. ASSUME NEW p \in Requests, StartGenerate(p) \/ RegenerateNone(p) \/ PurgeFile(p)
      PROVE  request'[q] = request[q]
  BY <1>5 DEF StartGenerate, RegenerateNone, PurgeFile, Idle
<1>6. ASSUME NEW p \in Requests,
             \/ FindContract(p) \/ InsertContract(p) \/ DeleteContract(p)
             \/ CheckIdentity(p) \/ InsertSignature(p) \/ RereadSignatures(p)
             \/ Countersign(p) \/ RequestAborts(p)
      PROVE  request'[q] = request[q]
  <2>1. PICK step \in {"render", "purge", "sign", "reread", "seal"} :
           Finish(p) \/ Goto(p, step)
    BY <1>6 DEF FindContract, InsertContract, DeleteContract, CheckIdentity,
                InsertSignature, RereadSignatures, Countersign, RequestAborts
  <2>2. request'[p].step # "delete"
    BY <2>1, GotoFields, FinishFields DEF Idle
  <2>3. p # q
    BY <2>2
  <2> QED BY <2>1, <2>3 DEF Finish, Goto
<1> QED
  BY <1>1, <1>2, <1>3, <1>4, <1>5, <1>6
     DEF Next, Generate, Regenerate, Sign, SignStep

\* A signature that overtakes a deletion is remembered as long as the
\* deletion is pending.
LEMMA OvertakenStep ==
    ASSUME ContractTypeOK, OvertakenInv, [Next /\ Overtakes]_historyVars
    PROVE  OvertakenInv'
<1>1. CASE UNCHANGED historyVars
  BY <1>1 DEF historyVars, vars, rowVars, OvertakenInv, At, SignedBy
<1>2. CASE Next /\ Overtakes
  <2> SUFFICES ASSUME NEW q \in Requests, request'[q].step = "delete",
                      <<request'[q].doc, Owner>> \in signatures'
               PROVE  q \in overtaken'
    BY DEF OvertakenInv, At, SignedBy
  <2>1. request'[q] = request[q]
    BY <1>2, DeletionStartsUnsigned
  <2>2. <<request[q].doc, Owner>> \in signatures => q \in overtaken
    BY <2>1 DEF OvertakenInv, At, SignedBy
  <2> QED BY <1>2, <2>1, <2>2 DEF Overtakes, SignedBy
<1> QED BY <1>1, <1>2

\* The body of ErasedByOvertakenOnly, as a formula on one step.
ErasedStep ==
    \A d \in Docs :
        SignedBy(d, Owner) /\ ~SignedBy(d, Owner)'
          => \E q \in overtaken : At(q, "delete") /\ request[q].doc = d

\* Signatures are erased by the deletion of their own contract only.
LEMMA ErasedStepHolds ==
    ASSUME OvertakenInv, Next
    PROVE  ErasedStep
<1> SUFFICES ASSUME NEW d \in Docs, <<d, Owner>> \in signatures,
                    <<d, Owner>> \notin signatures'
             PROVE  \E q \in overtaken : At(q, "delete") /\ request[q].doc = d
  BY DEF ErasedStep, SignedBy
<1>1. ASSUME NEW q \in Requests, DeleteContract(q)
      PROVE  \E p \in overtaken : At(p, "delete") /\ request[p].doc = d
  <2>1. At(q, "delete") /\ request[q].doc = d
    BY <1>1 DEF DeleteContract
  <2> QED BY <2>1 DEF OvertakenInv, SignedBy
<1>2. ASSUME ~ \E q \in Requests : DeleteContract(q)
      PROVE  FALSE
  BY <1>2 DEF Next, Generate, Regenerate, Sign, SignStep, ReservationChanges, KycChanges,
              StartGenerate, FindContract, RenderContract, InsertContract,
              RegenerateRead, RegenerateNone, PurgeFile, SignRead, CheckIdentity,
              InsertSignature, RereadSignatures, Countersign, RequestAborts, rowVars
<1> QED BY <1>1, <1>2

\* The history variable constrains no behaviour of the service.
LEMMA HistoryIsService == HistorySpec => Spec
<1>1. HistoryInit => Init
  BY DEF HistoryInit
<1>2. [Next /\ Overtakes]_historyVars => [Next]_vars
  BY DEF historyVars
<1> QED BY <1>1, <1>2, PTL DEF HistorySpec, Spec

\* "On n'écrase jamais une signature acheteur": only a regeneration that read
\* the contract before its owner signed erases the signature.
THEOREM SignatureErased == HistorySpec => ErasedByOvertakenOnly
<1>1. HistoryInit => OvertakenInv
  BY DEF HistoryInit, Init, OvertakenInv, At, Idle
<1>2. ContractTypeOK /\ OvertakenInv /\ [Next /\ Overtakes]_historyVars => OvertakenInv'
  BY OvertakenStep
<1>3. OvertakenInv /\ [Next /\ Overtakes]_historyVars => [ErasedStep]_historyVars
  BY ErasedStepHolds
<1> QED
  BY <1>1, <1>2, <1>3, HistoryIsService, ContractType, PTL
     DEF HistorySpec, ErasedByOvertakenOnly, ErasedStep

=============================================================================
