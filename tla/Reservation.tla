---------------------------- MODULE Reservation ----------------------------
(***************************************************************************)
(* The reservation service: how a unit is reserved (Redis lock, database   *)
(* transaction, delayed BullMQ job, payment schedule), how the hold ends   *)
(* (expiration job, cancellation, confirmation by a payment) and how an    *)
(* administrator overrides it.                                             *)
(*                                                                         *)
(* Every handler is asynchronous: it keeps what it has read across awaits  *)
(* while other handlers run, so that a read and the transaction that       *)
(* follows it are two actions.  Any handler may be abandoned between two   *)
(* of its steps (process crash, database or Redis error); what it has      *)
(* committed stays.  Requests that are refused before they write anything  *)
(* (404, 403, 409, KYC postponement of the job) are stuttering steps.      *)
(* A "Fault" is a plausible bug of the operation that follows it, as in    *)
(* UnitLedger.                                                             *)
(***************************************************************************)
EXTENDS UnitLedger

CONSTANTS
    Users,      \* buyers
    Handlers    \* HTTP requests on existing reservations in flight at once

ASSUME ActorsAssumption ==
    /\ None \notin Users
    /\ None \notin Reservations

VARIABLES
    userOf,     \* Reservation.userId
    scheduled,  \* reservations with a PaymentSchedule row
    opened,     \* reservations whose deposit has had a payment session
    kyc,        \* User.kycStatus
    lock,       \* Redis: value of lock:unit:<id>, the token of its holder
    job,        \* BullMQ: the expire-reservation job of a reservation
    stalled,    \* BullMQ: jobs whose worker has died once already
    attempt,    \* progress of createReservationCore, one call per id; the
                \* id also stands for the random token of the call's lock
    call        \* cancelReservation or adminSetStatus past their checks

vars == <<ledgerVars, userOf, scheduled, opened, kyc, lock, job, stalled, attempt, call>>

KycStatuses == {"NON_SOUMIS", "EN_ATTENTE", "VALIDE", "REJETE"}

JobStates == {"none", "delayed", "active", "completed", "failed"}

AttemptStates ==
    {"idle", "locked", "committed", "queued", "refused", "created", "ended"}

Idle == [op |-> "idle", res |-> None, target |-> "none"]

Calls ==
    [op : {"cancel"}, res : Reservations, target : {"ANNULEE"}]
        \cup [op : {"setStatus"}, res : Reservations, target : ReservationStatuses]

TypeOK ==
    /\ LedgerTypeOK
    /\ userOf \in [Reservations -> Users \cup {None}]
    /\ scheduled \subseteq Reservations
    /\ opened \subseteq Reservations
    /\ kyc \in [Users -> KycStatuses]
    /\ lock \in [Units -> Reservations \cup {None}]
    /\ job \in [Reservations -> JobStates]
    /\ stalled \subseteq Reservations
    /\ attempt \in [Reservations -> [step : AttemptStates, unit : Units \cup {None}]]
    /\ call \in [Handlers -> Calls \cup {Idle}]

Init ==
    /\ LedgerInit
    /\ userOf = [r \in Reservations |-> None]
    /\ scheduled = {}
    /\ opened = {}
    /\ kyc = [usr \in Users |-> "NON_SOUMIS"]
    /\ lock = [u \in Units |-> None]
    /\ job = [r \in Reservations |-> "none"]
    /\ stalled = {}
    /\ attempt = [r \in Reservations |-> [step |-> "idle", unit |-> None]]
    /\ call = [h \in Handlers |-> Idle]

-----------------------------------------------------------------------------
(* createReservationCore and its callers, reserveUnit and the admin route. *)

Advance(r, step) == attempt' = [attempt EXCEPT ![r].step = step]

\* SET lock:unit:<u> <token> PX 10000 NX.  A lock that is taken is a 409 at
\* once: the request changes nothing and is not retried by the server.
AcquireLock(r, u, usr) ==
    /\ attempt[r].step = "idle"
    /\ lock[u] = None
    /\ lock' = [lock EXCEPT ![u] = r]
    /\ attempt' = [attempt EXCEPT ![r] = [step |-> "locked", unit |-> u]]
    /\ userOf' = [userOf EXCEPT ![r] = usr]
    /\ UNCHANGED <<ledgerVars, scheduled, opened, kyc, job, stalled, call>>

\* The 10 s of the lock are not tied to the progress of its holder.
LockExpires(u) ==
    /\ lock[u] # None
    /\ lock' = [lock EXCEPT ![u] = None]
    /\ UNCHANGED <<ledgerVars, userOf, scheduled, opened, kyc, job, stalled, attempt, call>>

CommitReservation(r) ==
    /\ attempt[r].step = "locked"
    /\ ReserveTx(r, attempt[r].unit)
    /\ Advance(r, "committed")
    /\ UNCHANGED <<userOf, scheduled, opened, kyc, lock, job, stalled, call>>

\* updateMany hit no row: 409, after the finally block.
UnitNotAvailable(r) ==
    /\ attempt[r].step = "locked"
    /\ unitStatus[attempt[r].unit] # "DISPONIBLE"
    /\ Advance(r, "refused")
    /\ UNCHANGED <<ledgerVars, userOf, scheduled, opened, kyc, lock, job, stalled, call>>

\* expirationQueue.add: the only place where the job is ever created.
EnqueueExpiration(r) ==
    /\ attempt[r].step = "committed"
    /\ job' = [job EXCEPT ![r] = "delayed"]
    /\ Advance(r, "queued")
    /\ UNCHANGED <<ledgerVars, userOf, scheduled, opened, kyc, lock, stalled, call>>

\* Fault: the error of queue.add is swallowed, the request goes on.
FaultEnqueueSwallowed(r) ==
    /\ attempt[r].step = "committed"
    /\ Advance(r, "queued")
    /\ UNCHANGED <<ledgerVars, userOf, scheduled, opened, kyc, lock, job, stalled, call>>

\* queue.add throws (Redis unreachable): the reservation stays committed.
EnqueueFails(r) ==
    /\ attempt[r].step = "committed"
    /\ Advance(r, "refused")
    /\ UNCHANGED <<ledgerVars, userOf, scheduled, opened, kyc, lock, job, stalled, call>>

\* The finally block: DEL the key if it still holds this call's token.
ReleaseLock(r) ==
    /\ attempt[r].step \in {"queued", "refused"}
    /\ lock' = [u \in Units |->
                   IF u = attempt[r].unit /\ lock[u] = r THEN None ELSE lock[u]]
    /\ Advance(r, IF attempt[r].step = "queued" THEN "created" ELSE "ended")
    /\ UNCHANGED <<ledgerVars, userOf, scheduled, opened, kyc, job, stalled, call>>

\* paymentService.generateSchedule, called by both routes once the core has
\* returned.
GenerateSchedule(r) ==
    /\ attempt[r].step = "created"
    /\ scheduled' = scheduled \cup {r}
    /\ Advance(r, "ended")
    /\ UNCHANGED <<ledgerVars, userOf, opened, kyc, lock, job, stalled, call>>

\* The request dies between two of its steps (its lock is left to the TTL).
AttemptAborts(r) ==
    /\ attempt[r].step \notin {"idle", "ended"}
    /\ Advance(r, "ended")
    /\ UNCHANGED <<ledgerVars, userOf, scheduled, opened, kyc, lock, job, stalled, call>>

-----------------------------------------------------------------------------
(* The worker of the queue reservation-expiration (concurrency 1).         *)

WorkerFree == \A r \in Reservations : job[r] # "active"

KycUnderReview(r) == kyc[userOf[r]] = "EN_ATTENTE"

\* Fault: the job does not look whether the reservation was confirmed.
FaultExpireBlindly(r) ==
    /\ job[r] = "delayed" /\ WorkerFree
    /\ status[r] # "ANNULEE"
    /\ ~KycUnderReview(r)
    /\ job' = [job EXCEPT ![r] = "active"]
    /\ UNCHANGED <<ledgerVars, userOf, scheduled, opened, kyc, lock, stalled, attempt, call>>

\* process: the reservation is read as EN_ATTENTE, and the buyer's identity
\* is not under review (else the job goes back to "delayed" for an hour).
ExpireRead(r) ==
    /\ job[r] = "delayed" /\ WorkerFree
    /\ status[r] = "EN_ATTENTE"
    /\ ~KycUnderReview(r)
    /\ job' = [job EXCEPT ![r] = "active"]
    /\ UNCHANGED <<ledgerVars, userOf, scheduled, opened, kyc, lock, stalled, attempt, call>>

\* process: any other status ends the job.
ExpireSkip(r) ==
    /\ job[r] = "delayed" /\ WorkerFree
    /\ status[r] # "EN_ATTENTE"
    /\ job' = [job EXCEPT ![r] = "completed"]
    /\ UNCHANGED <<ledgerVars, userOf, scheduled, opened, kyc, lock, stalled, attempt, call>>

\* Fault: the two updates are not one transaction, the second one is lost.
FaultExpireHalf(r) ==
    /\ job[r] = "active"
    /\ status' = [status EXCEPT ![r] = "ANNULEE"]
    /\ job' = [job EXCEPT ![r] = "completed"]
    /\ UNCHANGED <<unitStatus, unitOf, edited, userOf, scheduled, opened, kyc, lock,
                   stalled, attempt, call>>

\* The transaction of the job does not look at the status again.
ExpireCommit(r) ==
    /\ job[r] = "active"
    /\ CancelTx(r)
    /\ job' = [job EXCEPT ![r] = "completed"]
    /\ UNCHANGED <<userOf, scheduled, opened, kyc, lock, stalled, attempt, call>>

\* process throws: the queue sets no "attempts", the job is not run again.
JobFails(r) ==
    /\ job[r] = "active"
    /\ job' = [job EXCEPT ![r] = "failed"]
    /\ UNCHANGED <<ledgerVars, userOf, scheduled, opened, kyc, lock, stalled, attempt, call>>

\* Fault: a job is acknowledged when it is taken, and is lost with its worker.
FaultJobDiesWithWorker(r) ==
    /\ job[r] = "active"
    /\ job' = [job EXCEPT ![r] = "completed"]
    /\ UNCHANGED <<ledgerVars, userOf, scheduled, opened, kyc, lock, stalled, attempt, call>>

\* The worker's process dies: BullMQ reruns a stalled job once, then fails it.
WorkerDies(r) ==
    /\ job[r] = "active"
    /\ job' = [job EXCEPT ![r] = IF r \in stalled THEN "failed" ELSE "delayed"]
    /\ stalled' = stalled \cup {r}
    /\ UNCHANGED <<ledgerVars, userOf, scheduled, opened, kyc, lock, attempt, call>>

-----------------------------------------------------------------------------
(* cancelReservation.                                                      *)

CancelRead(h, r, usr) ==
    /\ call[h] = Idle
    /\ Created(r) /\ userOf[r] = usr
    /\ status[r] = "EN_ATTENTE"
    /\ call' = [call EXCEPT ![h] = [op |-> "cancel", res |-> r, target |-> "ANNULEE"]]
    /\ UNCHANGED <<ledgerVars, userOf, scheduled, opened, kyc, lock, job, stalled, attempt>>

CancelCommit(h) ==
    /\ call[h].op = "cancel"
    /\ CancelTx(call[h].res)
    /\ call' = [call EXCEPT ![h] = Idle]
    /\ UNCHANGED <<userOf, scheduled, opened, kyc, lock, job, stalled, attempt>>

-----------------------------------------------------------------------------
(* The payment of the deposit, as far as reservations can see it (module   *)
(* Payment has the rest).                                                  *)

\* initiatePayment of the deposit: its checks on the buyer and the status.
OpenDeposit(r) ==
    /\ r \in scheduled
    /\ status[r] # "ANNULEE"
    /\ kyc[userOf[r]] = "VALIDE"
    /\ opened' = opened \cup {r}
    /\ UNCHANGED <<ledgerVars, userOf, scheduled, kyc, lock, job, stalled, attempt, call>>

\* confirmReservation, called by markInstallmentPaid when a provider reports
\* the deposit paid, however late, and whatever the reservation's status.
ConfirmReservation(r) ==
    /\ r \in opened
    /\ ConfirmTx(r)
    /\ UNCHANGED <<userOf, scheduled, opened, kyc, lock, job, stalled, attempt, call>>

-----------------------------------------------------------------------------
(* adminSetStatus.                                                         *)

SetStatusRead(h, r, target) ==
    /\ call[h] = Idle
    /\ Created(r) /\ status[r] # target
    /\ call' = [call EXCEPT ![h] = [op |-> "setStatus", res |-> r, target |-> target]]
    /\ UNCHANGED <<ledgerVars, userOf, scheduled, opened, kyc, lock, job, stalled, attempt>>

SetStatusCommit(h) ==
    LET r == call[h].res
        target == call[h].target
    IN  /\ call[h].op = "setStatus"
        /\ \/ target = "CONFIRMEE" /\ ConfirmTx(r)
           \/ target = "ANNULEE" /\ CancelTx(r)
           \/ target \in {"EN_ATTENTE", "LIVREE"} /\ SetStatusTx(r, target)
        /\ call' = [call EXCEPT ![h] = Idle]
        /\ UNCHANGED <<userOf, scheduled, opened, kyc, lock, job, stalled, attempt>>

CallAborts(h) ==
    /\ call[h] # Idle
    /\ call' = [call EXCEPT ![h] = Idle]
    /\ UNCHANGED <<ledgerVars, userOf, scheduled, opened, kyc, lock, job, stalled, attempt>>

\* ProjectService.updateUnit with a status in the body.
EditUnit(u, s) ==
    /\ UpdateUnit(u, s)
    /\ UNCHANGED <<userOf, scheduled, opened, kyc, lock, job, stalled, attempt, call>>

-----------------------------------------------------------------------------
(* The identity check, as far as the expiration job can see it.            *)

\* uploadKyc puts the account under review, whatever its status was.
SubmitKyc(usr) ==
    /\ kyc' = [kyc EXCEPT ![usr] = "EN_ATTENTE"]
    /\ UNCHANGED <<ledgerVars, userOf, scheduled, opened, lock, job, stalled, attempt, call>>

\* approve or reject of a submitted batch.  A batch already rejected is
\* refused, but two reviewers may both have read it before either wrote.
ReviewKyc(usr, verdict) ==
    /\ kyc[usr] # "NON_SOUMIS"
    /\ kyc' = [kyc EXCEPT ![usr] = verdict]
    /\ UNCHANGED <<ledgerVars, userOf, scheduled, opened, lock, job, stalled, attempt, call>>

-----------------------------------------------------------------------------

AttemptStep(r) ==
    \/ CommitReservation(r)
    \/ UnitNotAvailable(r)
    \/ EnqueueExpiration(r)
    \/ EnqueueFails(r)
    \/ ReleaseLock(r)
    \/ GenerateSchedule(r)

Reserve ==
    \E r \in Reservations :
        \/ \E u \in Units, usr \in Users : AcquireLock(r, u, usr)
        \/ AttemptStep(r)
        \/ AttemptAborts(r)

Worker ==
    \E r \in Reservations :
        \/ ExpireRead(r)
        \/ ExpireSkip(r)
        \/ ExpireCommit(r)
        \/ JobFails(r)
        \/ WorkerDies(r)

Cancel ==
    \E h \in Handlers :
        \/ \E r \in Reservations, usr \in Users : CancelRead(h, r, usr)
        \/ CancelCommit(h)

Admin ==
    \/ \E h \in Handlers :
          \/ \E r \in Reservations, s \in ReservationStatuses : SetStatusRead(h, r, s)
          \/ SetStatusCommit(h)
    \/ \E u \in Units, s \in EditStatuses : EditUnit(u, s)

Kyc ==
    \E usr \in Users :
        \/ SubmitKyc(usr)
        \/ \E verdict \in {"VALIDE", "REJETE"} : ReviewKyc(usr, verdict)

\* Without any intervention of the back office on the sale itself.
BuyerNext ==
    \/ Reserve
    \/ Worker
    \/ Cancel
    \/ \E r \in Reservations : OpenDeposit(r) \/ ConfirmReservation(r)
    \/ \E h \in Handlers : CallAborts(h)
    \/ \E u \in Units : LockExpires(u)
    \/ Kyc

Next == BuyerNext \/ Admin

BuyerSpec == Init /\ [][BuyerNext]_vars

Spec == Init /\ [][Next]_vars

\* A request that has started goes on or is abandoned; the worker takes the
\* jobs whose delay is over; Redis drops a key whose TTL has run out.
\* Nothing is assumed of buyers, administrators, the KYC review, nor of
\* failures.
Fairness ==
    /\ \A r \in Reservations :
          /\ WF_vars(AttemptStep(r))
          /\ WF_vars(ExpireRead(r))
          /\ WF_vars(ExpireSkip(r))
          /\ WF_vars(ExpireCommit(r))
    /\ \A h \in Handlers : WF_vars(CancelCommit(h) \/ SetStatusCommit(h))
    /\ \A u \in Units : WF_vars(LockExpires(u))

FairSpec == Spec /\ Fairness

-----------------------------------------------------------------------------
(* What the service guarantees, whatever the interleaving and the crashes. *)

\* A reservation that can be paid can also expire: no schedule exists for a
\* reservation whose expiration job was never queued (a failure between the
\* commit and queue.add leaves the buyer without any way to pay).
PayableHoldIsArmed == \A r \in scheduled : job[r] # "none"

\* A hold outlives no job that did its work: unless the back office reopens
\* it, a reservation is not EN_ATTENTE once its job has completed, whatever
\* was confirmed or cancelled between what the job read and what it wrote.
CompletedJobSettled ==
    \A r \in Reservations : job[r] = "completed" => status[r] # "EN_ATTENTE"

\* The finally block never deletes the lock of somebody else: when this
\* call's lock has expired and another request has taken the unit's key,
\* the release leaves that key alone (RedisLockService.release).
ForeignLockKept ==
    [][\A r \in Reservations, u \in Units :
          /\ attempt[r].step \in {"queued", "refused"}
          /\ attempt'[r].step # attempt[r].step
          /\ lock[u] # r
          => lock'[u] = lock[u]]_vars

\* A pending reservation whose job is in the queue does not stay pending,
\* unless the buyer's identity is under review when the job looks, or the
\* job itself has failed (the worker's process method).
ArmedHoldSettles ==
    \A r \in Reservations :
        status[r] = "EN_ATTENTE" /\ job[r] \in {"delayed", "active"}
            ~> \/ status[r] # "EN_ATTENTE"
               \/ KycUnderReview(r)
               \/ job[r] = "failed"

=============================================================================
