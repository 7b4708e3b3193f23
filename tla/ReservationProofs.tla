------------------------- MODULE ReservationProofs -------------------------
(***************************************************************************)
(* The reservation service for every number of units, reservations, buyers *)
(* and concurrent requests: it is well typed, it implements the ledger     *)
(* (whence the ledger's theorems hold of it), a reservation with a payment *)
(* schedule has an expiration job, no request deletes another one's lock,  *)
(* a completed job leaves nothing pending, and only a handler that a       *)
(* confirmation overtook undoes it.                                        *)
(***************************************************************************)
EXTENDS ReservationHistory, UnitLedgerProofs

\* A call of createReservationCore knows its unit from its first step on.
AttemptHasUnit ==
    \A r \in Reservations : attempt[r].step # "idle" => attempt[r].unit \in Units

\* A call past queue.add has its job in the queue: without this part,
\* PayableHoldIsArmed is not preserved by GenerateSchedule.
QueuedAttemptIsArmed ==
    \A r \in Reservations : attempt[r].step \in {"queued", "created"} => job[r] # "none"

\* The inductive invariant.
IInv ==
    /\ TypeOK
    /\ AttemptHasUnit
    /\ QueuedAttemptIsArmed
    /\ PayableHoldIsArmed

-----------------------------------------------------------------------------
(* Every step of the service is a transaction of the ledger, or none.      *)

\* The actions that leave both tables alone.
Quiet ==
    \/ \E r \in Reservations :
          \/ \E u \in Units, usr \in Users : AcquireLock(r, u, usr)
          \/ UnitNotAvailable(r)
          \/ EnqueueExpiration(r)
          \/ EnqueueFails(r)
          \/ ReleaseLock(r)
          \/ GenerateSchedule(r)
          \/ AttemptAborts(r)
          \/ ExpireRead(r)
          \/ ExpireSkip(r)
          \/ JobFails(r)
          \/ WorkerDies(r)
    \/ \E h \in Handlers :
          \/ \E r \in Reservations, usr \in Users : CancelRead(h, r, usr)
          \/ \E r \in Reservations, s \in ReservationStatuses : SetStatusRead(h, r, s)
          \/ CallAborts(h)
    \/ \E u \in Units : LockExpires(u)
    \/ \E r \in Reservations : OpenDeposit(r)
    \/ Kyc

\* A quiet step changes neither table.
LEMMA QuietStep == Quiet => UNCHANGED ledgerVars
<1> SUFFICES ASSUME Quiet PROVE UNCHANGED ledgerVars
  OBVIOUS
<1>1. ASSUME NEW r \in Reservations,
             \/ \E u \in Units, usr \in Users : AcquireLock(r, u, usr)
             \/ UnitNotAvailable(r) \/ EnqueueExpiration(r) \/ EnqueueFails(r)
             \/ ReleaseLock(r) \/ GenerateSchedule(r) \/ AttemptAborts(r)
      PROVE  UNCHANGED ledgerVars
  BY <1>1 DEF AcquireLock, UnitNotAvailable, EnqueueExpiration, EnqueueFails,
              ReleaseLock, GenerateSchedule, AttemptAborts
<1>2. ASSUME NEW r \in Reservations,
             ExpireRead(r) \/ ExpireSkip(r) \/ JobFails(r) \/ WorkerDies(r)
      PROVE  UNCHANGED ledgerVars
  BY <1>2 DEF ExpireRead, ExpireSkip, JobFails, WorkerDies
<1>3. ASSUME NEW h \in Handlers,
             \/ \E r \in Reservations, usr \in Users : CancelRead(h, r, usr)
             \/ \E r \in Reservations, s \in ReservationStatuses : SetStatusRead(h, r, s)
             \/ CallAborts(h)
      PROVE  UNCHANGED ledgerVars
  BY <1>3 DEF CancelRead, SetStatusRead, CallAborts
<1>4. ASSUME NEW u \in Units, LockExpires(u)
      PROVE  UNCHANGED ledgerVars
  BY <1>4 DEF LockExpires
<1>5. CASE Kyc
  BY <1>5 DEF Kyc, SubmitKyc, ReviewKyc
<1>6. ASSUME NEW r \in Reservations, OpenDeposit(r)
      PROVE  UNCHANGED ledgerVars
  BY <1>6 DEF OpenDeposit
<1> QED
  BY <1>1, <1>2, <1>3, <1>4, <1>5, <1>6 DEF Quiet

\* The five actions that write, each inside its transaction, and the rest.
LEMMA NextCases ==
    Next <=> \/ Quiet
             \/ \E r \in Reservations :
                   CommitReservation(r) \/ ExpireCommit(r) \/ ConfirmReservation(r)
             \/ \E h \in Handlers : CancelCommit(h) \/ SetStatusCommit(h)
             \/ \E u \in Units, s \in EditStatuses : EditUnit(u, s)
BY DEF Next, BuyerNext, Reserve, AttemptStep, Worker, Cancel, Admin, Quiet

\* What a handler commits is a transaction of the ledger.
LEMMA LedgerStepOfNext ==
    ASSUME TypeOK, AttemptHasUnit, [Next]_vars
    PROVE  [LedgerNext]_ledgerVars
<1>1. ASSUME NEW r \in Reservations, CommitReservation(r)
      PROVE  LedgerNext
  <2>1. attempt[r].unit \in Units
    BY <1>1 DEF CommitReservation, AttemptHasUnit
  <2> QED BY <1>1, <2>1 DEF CommitReservation, LedgerNext
<1>2. ASSUME NEW r \in Reservations, ExpireCommit(r)
      PROVE  LedgerNext
  BY <1>2 DEF ExpireCommit, LedgerNext
<1>3. ASSUME NEW r \in Reservations, ConfirmReservation(r)
      PROVE  LedgerNext
  BY <1>3 DEF ConfirmReservation, LedgerNext
<1>4. ASSUME NEW h \in Handlers, CancelCommit(h)
      PROVE  LedgerNext
  <2>1. call[h].res \in Reservations
    BY <1>4 DEF CancelCommit, TypeOK, Calls, Idle
  <2> QED BY <1>4, <2>1 DEF CancelCommit, LedgerNext
<1>5. ASSUME NEW h \in Handlers, SetStatusCommit(h)
      PROVE  LedgerNext
  <2>1. call[h].res \in Reservations
    BY <1>5 DEF SetStatusCommit, TypeOK, Calls, Idle
  <2> QED BY <1>5, <2>1 DEF SetStatusCommit, LedgerNext
<1>6. ASSUME NEW u \in Units, NEW s \in EditStatuses, EditUnit(u, s)
      PROVE  LedgerNext
  BY <1>6 DEF EditUnit, LedgerNext
<1>7. CASE UNCHANGED vars
  BY <1>7 DEF vars
<1> QED
  BY <1>1, <1>2, <1>3, <1>4, <1>5, <1>6, <1>7, QuietStep, NextCases

-----------------------------------------------------------------------------
(* The inductive invariant.                                                *)

\* The invariant holds initially.
LEMMA InitInv == Init => IInv
<1> SUFFICES ASSUME Init PROVE IInv
  OBVIOUS
<1>1. LedgerTypeOK
  BY LedgerAssumption
     DEF Init, LedgerInit, LedgerTypeOK, Created, UnitStatuses, ReservationStatuses
<1>2. TypeOK
  BY <1>1 DEF Init, TypeOK, KycStatuses, JobStates, AttemptStates
<1> QED
  BY <1>2 DEF IInv, Init, AttemptHasUnit, QueuedAttemptIsArmed, PayableHoldIsArmed

\* Each action of the reservation requests preserves the invariant.
LEMMA ReserveInv ==
    ASSUME IInv, LedgerTypeOK', Reserve
    PROVE  IInv'
<1> USE ActorsAssumption
    DEF IInv, TypeOK, AttemptHasUnit, QueuedAttemptIsArmed, PayableHoldIsArmed, Advance,
        JobStates, AttemptStates
<1>1. ASSUME NEW r \in Reservations, NEW u \in Units, NEW usr \in Users,
             AcquireLock(r, u, usr)
      PROVE  IInv'
  BY <1>1 DEF AcquireLock
<1>2. ASSUME NEW r \in Reservations, CommitReservation(r)
      PROVE  IInv'
  BY <1>2 DEF CommitReservation
<1>3. ASSUME NEW r \in Reservations, UnitNotAvailable(r)
      PROVE  IInv'
  BY <1>3 DEF UnitNotAvailable
<1>4. ASSUME NEW r \in Reservations, EnqueueExpiration(r)
      PROVE  IInv'
  BY <1>4 DEF EnqueueExpiration
<1>5. ASSUME NEW r \in Reservations, EnqueueFails(r)
      PROVE  IInv'
  BY <1>5 DEF EnqueueFails
<1>6. ASSUME NEW r \in Reservations, ReleaseLock(r)
      PROVE  IInv'
  BY <1>6 DEF ReleaseLock
<1>7. ASSUME NEW r \in Reservations, GenerateSchedule(r)
      PROVE  IInv'
  BY <1>7 DEF GenerateSchedule
<1>8. ASSUME NEW r \in Reservations, AttemptAborts(r)
      PROVE  IInv'
  BY <1>8 DEF AttemptAborts
<1> QED
  BY <1>1, <1>2, <1>3, <1>4, <1>5, <1>6, <1>7, <1>8 DEF Reserve, AttemptStep

\* The worker moves a job from one state to another, never back to "none".
LEMMA WorkerInv ==
    ASSUME IInv, LedgerTypeOK', Worker
    PROVE  IInv'
<1> USE DEF IInv, TypeOK, AttemptHasUnit, QueuedAttemptIsArmed, PayableHoldIsArmed, JobStates
<1>1. ASSUME NEW r \in Reservations, ExpireRead(r) PROVE IInv'
  BY <1>1 DEF ExpireRead
<1>2. ASSUME NEW r \in Reservations, ExpireSkip(r) PROVE IInv'
  BY <1>2 DEF ExpireSkip
<1>3. ASSUME NEW r \in Reservations, ExpireCommit(r) PROVE IInv'
  BY <1>3 DEF ExpireCommit
<1>4. ASSUME NEW r \in Reservations, JobFails(r) PROVE IInv'
  BY <1>4 DEF JobFails
<1>5. ASSUME NEW r \in Reservations, WorkerDies(r) PROVE IInv'
  BY <1>5 DEF WorkerDies
<1> QED
  BY <1>1, <1>2, <1>3, <1>4, <1>5 DEF Worker

\* The other actions leave the locks, the jobs and the attempts alone, but
\* for the expiration of a lock.
LEMMA OtherInv ==
    ASSUME IInv, LedgerTypeOK',
           \/ Cancel
           \/ Admin
           \/ Kyc
           \/ \E r \in Reservations : OpenDeposit(r) \/ ConfirmReservation(r)
           \/ \E h \in Handlers : CallAborts(h)
           \/ \E u \in Units : LockExpires(u)
    PROVE  IInv'
<1> USE DEF IInv, TypeOK, AttemptHasUnit, QueuedAttemptIsArmed, PayableHoldIsArmed
<1>1. ASSUME NEW h \in Handlers, NEW r \in Reservations, NEW usr \in Users,
             CancelRead(h, r, usr)
      PROVE  IInv'
  BY <1>1 DEF CancelRead, Calls
<1>2. ASSUME NEW h \in Handlers, CancelCommit(h) PROVE IInv'
  BY <1>2 DEF CancelCommit
<1>3. ASSUME NEW h \in Handlers, NEW r \in Reservations, NEW s \in ReservationStatuses,
             SetStatusRead(h, r, s)
      PROVE  IInv'
  BY <1>3 DEF SetStatusRead, Calls
<1>4. ASSUME NEW h \in Handlers, SetStatusCommit(h) PROVE IInv'
  BY <1>4 DEF SetStatusCommit
<1>5. ASSUME NEW u \in Units, NEW s \in EditStatuses, EditUnit(u, s) PROVE IInv'
  BY <1>5 DEF EditUnit
<1>6. ASSUME NEW usr \in Users, SubmitKyc(usr) PROVE IInv'
  BY <1>6 DEF SubmitKyc, KycStatuses
<1>7. ASSUME NEW usr \in Users, NEW verdict \in {"VALIDE", "REJETE"}, ReviewKyc(usr, verdict)
      PROVE  IInv'
  BY <1>7 DEF ReviewKyc, KycStatuses
<1>8. ASSUME NEW r \in Reservations, ConfirmReservation(r) PROVE IInv'
  BY <1>8 DEF ConfirmReservation
<1>9. ASSUME NEW h \in Handlers, CallAborts(h) PROVE IInv'
  BY <1>9 DEF CallAborts
<1>10. ASSUME NEW u \in Units, LockExpires(u) PROVE IInv'
  BY <1>10 DEF LockExpires
<1>11. ASSUME NEW r \in Reservations, OpenDeposit(r) PROVE IInv'
  BY <1>11 DEF OpenDeposit
<1> QED
  BY <1>1, <1>2, <1>3, <1>4, <1>5, <1>6, <1>7, <1>8, <1>9, <1>10, <1>11
     DEF Cancel, Admin, Kyc

\* The invariant is inductive.
LEMMA NextInv ==
    ASSUME IInv, [Next]_vars
    PROVE  IInv'
<1>1. LedgerTypeOK'
  <2>1. [LedgerNext]_ledgerVars
    BY LedgerStepOfNext DEF IInv
  <2> QED BY <2>1, LedgerTypeStep DEF IInv, TypeOK
<1>2. CASE Next
  BY <1>1, <1>2, ReserveInv, WorkerInv, OtherInv DEF Next, BuyerNext
<1>3. CASE UNCHANGED vars
  BY <1>1, <1>3
     DEF vars, IInv, TypeOK, AttemptHasUnit, QueuedAttemptIsArmed, PayableHoldIsArmed
<1> QED
  BY <1>2, <1>3

\* The invariant holds in every reachable state.
LEMMA Invariant == Spec => []IInv
<1>1. IInv /\ [Next]_vars => IInv'
  BY NextInv
<1> QED
  BY <1>1, InitInv, PTL DEF Spec

-----------------------------------------------------------------------------
(* The theorems.                                                           *)

\* Type correctness: locks, jobs, calls and both tables.
THEOREM ReservationType == Spec => []TypeOK
<1>1. IInv => TypeOK
  BY DEF IInv
<1> QED
  BY <1>1, Invariant, PTL

\* No reservation can be paid whose expiration was never programmed,
\* wherever the request that created it failed.
THEOREM PayableIsArmed == Spec => []PayableHoldIsArmed
<1>1. IInv => PayableHoldIsArmed
  BY DEF IInv
<1> QED
  BY <1>1, Invariant, PTL

\* The service implements the ledger: whatever its interleavings, crashes
\* and stale reads, each of its steps is a transaction of UnitLedger or
\* leaves both tables alone.
THEOREM ReservationImplementsLedger == Spec => LedgerSpec
<1>1. Init => LedgerInit
  BY DEF Init
<1>2. IInv /\ [Next]_vars => [LedgerNext]_ledgerVars
  BY LedgerStepOfNext DEF IInv
<1> QED
  BY <1>1, <1>2, Invariant, PTL DEF Spec, LedgerSpec

\* No unit is held by nobody (inherited from the ledger).
THEOREM ReservationNoPhantomHold == Spec => []NoPhantomHold
BY ReservationImplementsLedger, LedgerNoPhantomHold, PTL

\* No double sale without a late write (inherited from the ledger).
THEOREM ReservationDoubleSale == Spec => DoubleSaleNeedsLateWrite
BY ReservationImplementsLedger, LedgerDoubleSale, PTL

\* The body of ForeignLockKept, as a formula on one step.
ForeignLockStep ==
    \A r \in Reservations, u \in Units :
        /\ attempt[r].step \in {"queued", "refused"}
        /\ attempt'[r].step # attempt[r].step
        /\ lock[u] # r
        => lock'[u] = lock[u]

\* Only the release and the abort of a call move it on from "queued" or
\* "refused"; the release compares tokens and the abort touches no lock.
LEMMA ForeignLockStepHolds ==
    ASSUME TypeOK, [Next]_vars
    PROVE  ForeignLockStep
<1> USE DEF TypeOK
<1> SUFFICES ASSUME NEW r \in Reservations, NEW u \in Units,
                    attempt[r].step \in {"queued", "refused"},
                    attempt'[r].step # attempt[r].step,
                    lock[u] # r
             PROVE  lock'[u] = lock[u]
  BY DEF ForeignLockStep
<1>1. CASE Reserve
  <2>1. ASSUME NEW q \in Reservations, ReleaseLock(q)
        PROVE  lock'[u] = lock[u]
    <3>1. q = r
      BY <2>1 DEF ReleaseLock, Advance
    <3> QED BY <2>1, <3>1 DEF ReleaseLock
  <2>2. ASSUME NEW q \in Reservations, NEW w \in Units, NEW usr \in Users,
               AcquireLock(q, w, usr)
        PROVE  lock'[u] = lock[u]
    BY <2>2 DEF AcquireLock
  <2>3. ASSUME NEW q \in Reservations,
               \/ CommitReservation(q) \/ UnitNotAvailable(q) \/ EnqueueExpiration(q)
               \/ EnqueueFails(q) \/ GenerateSchedule(q) \/ AttemptAborts(q)
        PROVE  lock'[u] = lock[u]
    BY <2>3 DEF CommitReservation, UnitNotAvailable, EnqueueExpiration, EnqueueFails,
                GenerateSchedule, AttemptAborts
  <2> QED BY <1>1, <2>1, <2>2, <2>3 DEF Reserve, AttemptStep
<1>2. CASE Worker
  BY <1>2 DEF Worker, ExpireRead, ExpireSkip, ExpireCommit, JobFails, WorkerDies
<1>3. CASE Cancel \/ Admin
  BY <1>3 DEF Cancel, Admin, CancelRead, CancelCommit, SetStatusRead, SetStatusCommit,
              EditUnit
<1>4. CASE \/ Kyc
           \/ \E q \in Reservations : OpenDeposit(q) \/ ConfirmReservation(q)
           \/ \E h \in Handlers : CallAborts(h)
           \/ \E w \in Units : LockExpires(w)
  BY <1>4 DEF Kyc, SubmitKyc, ReviewKyc, OpenDeposit, ConfirmReservation, CallAborts, LockExpires
<1>5. CASE UNCHANGED vars
  BY <1>5 DEF vars
<1> QED
  BY <1>1, <1>2, <1>3, <1>4, <1>5 DEF Next, BuyerNext

\* The release of a lock never takes away the lock of another request.
THEOREM ForeignLockIsKept == Spec => ForeignLockKept
<1>1. TypeOK /\ [Next]_vars => [ForeignLockStep]_vars
  BY ForeignLockStepHolds
<1> QED
  BY <1>1, ReservationType, PTL DEF Spec, ForeignLockKept, ForeignLockStep

-----------------------------------------------------------------------------
(* The end of a hold, without the back office.                             *)

\* A job is queued for a reservation that has its row.
JobHasRow == \A r \in Reservations : job[r] # "none" => Created(r)

CommittedHasRow == \A r \in Reservations : attempt[r].step = "committed" => Created(r)

SettledInv == JobHasRow /\ CommittedHasRow /\ CompletedJobSettled

\* What keeps the jobs, or completes one over a reservation that it left, keeps
\* the invariant, as long as no reservation is pending again.
LEMMA SettledKept ==
    ASSUME SettledInv,
           \A r \in Reservations : Created(r) => Created(r)',
           \A r \in Reservations :
              /\ job'[r] # job[r] => Created(r)
              /\ job'[r] = "completed" /\ status'[r] = "EN_ATTENTE"
                     => job[r] = "completed" /\ status[r] \in {"none", "EN_ATTENTE"}
              /\ attempt'[r].step = "committed" => attempt[r].step = "committed" \/ Created(r)'
    PROVE  SettledInv'
<1>1. JobHasRow' /\ CommittedHasRow'
  BY DEF SettledInv, JobHasRow, CommittedHasRow
<1>2. CompletedJobSettled'
  BY DEF SettledInv, JobHasRow, CompletedJobSettled, Created
<1> QED BY <1>1, <1>2 DEF SettledInv

\* The invariant is inductive with IInv, without the back office.
LEMMA SettledStep ==
    ASSUME IInv, SettledInv, [BuyerNext]_vars
    PROVE  SettledInv'
<1>0. /\ \A r \in Reservations : Created(r) => Created(r)'
      /\ status \in [Reservations -> ReservationStatuses \cup {"none"}]
      /\ job \in [Reservations -> JobStates]
      /\ attempt \in [Reservations -> [step : AttemptStates, unit : Units \cup {None}]]
  <2>1. [LedgerNext]_ledgerVars
    BY LedgerStepOfNext DEF IInv, Next
  <2> QED BY <2>1, RowsStay DEF IInv, TypeOK, LedgerTypeOK
<1>1. ASSUME NEW r \in Reservations, CommitReservation(r)
      PROVE  SettledInv'
  <2>1. ~Created(r) /\ status' = [status EXCEPT ![r] = "EN_ATTENTE"] /\ UNCHANGED job
    BY <1>1 DEF CommitReservation, ReserveTx
  <2>2. Created(r)'
    BY <1>0, <2>1 DEF Created
  <2>3. \A s \in Reservations \ {r} : attempt'[s] = attempt[s] /\ status'[s] = status[s]
    BY <1>0, <1>1, <2>1 DEF CommitReservation, Advance
  <2> QED
    BY <1>0, <2>1, <2>2, <2>3 DEF SettledInv, JobHasRow, CommittedHasRow, CompletedJobSettled,
       Created
<1>2. ASSUME NEW r \in Reservations,
             \/ \E u \in Units, usr \in Users : AcquireLock(r, u, usr)
             \/ UnitNotAvailable(r) \/ EnqueueFails(r) \/ ReleaseLock(r) \/ GenerateSchedule(r)
             \/ AttemptAborts(r)
      PROVE  SettledInv'
  <2>1. UNCHANGED <<status, job>>
    BY <1>2 DEF AcquireLock, UnitNotAvailable, EnqueueFails, ReleaseLock, GenerateSchedule,
       AttemptAborts, ledgerVars
  <2>2. \A s \in Reservations : attempt'[s].step = "committed" => attempt[s].step = "committed"
    BY <1>0, <1>2 DEF AcquireLock, UnitNotAvailable, EnqueueFails, ReleaseLock, GenerateSchedule,
       AttemptAborts, Advance
  <2> QED BY <1>0, <2>1, <2>2, SettledKept
<1>3. ASSUME NEW r \in Reservations, EnqueueExpiration(r)
      PROVE  SettledInv'
  <2>1. Created(r) /\ UNCHANGED status /\ job' = [job EXCEPT ![r] = "delayed"]
    BY <1>3 DEF EnqueueExpiration, ledgerVars, SettledInv, CommittedHasRow
  <2>2. \A s \in Reservations : attempt'[s].step = "committed" => attempt[s].step = "committed"
    BY <1>0, <1>3 DEF EnqueueExpiration, Advance
  <2>3. \A s \in Reservations : s # r => job'[s] = job[s]
    BY <1>0, <2>1
  <2>4. job'[r] = "delayed"
    BY <1>0, <2>1
  <2> QED BY <1>0, <2>1, <2>2, <2>3, <2>4, SettledKept
<1>4. ASSUME NEW r \in Reservations,
             ExpireRead(r) \/ ExpireSkip(r) \/ JobFails(r) \/ WorkerDies(r)
      PROVE  SettledInv'
  <2>1. UNCHANGED <<status, attempt>>
    BY <1>4 DEF ExpireRead, ExpireSkip, JobFails, WorkerDies, ledgerVars
  <2>2. /\ job[r] # "none"
        /\ job'[r] = "completed" => status[r] # "EN_ATTENTE"
        /\ \A s \in Reservations : s # r => job'[s] = job[s]
    BY <1>0, <1>4 DEF ExpireRead, ExpireSkip, JobFails, WorkerDies
  <2>3. Created(r)
    BY <2>2 DEF SettledInv, JobHasRow
  <2> QED BY <1>0, <2>1, <2>2, <2>3, SettledKept
<1>5. ASSUME NEW r \in Reservations, ExpireCommit(r)
      PROVE  SettledInv'
  <2>1. /\ Created(r) /\ status' = [status EXCEPT ![r] = "ANNULEE"] /\ UNCHANGED attempt
        /\ job' = [job EXCEPT ![r] = "completed"]
    BY <1>5 DEF ExpireCommit, CancelTx, WriteBoth
  <2>2. status'[r] = "ANNULEE"
    BY <1>0, <2>1
  <2>3. \A s \in Reservations : s # r => job'[s] = job[s] /\ status'[s] = status[s]
    BY <1>0, <2>1
  <2> QED BY <1>0, <2>1, <2>2, <2>3, SettledKept
<1>6. ASSUME \/ Cancel \/ \E r \in Reservations : ConfirmReservation(r)
      PROVE  SettledInv'
  <2>1. UNCHANGED <<job, attempt>>
    BY <1>6 DEF Cancel, CancelRead, CancelCommit, ConfirmReservation
  <2>2. \A s \in Reservations : status'[s] = "EN_ATTENTE" => status[s] = "EN_ATTENTE"
    BY <1>0, <1>6 DEF Cancel, CancelRead, CancelCommit, ConfirmReservation, ledgerVars,
       CancelTx, ConfirmTx, WriteBoth
  <2> QED BY <1>0, <2>1, <2>2, SettledKept
<1>7. ASSUME \/ \E r \in Reservations : OpenDeposit(r)
             \/ \E h \in Handlers : CallAborts(h)
             \/ \E u \in Units : LockExpires(u)
             \/ Kyc
             \/ UNCHANGED vars
      PROVE  SettledInv'
  <2>1. UNCHANGED <<status, job, attempt>>
    BY <1>7 DEF OpenDeposit, CallAborts, LockExpires, Kyc, SubmitKyc, ReviewKyc, vars, ledgerVars
  <2> QED BY <1>0, <2>1, SettledKept
<1> QED
  BY <1>1, <1>2, <1>3, <1>4, <1>5, <1>6, <1>7 DEF BuyerNext, Reserve, AttemptStep, Worker

\* Without the back office, a reservation is not left EN_ATTENTE by a job that
\* has completed (process of the processor): one that is has its job still to
\* come, or its job failed, or never had one.
THEOREM HoldEndsWithItsJob == BuyerSpec => []CompletedJobSettled
<1>1. Init => SettledInv
  BY DEF Init, LedgerInit, SettledInv, JobHasRow, CommittedHasRow, CompletedJobSettled
<1>2. [BuyerNext]_vars => [Next]_vars
  BY DEF Next
<1>3. IInv /\ SettledInv /\ [BuyerNext]_vars => SettledInv'
  BY SettledStep
<1>4. SettledInv => CompletedJobSettled
  BY DEF SettledInv
<1> QED
  BY <1>1, <1>2, <1>3, <1>4, Invariant, PTL DEF BuyerSpec, Spec

-----------------------------------------------------------------------------
(* What a confirmation can be undone by.                                   *)

\* A job that is about to cancel a reservation confirmed by now has been
\* overtaken by the confirmation.
OvertakenJobIsKnown ==
    \A r \in Reservations :
        job[r] = "active" /\ status[r] = "CONFIRMEE" => r \in overtaken

\* So has a cancellation past its check.
OvertakenCancelIsKnown ==
    \A h \in Handlers :
        call[h].op = "cancel" /\ status[call[h].res] = "CONFIRMEE" => h \in overtaken

OvertakenInv == OvertakenJobIsKnown /\ OvertakenCancelIsKnown

\* A job becomes active on a pending reservation only (process of the
\* processor).
LEMMA JobStartsPending ==
    ASSUME TypeOK, Next, NEW r \in Reservations, job'[r] = "active", job[r] # "active"
    PROVE  status'[r] = "EN_ATTENTE"
<1> USE DEF TypeOK, JobStates
<1>1. CASE Reserve
  BY <1>1 DEF Reserve, AttemptStep, AcquireLock, CommitReservation, UnitNotAvailable,
              EnqueueExpiration, EnqueueFails, ReleaseLock, GenerateSchedule, AttemptAborts
<1>2. CASE Worker
  BY <1>2 DEF Worker, ExpireRead, ExpireSkip, ExpireCommit, JobFails, WorkerDies, ledgerVars
<1>3. CASE Cancel \/ Admin
  BY <1>3 DEF Cancel, Admin, CancelRead, CancelCommit, SetStatusRead, SetStatusCommit,
              EditUnit
<1>4. CASE \/ Kyc
           \/ \E q \in Reservations : OpenDeposit(q) \/ ConfirmReservation(q)
           \/ \E h \in Handlers : CallAborts(h)
           \/ \E w \in Units : LockExpires(w)
  BY <1>4 DEF Kyc, SubmitKyc, ReviewKyc, OpenDeposit, ConfirmReservation, CallAborts, LockExpires
<1> QED
  BY <1>1, <1>2, <1>3, <1>4 DEF Next, BuyerNext

\* A call of cancelReservation gets past its check on a pending reservation
\* only, and keeps to that reservation.
LEMMA CancelStartsPending ==
    ASSUME TypeOK, Next, NEW h \in Handlers, call'[h].op = "cancel"
    PROVE  \/ call'[h] = call[h]
           \/ status'[call'[h].res] = "EN_ATTENTE"
<1> USE DEF TypeOK
<1>1. CASE Reserve
  BY <1>1 DEF Reserve, AttemptStep, AcquireLock, CommitReservation, UnitNotAvailable,
              EnqueueExpiration, EnqueueFails, ReleaseLock, GenerateSchedule, AttemptAborts
<1>2. CASE Worker
  BY <1>2 DEF Worker, ExpireRead, ExpireSkip, ExpireCommit, JobFails, WorkerDies
<1>3. ASSUME NEW g \in Handlers, NEW r \in Reservations, NEW usr \in Users,
             CancelRead(g, r, usr)
      PROVE  call'[h] = call[h] \/ status'[call'[h].res] = "EN_ATTENTE"
  BY <1>3 DEF CancelRead, ledgerVars
<1>4. ASSUME NEW g \in Handlers, NEW r \in Reservations, NEW s \in ReservationStatuses,
             SetStatusRead(g, r, s)
      PROVE  call'[h] = call[h]
  BY <1>4 DEF SetStatusRead
<1>5. ASSUME NEW g \in Handlers, CancelCommit(g) \/ SetStatusCommit(g) \/ CallAborts(g)
      PROVE  call'[h] = call[h]
  BY <1>5 DEF CancelCommit, SetStatusCommit, CallAborts, Idle
<1>6. CASE \/ Kyc
           \/ \E q \in Reservations : OpenDeposit(q) \/ ConfirmReservation(q)
           \/ \E u \in Units, s \in EditStatuses : EditUnit(u, s)
           \/ \E w \in Units : LockExpires(w)
  BY <1>6 DEF Kyc, SubmitKyc, ReviewKyc, OpenDeposit, ConfirmReservation, EditUnit, LockExpires
<1> QED
  BY <1>1, <1>2, <1>3, <1>4, <1>5, <1>6 DEF Next, BuyerNext, Cancel, Admin

\* A confirmation that overtakes a handler is remembered as long as the
\* handler is in flight.
LEMMA OvertakenStep ==
    ASSUME TypeOK, OvertakenInv, [Next /\ Overtakes]_historyVars
    PROVE  OvertakenInv'
<1>1. CASE UNCHANGED historyVars
  BY <1>1 DEF historyVars, vars, ledgerVars, OvertakenInv, OvertakenJobIsKnown,
              OvertakenCancelIsKnown
<1>2. CASE Next /\ Overtakes
  <2>1. ASSUME NEW r \in Reservations, job'[r] = "active", status'[r] = "CONFIRMEE"
        PROVE  r \in overtaken'
    <3>1. job[r] = "active"
      BY <1>2, <2>1, JobStartsPending
    <3>2. r \in overtaken \/ Confirmed(r)
      BY <2>1, <3>1 DEF OvertakenInv, OvertakenJobIsKnown, Confirmed
    <3> QED BY <1>2, <2>1, <3>1, <3>2 DEF Overtakes
  <2>2. ASSUME NEW h \in Handlers, call'[h].op = "cancel",
               status'[call'[h].res] = "CONFIRMEE"
        PROVE  h \in overtaken'
    <3>1. call'[h] = call[h]
      BY <1>2, <2>2, CancelStartsPending
    <3>2. h \in overtaken \/ Confirmed(call[h].res)
      BY <2>2, <3>1 DEF OvertakenInv, OvertakenCancelIsKnown, Confirmed
    <3> QED BY <1>2, <2>2, <3>1, <3>2 DEF Overtakes
  <2> QED BY <2>1, <2>2 DEF OvertakenInv, OvertakenJobIsKnown, OvertakenCancelIsKnown
<1> QED BY <1>1, <1>2

\* The body of UndoneByOvertakenOnly, as a formula on one step.
UndoneStep ==
    \A r \in Reservations :
        status[r] = "CONFIRMEE" /\ status'[r] = "ANNULEE"
          => \/ r \in overtaken /\ job'[r] = "completed"
             \/ \E h \in Handlers :
                   /\ call[h].res = r /\ call'[h] = Idle
                   /\ call[h].op = "setStatus" \/ h \in overtaken

\* The three transactions that cancel, each on the reservation of its
\* handler; the others either confirm, or leave the row ANNULEE out.
LEMMA UndoneStepHolds ==
    ASSUME TypeOK, OvertakenInv, Next
    PROVE  UndoneStep
<1> SUFFICES ASSUME NEW r \in Reservations, status[r] = "CONFIRMEE", status'[r] = "ANNULEE"
             PROVE  \/ r \in overtaken /\ job'[r] = "completed"
                    \/ \E h \in Handlers :
                          /\ call[h].res = r /\ call'[h] = Idle
                          /\ call[h].op = "setStatus" \/ h \in overtaken
  BY DEF UndoneStep
<1> USE DEF TypeOK, LedgerTypeOK
<1>1. ASSUME NEW q \in Reservations, ExpireCommit(q)
      PROVE  r \in overtaken /\ job'[r] = "completed"
  <2>1. q = r
    BY <1>1 DEF ExpireCommit, CancelTx, WriteBoth
  <2> QED BY <1>1, <2>1 DEF ExpireCommit, OvertakenInv, OvertakenJobIsKnown
<1>2. ASSUME NEW h \in Handlers, CancelCommit(h)
      PROVE  call[h].res = r /\ call'[h] = Idle /\ h \in overtaken
  <2>1. call[h].res = r
    BY <1>2 DEF CancelCommit, CancelTx, WriteBoth
  <2> QED BY <1>2, <2>1 DEF CancelCommit, OvertakenInv, OvertakenCancelIsKnown
<1>3. ASSUME NEW h \in Handlers, SetStatusCommit(h)
      PROVE  call[h].res = r /\ call'[h] = Idle /\ call[h].op = "setStatus"
  <2>1. call[h].res = r
    BY <1>3 DEF SetStatusCommit, ConfirmTx, CancelTx, SetStatusTx, WriteBoth
  <2> QED BY <1>3, <2>1 DEF SetStatusCommit
<1>4. ASSUME NEW q \in Reservations, CommitReservation(q) \/ ConfirmReservation(q)
      PROVE  FALSE
  BY <1>4 DEF CommitReservation, ReserveTx, ConfirmReservation, ConfirmTx, WriteBoth
<1>5. ASSUME NEW u \in Units, NEW s \in EditStatuses, EditUnit(u, s)
      PROVE  FALSE
  BY <1>5 DEF EditUnit, UpdateUnit
<1>6. CASE Quiet
  BY <1>6, QuietStep DEF ledgerVars
<1> QED
  BY <1>1, <1>2, <1>3, <1>4, <1>5, <1>6, NextCases

\* The history variable constrains no behaviour of the service.
LEMMA HistoryIsService == HistorySpec => Spec
<1>1. HistoryInit => Init
  BY DEF HistoryInit
<1>2. [Next /\ Overtakes]_historyVars => [Next]_vars
  BY DEF historyVars
<1> QED BY <1>1, <1>2, PTL DEF HistorySpec, Spec

\* A confirmed reservation is cancelled by an administrator, or by a handler
\* that had read it before it was confirmed (process of the processor,
\* cancelReservation): none that starts afterwards undoes a sale.
THEOREM ConfirmationUndone == HistorySpec => UndoneByOvertakenOnly
<1>1. HistoryInit => OvertakenInv
  BY DEF HistoryInit, Init, LedgerInit, OvertakenInv, OvertakenJobIsKnown,
         OvertakenCancelIsKnown, Idle
<1>2. TypeOK /\ OvertakenInv /\ [Next /\ Overtakes]_historyVars => OvertakenInv'
  BY OvertakenStep
<1>3. TypeOK /\ OvertakenInv /\ [Next /\ Overtakes]_historyVars => [UndoneStep]_historyVars
  BY UndoneStepHolds
<1> QED
  BY <1>1, <1>2, <1>3, HistoryIsService, ReservationType, PTL
     DEF HistorySpec, UndoneByOvertakenOnly, UndoneStep

=============================================================================
