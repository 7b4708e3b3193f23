-------------------------- MODULE UnitLedgerProofs --------------------------
(***************************************************************************)
(* What the transactions of the ledger guarantee for every set of units    *)
(* and reservations.  Both invariants are inductive as they stand, given   *)
(* the types; the action property needs the types alone.                   *)
(***************************************************************************)
EXTENDS UnitLedger, TLAPS

\* Every transaction keeps the two tables well typed, and the foreign key of
\* a reservation set exactly when its row exists.
LEMMA LedgerTypeStep ==
    ASSUME LedgerTypeOK, [LedgerNext]_ledgerVars
    PROVE  LedgerTypeOK'
<1> USE LedgerAssumption DEF LedgerTypeOK, Created, UnitStatuses, ReservationStatuses
<1>1. ASSUME NEW r \in Reservations, NEW u \in Units, ReserveTx(r, u)
      PROVE  LedgerTypeOK'
  BY <1>1 DEF ReserveTx
<1>2. ASSUME NEW r \in Reservations, ConfirmTx(r)
      PROVE  LedgerTypeOK'
  BY <1>2 DEF ConfirmTx, WriteBoth
<1>3. ASSUME NEW r \in Reservations, CancelTx(r)
      PROVE  LedgerTypeOK'
  BY <1>3 DEF CancelTx, WriteBoth
<1>4. ASSUME NEW r \in Reservations, NEW s \in {"EN_ATTENTE", "LIVREE"}, SetStatusTx(r, s)
      PROVE  LedgerTypeOK'
  BY <1>4 DEF SetStatusTx
<1>5. ASSUME NEW u \in Units, NEW s \in EditStatuses, UpdateUnit(u, s)
      PROVE  LedgerTypeOK'
  BY <1>5 DEF UpdateUnit
<1>6. CASE UNCHANGED ledgerVars
  BY <1>6 DEF ledgerVars
<1> QED
  BY <1>1, <1>2, <1>3, <1>4, <1>5, <1>6 DEF LedgerNext

\* A row of "reservations" is never deleted.
LEMMA RowsStay ==
    ASSUME [LedgerNext]_ledgerVars, LedgerTypeOK, NEW r \in Reservations, Created(r)
    PROVE  Created(r)'
BY DEF LedgerNext, ReserveTx, ConfirmTx, CancelTx, WriteBoth, SetStatusTx, UpdateUnit,
       ledgerVars, Created, LedgerTypeOK

\* Type correctness of the two tables.
THEOREM LedgerType == LedgerSpec => []LedgerTypeOK
<1>1. LedgerInit => LedgerTypeOK
  BY LedgerAssumption
     DEF LedgerInit, LedgerTypeOK, Created, UnitStatuses, ReservationStatuses
<1>2. LedgerTypeOK /\ [LedgerNext]_ledgerVars => LedgerTypeOK'
  BY LedgerTypeStep
<1> QED
  BY <1>1, <1>2, PTL DEF LedgerSpec

-----------------------------------------------------------------------------

\* No transaction leaves a unit held by nobody: the write that takes a unit
\* off the catalogue also makes its reservation live, and the write that
\* ends a reservation puts its unit back.
LEMMA NoPhantomHoldStep ==
    ASSUME LedgerTypeOK, NoPhantomHold, [LedgerNext]_ledgerVars
    PROVE  NoPhantomHold'
<1> USE LedgerAssumption
    DEF LedgerTypeOK, NoPhantomHold, Live, LiveStatuses, Created, UnitStatuses,
        ReservationStatuses
<1>1. ASSUME NEW r \in Reservations, NEW u \in Units, ReserveTx(r, u)
      PROVE  NoPhantomHold'
  <2> SUFFICES ASSUME NEW v \in Units \ edited, unitStatus'[v] \in {"RESERVE", "VENDU"}
               PROVE  Live(v)' # {}
    BY <1>1 DEF ReserveTx
  <2>1. CASE v = u
    <3>1. r \in Live(v)'
      BY <1>1, <2>1 DEF ReserveTx
    <3> QED BY <3>1
  <2>2. CASE v # u
    <3>1. PICK q \in Reservations : unitOf[q] = v /\ status[q] \in LiveStatuses
      BY <1>1, <2>2 DEF ReserveTx
    <3>2. q \in Live(v)'
      BY <1>1, <2>2, <3>1 DEF ReserveTx
    <3> QED BY <3>2
  <2> QED BY <2>1, <2>2
<1>2. ASSUME NEW r \in Reservations, ConfirmTx(r)
      PROVE  NoPhantomHold'
  <2> SUFFICES ASSUME NEW v \in Units \ edited, unitStatus'[v] \in {"RESERVE", "VENDU"}
               PROVE  Live(v)' # {}
    BY <1>2 DEF ConfirmTx, WriteBoth
  <2>1. CASE v = unitOf[r]
    <3>1. r \in Live(v)'
      BY <1>2, <2>1 DEF ConfirmTx, WriteBoth
    <3> QED BY <3>1
  <2>2. CASE v # unitOf[r]
    <3>1. PICK q \in Reservations : unitOf[q] = v /\ status[q] \in LiveStatuses
      BY <1>2, <2>2 DEF ConfirmTx, WriteBoth
    <3>2. q \in Live(v)'
      BY <1>2, <2>2, <3>1 DEF ConfirmTx, WriteBoth
    <3> QED BY <3>2
  <2> QED BY <2>1, <2>2
<1>3. ASSUME NEW r \in Reservations, CancelTx(r)
      PROVE  NoPhantomHold'
  <2> SUFFICES ASSUME NEW v \in Units \ edited, unitStatus'[v] \in {"RESERVE", "VENDU"}
               PROVE  Live(v)' # {}
    BY <1>3 DEF CancelTx, WriteBoth
  <2>1. v # unitOf[r]
    BY <1>3 DEF CancelTx, WriteBoth
  <2>2. PICK q \in Reservations : unitOf[q] = v /\ status[q] \in LiveStatuses
    BY <1>3, <2>1 DEF CancelTx, WriteBoth
  <2>3. q \in Live(v)'
    BY <1>3, <2>1, <2>2 DEF CancelTx, WriteBoth
  <2> QED BY <2>3
<1>4. ASSUME NEW r \in Reservations, NEW s \in {"EN_ATTENTE", "LIVREE"}, SetStatusTx(r, s)
      PROVE  NoPhantomHold'
  <2> SUFFICES ASSUME NEW v \in Units \ edited, unitStatus[v] \in {"RESERVE", "VENDU"}
               PROVE  Live(v)' # {}
    BY <1>4 DEF SetStatusTx
  <2>1. PICK q \in Reservations : unitOf[q] = v /\ status[q] \in LiveStatuses
    OBVIOUS
  <2>2. q \in Live(v)'
    BY <1>4, <2>1 DEF SetStatusTx
  <2> QED BY <2>2
<1>5. ASSUME NEW u \in Units, NEW s \in EditStatuses, UpdateUnit(u, s)
      PROVE  NoPhantomHold'
  BY <1>5 DEF UpdateUnit
<1>6. CASE UNCHANGED ledgerVars
  BY <1>6 DEF ledgerVars
<1> QED
  BY <1>1, <1>2, <1>3, <1>4, <1>5, <1>6 DEF LedgerNext

\* A unit nobody edited that is RESERVE or VENDU has a live reservation.
THEOREM LedgerNoPhantomHold == LedgerSpec => []NoPhantomHold
<1>1. LedgerInit => NoPhantomHold
  BY DEF LedgerInit, NoPhantomHold
<1>2. LedgerTypeOK /\ NoPhantomHold /\ [LedgerNext]_ledgerVars => NoPhantomHold'
  BY NoPhantomHoldStep
<1> QED
  BY <1>1, <1>2, LedgerType, PTL DEF LedgerSpec

-----------------------------------------------------------------------------

\* The body of DoubleSaleNeedsLateWrite, as a formula on one step.
LateWriteStep ==
    \A u \in Units \ edited' :
        Exclusive(u) /\ ~Exclusive(u)'
            => \E r \in Reservations : unitOf[r] = u /\ LateWrite(r)

\* A step keeps every unit exclusive that it neither edits nor writes late:
\* the conditional UPDATE takes free units only, and a write to a live
\* reservation of an exclusive unit is a write to the only one it has.
LEMMA LateWriteStepHolds ==
    ASSUME LedgerTypeOK, [LedgerNext]_ledgerVars
    PROVE  LateWriteStep
<1> USE LedgerAssumption
    DEF LedgerTypeOK, Live, LiveStatuses, Created, UnitStatuses, ReservationStatuses
<1> SUFFICES ASSUME NEW u \in Units \ edited',
                    Exclusive(u),
                    \A r \in Reservations : unitOf[r] = u => ~LateWrite(r)
             PROVE  Exclusive(u)'
  BY DEF LateWriteStep
<1>1. ASSUME NEW r \in Reservations, NEW w \in Units, ReserveTx(r, w)
      PROVE  Exclusive(u)'
  <2>1. CASE w = u
    <3>1. Live(u) = {}
      BY <1>1, <2>1 DEF Exclusive, ReserveTx
    <3>2. Live(u)' = {r}
      BY <1>1, <2>1, <3>1 DEF ReserveTx
    <3>3. unitStatus'[u] = "RESERVE"
      BY <1>1, <2>1 DEF ReserveTx
    <3> QED BY <3>2, <3>3 DEF Exclusive
  <2>2. CASE w # u
    <3>1. Live(u)' = Live(u) /\ unitStatus'[u] = unitStatus[u]
      BY <1>1, <2>2 DEF ReserveTx
    <3> QED BY <3>1 DEF Exclusive
  <2> QED BY <2>1, <2>2
<1>2. ASSUME NEW r \in Reservations, ConfirmTx(r)
      PROVE  Exclusive(u)'
  <2>1. CASE unitOf[r] = u
    <3>1. status[r] # "ANNULEE"
      BY <1>2, <2>1 DEF LateWrite, ConfirmTx, WriteBoth
    <3>2. Live(u)' = Live(u)
      BY <1>2, <3>1 DEF ConfirmTx, WriteBoth
    <3>3. unitStatus'[u] = "VENDU"
      BY <1>2, <2>1 DEF ConfirmTx, WriteBoth
    <3> QED BY <3>2, <3>3 DEF Exclusive
  <2>2. CASE unitOf[r] # u
    <3>1. Live(u)' = Live(u) /\ unitStatus'[u] = unitStatus[u]
      BY <1>2, <2>2 DEF ConfirmTx, WriteBoth
    <3> QED BY <3>1 DEF Exclusive
  <2> QED BY <2>1, <2>2
<1>3. ASSUME NEW r \in Reservations, CancelTx(r)
      PROVE  Exclusive(u)'
  <2>1. CASE unitOf[r] = u
    <3>1. status[r] # "ANNULEE"
      BY <1>3, <2>1 DEF LateWrite
    <3>2. r \in Live(u)
      BY <1>3, <2>1, <3>1 DEF CancelTx, WriteBoth
    <3>3. Live(u)' \subseteq Live(u) \ {r}
      BY <1>3, <2>1 DEF CancelTx, WriteBoth
    <3>4. Live(u)' = {}
      BY <3>2, <3>3 DEF Exclusive
    <3> QED BY <3>4 DEF Exclusive
  <2>2. CASE unitOf[r] # u
    <3>1. Live(u)' = Live(u) /\ unitStatus'[u] = unitStatus[u]
      BY <1>3, <2>2 DEF CancelTx, WriteBoth
    <3> QED BY <3>1 DEF Exclusive
  <2> QED BY <2>1, <2>2
<1>4. ASSUME NEW r \in Reservations, NEW s \in {"EN_ATTENTE", "LIVREE"}, SetStatusTx(r, s)
      PROVE  Exclusive(u)'
  <2>1. unitOf[r] = u => status[r] # "ANNULEE"
    BY <1>4 DEF LateWrite, SetStatusTx
  <2>2. Live(u)' = Live(u)
    BY <1>4, <2>1 DEF SetStatusTx
  <2> QED BY <1>4, <2>2 DEF Exclusive, SetStatusTx
<1>5. ASSUME NEW w \in Units, NEW s \in EditStatuses, UpdateUnit(w, s)
      PROVE  Exclusive(u)'
  <2>1. Live(u)' = Live(u) /\ unitStatus'[u] = unitStatus[u]
    BY <1>5 DEF UpdateUnit
  <2> QED BY <2>1 DEF Exclusive
<1>6. CASE UNCHANGED ledgerVars
  BY <1>6 DEF ledgerVars, Exclusive
<1> QED
  BY <1>1, <1>2, <1>3, <1>4, <1>5, <1>6 DEF LedgerNext

\* A unit nobody edited is sold twice only after a late write to one of its
\* reservations: however many buyers, units and transactions there are.
THEOREM LedgerDoubleSale == LedgerSpec => DoubleSaleNeedsLateWrite
<1>1. LedgerTypeOK /\ [LedgerNext]_ledgerVars => [LateWriteStep]_ledgerVars
  BY LateWriteStepHolds
<1> QED
  BY <1>1, LedgerType, PTL DEF LedgerSpec, DoubleSaleNeedsLateWrite, LateWriteStep

=============================================================================
