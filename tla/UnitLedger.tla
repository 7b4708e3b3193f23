----------------------------- MODULE UnitLedger -----------------------------
(***************************************************************************)
(* The two PostgreSQL tables every sale goes through, "units" and          *)
(* "reservations", seen through the transactions the API commits on them.  *)
(*                                                                         *)
(* One action is one committed transaction (or one single-statement        *)
(* write), with exactly the WHERE clause the code gives it.  Who runs the  *)
(* transaction, what it read before and how long ago, is left to the       *)
(* modules that refine this one (Reservation, Payment, Launch).            *)
(***************************************************************************)

CONSTANTS
    Units,          \* rows of the table "units" (model Unit)
    Reservations,   \* ids the rows of "reservations" may take
    None,           \* unitOf of an id no row has yet
    EditStatuses    \* bound: the statuses admins write on a unit by hand

UnitStatuses == {"DISPONIBLE", "RESERVE", "VENDU", "LIVRE", "ARCHIVE"}

ReservationStatuses == {"EN_ATTENTE", "CONFIRMEE", "ANNULEE", "LIVREE"}

ASSUME LedgerAssumption ==
    /\ None \notin Units
    /\ EditStatuses \subseteq UnitStatuses

VARIABLES
    unitStatus,     \* Unit.status
    status,         \* Reservation.status, "none" while there is no such row
    unitOf,         \* Reservation.unitId
    edited          \* history: units whose status an admin has overwritten

ledgerVars == <<unitStatus, status, unitOf, edited>>

\* The statuses of a reservation whose buyer still counts on the unit.
LiveStatuses == ReservationStatuses \ {"ANNULEE"}

Created(r) == status[r] # "none"

Live(u) == {r \in Reservations : unitOf[r] = u /\ status[r] \in LiveStatuses}

LedgerTypeOK ==
    /\ unitStatus \in [Units -> UnitStatuses]
    /\ status \in [Reservations -> ReservationStatuses \cup {"none"}]
    /\ unitOf \in [Reservations -> Units \cup {None}]
    /\ edited \subseteq Units
    /\ \A r \in Reservations : Created(r) <=> unitOf[r] # None

LedgerInit ==
    /\ unitStatus = [u \in Units |-> "DISPONIBLE"]
    /\ status = [r \in Reservations |-> "none"]
    /\ unitOf = [r \in Reservations |-> None]
    /\ edited = {}

-----------------------------------------------------------------------------
(* The transactions.  A "Fault" is a plausible bug of the operation that    *)
(* follows it; no specification uses it, PROJECT.json names the property   *)
(* that catches it.                                                        *)

\* Fault: the UPDATE of the unit without its condition on the status.
FaultReserveUnconditional(r, u) ==
    /\ ~Created(r)
    /\ unitStatus' = [unitStatus EXCEPT ![u] = "RESERVE"]
    /\ status' = [status EXCEPT ![r] = "EN_ATTENTE"]
    /\ unitOf' = [unitOf EXCEPT ![r] = u]
    /\ UNCHANGED edited

\* createReservationCore: UPDATE units SET RESERVE WHERE id AND DISPONIBLE,
\* then, if one row was hit, INSERT the reservation.
ReserveTx(r, u) ==
    /\ ~Created(r)
    /\ unitStatus[u] = "DISPONIBLE"
    /\ unitStatus' = [unitStatus EXCEPT ![u] = "RESERVE"]
    /\ status' = [status EXCEPT ![r] = "EN_ATTENTE"]
    /\ unitOf' = [unitOf EXCEPT ![r] = u]
    /\ UNCHANGED edited

\* Both rows in one transaction, whatever status either of them has by now.
WriteBoth(r, resStatus, itsUnitStatus) ==
    /\ Created(r)
    /\ status' = [status EXCEPT ![r] = resStatus]
    /\ unitStatus' = [unitStatus EXCEPT ![unitOf[r]] = itsUnitStatus]
    /\ UNCHANGED <<unitOf, edited>>

\* confirmReservation, and adminSetStatus towards CONFIRMEE.
ConfirmTx(r) == WriteBoth(r, "CONFIRMEE", "VENDU")

\* Fault: the unit is not put back on sale.
FaultCancelKeepsUnit(r) ==
    /\ Created(r)
    /\ status' = [status EXCEPT ![r] = "ANNULEE"]
    /\ UNCHANGED <<unitStatus, unitOf, edited>>

\* cancelReservation, the expiration job, and adminSetStatus towards ANNULEE.
CancelTx(r) == WriteBoth(r, "ANNULEE", "DISPONIBLE")

\* adminSetStatus towards EN_ATTENTE or LIVREE: the unit is left as it is.
SetStatusTx(r, s) ==
    /\ Created(r)
    /\ s \in {"EN_ATTENTE", "LIVREE"}
    /\ status' = [status EXCEPT ![r] = s]
    /\ UNCHANGED <<unitStatus, unitOf, edited>>

\* PATCH of a unit by the catalogue back office, which may carry any status.
UpdateUnit(u, s) ==
    /\ unitStatus' = [unitStatus EXCEPT ![u] = s]
    /\ edited' = edited \cup {u}
    /\ UNCHANGED <<status, unitOf>>

LedgerNext ==
    \/ \E r \in Reservations :
          \/ \E u \in Units : ReserveTx(r, u)
          \/ ConfirmTx(r)
          \/ CancelTx(r)
          \/ \E s \in {"EN_ATTENTE", "LIVREE"} : SetStatusTx(r, s)
    \/ \E u \in Units, s \in EditStatuses : UpdateUnit(u, s)

LedgerSpec == LedgerInit /\ [][LedgerNext]_ledgerVars

-----------------------------------------------------------------------------
(* What the ledger promises.                                               *)

\* A unit is sold at most once, and is not for sale while somebody holds it.
Exclusive(u) ==
    /\ \A r1, r2 \in Live(u) : r1 = r2
    /\ unitStatus[u] = "DISPONIBLE" => Live(u) = {}

\* No phantom hold: unless an admin overwrote its status, a unit that is out
\* of the catalogue as RESERVE or VENDU is so on behalf of a live reservation
\* (each transaction moves the two rows together, so that no sequence of
\* confirmations, cancellations and reopenings leaves a unit held by nobody).
NoPhantomHold ==
    \A u \in Units \ edited :
        unitStatus[u] \in {"RESERVE", "VENDU"} => Live(u) # {}

\* A write that finds its reservation already ANNULEE and goes on all the
\* same: it revives the reservation, or frees the unit a second time.
LateWrite(r) ==
    /\ status[r] = "ANNULEE"
    /\ status'[r] \in LiveStatuses \/ CancelTx(r)

\* Every double sale starts with a late write: a unit nobody edited stops
\* being exclusive only through a write to one of its own reservations that
\* was already ANNULEE (the conditional UPDATE of createReservationCore is
\* enough by itself; the unconditional updates of the other handlers are not).
DoubleSaleNeedsLateWrite ==
    [][\A u \in Units \ edited' :
          Exclusive(u) /\ ~Exclusive(u)'
            => \E r \in Reservations : unitOf[r] = u /\ LateWrite(r)]_ledgerVars

\* The comment on model Unit: one active reservation (EN_ATTENTE or
\* CONFIRMEE) at a time per unit.
SingleActive ==
    \A u \in Units, r1, r2 \in Reservations :
        /\ unitOf[r1] = u /\ status[r1] \in {"EN_ATTENTE", "CONFIRMEE"}
        /\ unitOf[r2] = u /\ status[r2] \in {"EN_ATTENTE", "CONFIRMEE"}
        => r1 = r2

=============================================================================
