------------------------------- MODULE Launch -------------------------------
(***************************************************************************)
(* The commercial life of one block (LaunchService): the threshold of sold *)
(* units that is checked after every confirmed sale, and the two steps     *)
(* the back office takes with the bank.  Units are those of the block.     *)
(*                                                                         *)
(* The sales are the ledger's transactions.  checkFundingThreshold runs    *)
(* after the transaction of a confirmation, outside it: the block is read, *)
(* then its units, then the block is written, with other handlers running  *)
(* in between.  A "Fault" is a plausible bug of the operation that follows *)
(* it, as in UnitLedger.                                                   *)
(***************************************************************************)
EXTENDS UnitLedger, Naturals, FiniteSets

CONSTANTS
    Handlers,   \* requests in flight at once
    Thresholds  \* bound: the percentages admins choose from

ASSUME LaunchAssumption ==
    /\ IsFiniteSet(Units)
    /\ Thresholds \subseteq 1 .. 100

VARIABLES
    launch,     \* Block.launchStatus
    threshold,  \* Block.fundingThresholdPercent
    call,       \* progress of each handler
    excused     \* history: since the last sale, something no check looks at
                \* (a dead check, an edited unit, another threshold)

launchVars == <<launch, threshold, call, excused>>

vars == <<ledgerVars, launchVars>>

\* In the order of the life cycle; LIVRE is written by no code yet.
LaunchOrder ==
    <<"EN_COMMERCIALISATION", "SEUIL_ATTEINT", "FINANCEMENT_EN_COURS",
      "EN_CONSTRUCTION", "LIVRE">>

LaunchStatuses == {LaunchOrder[n] : n \in 1 .. 5}

Idle == [op |-> "idle", percent |-> 0]

Calls ==
    [op : {"block", "reach", "submit", "secure"}, percent : {0}]
        \cup [op : {"units"}, percent : Thresholds]

LaunchTypeOK ==
    /\ LedgerTypeOK
    /\ launch \in LaunchStatuses
    /\ threshold \in Thresholds
    /\ call \in [Handlers -> Calls \cup {Idle}]
    /\ excused \in BOOLEAN

Init ==
    /\ LedgerInit
    /\ launch = "EN_COMMERCIALISATION"
    /\ threshold \in Thresholds
    /\ call = [h \in Handlers |-> Idle]
    /\ excused = FALSE

SoldUnits == {u \in Units : unitStatus[u] \in {"VENDU", "LIVRE"}}

\* Math.round((soldUnits / totalUnits) * 100), 0 for a block without units.
SoldPercent ==
    LET sold == Cardinality(SoldUnits)
        total == Cardinality(Units)
    IN  IF total = 0 THEN 0 ELSE (200 * sold + total) \div (2 * total)

Goto(h, op) == call' = [call EXCEPT ![h] = [op |-> op, percent |-> 0]]

Finish(h) == call' = [call EXCEPT ![h] = Idle]

-----------------------------------------------------------------------------
(* The sales.                                                              *)

\* confirmReservation, and adminSetStatus towards CONFIRMEE: the transaction,
\* then the call of checkFundingThreshold.
ConfirmSale(h, r) ==
    /\ call[h] = Idle
    /\ ConfirmTx(r)
    /\ Goto(h, "block")
    /\ excused' = FALSE
    /\ UNCHANGED <<launch, threshold>>

\* Everything else that happens to reservations checks nothing.
OtherSale ==
    /\ \E r \in Reservations :
          \/ \E u \in Units : ReserveTx(r, u)
          \/ CancelTx(r)
          \/ \E s \in {"EN_ATTENTE", "LIVREE"} : SetStatusTx(r, s)
    /\ UNCHANGED launchVars

\* updateUnit may well declare a unit sold: no check either.
EditUnit(u, s) ==
    /\ UpdateUnit(u, s)
    /\ excused' = TRUE
    /\ UNCHANGED <<launch, threshold, call>>

-----------------------------------------------------------------------------
(* checkFundingThreshold.                                                  *)

\* The block: past EN_COMMERCIALISATION there is nothing to do.
ReadBlock(h) ==
    /\ call[h].op = "block"
    /\ IF launch = "EN_COMMERCIALISATION"
       THEN call' = [call EXCEPT ![h] = [op |-> "units", percent |-> threshold]]
       ELSE Finish(h)
    /\ UNCHANGED <<ledgerVars, launch, threshold, excused>>

\* Fault: the threshold has to be exceeded.
FaultReadUnitsStrictly(h) ==
    /\ call[h].op = "units"
    /\ IF SoldPercent <= call[h].percent THEN Finish(h) ELSE Goto(h, "reach")
    /\ UNCHANGED <<ledgerVars, launch, threshold, excused>>

\* The units of the block, counted against the threshold read before.
ReadUnits(h) ==
    /\ call[h].op = "units"
    /\ IF SoldPercent < call[h].percent THEN Finish(h) ELSE Goto(h, "reach")
    /\ UNCHANGED <<ledgerVars, launch, threshold, excused>>

\* The update of the block does not look at its status again (the dates it
\* sets with each stage are left out).
WriteReached(h) ==
    /\ call[h].op = "reach"
    /\ launch' = "SEUIL_ATTEINT"
    /\ Finish(h)
    /\ UNCHANGED <<ledgerVars, threshold, excused>>

-----------------------------------------------------------------------------
(* The back office and the bank.                                           *)

SubmitRead(h) ==
    /\ call[h] = Idle
    /\ launch = "SEUIL_ATTEINT"
    /\ Goto(h, "submit")
    /\ UNCHANGED <<ledgerVars, launch, threshold, excused>>

SubmitWrite(h) ==
    /\ call[h].op = "submit"
    /\ launch' = "FINANCEMENT_EN_COURS"
    /\ Finish(h)
    /\ UNCHANGED <<ledgerVars, threshold, excused>>

\* Fault: the financing may be secured again.
FaultSecureUnchecked(h) ==
    /\ call[h] = Idle
    /\ Goto(h, "secure")
    /\ UNCHANGED <<ledgerVars, launch, threshold, excused>>

SecureRead(h) ==
    /\ call[h] = Idle
    /\ launch = "FINANCEMENT_EN_COURS"
    /\ Goto(h, "secure")
    /\ UNCHANGED <<ledgerVars, launch, threshold, excused>>

SecureWrite(h) ==
    /\ call[h].op = "secure"
    /\ launch' = "EN_CONSTRUCTION"
    /\ Finish(h)
    /\ UNCHANGED <<ledgerVars, threshold, excused>>

\* Nothing is checked against the new threshold before the next sale.
SetThreshold(percent) ==
    /\ threshold' = percent
    /\ excused' = TRUE
    /\ UNCHANGED <<ledgerVars, launch, call>>

\* A crash or a database error between two steps of a handler.
CallAborts(h) ==
    /\ call[h] # Idle
    /\ Finish(h)
    /\ excused' = (excused \/ call[h].op \in {"block", "units", "reach"})
    /\ UNCHANGED <<ledgerVars, launch, threshold>>

-----------------------------------------------------------------------------

CheckFundingThreshold(h) == ReadBlock(h) \/ ReadUnits(h) \/ WriteReached(h)

Financing(h) == SubmitRead(h) \/ SubmitWrite(h) \/ SecureRead(h) \/ SecureWrite(h)

Next ==
    \/ OtherSale
    \/ \E u \in Units, s \in EditStatuses : EditUnit(u, s)
    \/ \E h \in Handlers :
          \/ \E r \in Reservations : ConfirmSale(h, r)
          \/ CheckFundingThreshold(h)
          \/ Financing(h)
          \/ CallAborts(h)
    \/ \E percent \in Thresholds : SetThreshold(percent)

Spec == Init /\ [][Next]_vars

-----------------------------------------------------------------------------
(* What the service guarantees.                                            *)

\* No sale that crosses the threshold goes unnoticed: a block still on sale
\* beyond its threshold has a check in flight that will see it, however the
\* checks of several sales interleave (checkFundingThreshold); unless since
\* the last sale a check died, an admin edited a unit or the threshold.
CrossingIsNoticed ==
    /\ launch = "EN_COMMERCIALISATION"
    /\ SoldPercent >= threshold
    => \/ excused
       \/ \E h \in Handlers :
             \/ call[h].op \in {"block", "reach"}
             \/ call[h].op = "units" /\ call[h].percent <= threshold

=============================================================================
