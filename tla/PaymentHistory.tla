-------------------------- MODULE PaymentHistory --------------------------
(***************************************************************************)
(* Payment with a memory of the deliveries that died between recording the *)
(* deposit and confirming its reservation: a history variable, which       *)
(* constrains no behaviour.                                                *)
(***************************************************************************)
EXTENDS Payment

VARIABLES
    confirmed,  \* reservations that a delivery has confirmed
    dropped     \* reservations whose confirmation died with its delivery

historyVars == <<vars, confirmed, dropped>>

\* A delivery that was about to confirm r is over.
Over(r) ==
    \E q \in Requests :
        /\ request[q].step = "confirm" /\ request[q].inst = Acompte(r)
        /\ request'[q] = Idle

Outcome ==
    /\ confirmed' = confirmed \cup
           {r \in Reservations : Over(r) /\ status'[r] = "CONFIRMEE"}
    /\ dropped' = dropped \cup
           {r \in Reservations : Over(r) /\ status'[r] # "CONFIRMEE"}

HistoryInit == Init /\ confirmed = {} /\ dropped = {}

HistorySpec == HistoryInit /\ [][Next /\ Outcome]_historyVars

FairHistorySpec == HistorySpec /\ Fairness

\* "Première échéance (acompte) payée -> on confirme la réservation": a
\* deposit recorded as paid confirms its reservation, whatever was cancelled
\* or expired meanwhile, unless the very delivery that recorded it dies before
\* (every later delivery stops at PAYE, markInstallmentPaid).
PaidDepositConfirms ==
    \A r \in Reservations :
        installment[Acompte(r)] = "PAYE"
            ~> r \in confirmed \cup dropped

\* At any time, a deposit recorded as paid has confirmed its reservation, or
\* is in the hands of the delivery that recorded it, or this one died: no
\* other delivery or initiation takes it over, and none makes up for it.
PaidDepositIsInHand ==
    \A r \in Reservations :
        installment[Acompte(r)] = "PAYE" =>
            \/ r \in confirmed \cup dropped
            \/ \E q \in Requests :
                  request[q].step = "confirm" /\ request[q].inst = Acompte(r)

=============================================================================
