------------------------ MODULE ReservationHistory ------------------------
(***************************************************************************)
(* Reservation with a memory of the handlers that confirmations overtook:  *)
(* a history variable, which constrains no behaviour.                      *)
(***************************************************************************)
EXTENDS Reservation

VARIABLE overtaken  \* jobs (by reservation) and cancellations whose
                    \* reservation was confirmed after they read it

historyVars == <<vars, overtaken>>

Confirmed(r) == status[r] # "CONFIRMEE" /\ status'[r] = "CONFIRMEE"

Overtakes ==
    overtaken' =
        {r \in Reservations :
            /\ job'[r] = "active"
            /\ r \in overtaken \/ (job[r] = "active" /\ Confirmed(r))}
        \cup
        {h \in Handlers :
            /\ call'[h].op = "cancel"
            /\ h \in overtaken \/ (call[h].op = "cancel" /\ Confirmed(call[h].res))}

HistoryInit == Init /\ overtaken = {}

HistorySpec == HistoryInit /\ [][Next /\ Overtakes]_historyVars

FairHistorySpec == HistorySpec /\ Fairness

BuyerHistorySpec == HistoryInit /\ [][BuyerNext /\ Overtakes]_historyVars

\* A confirmed reservation is cancelled by an administrator, or else by a run
\* of the expiration job or a cancellation that had read it EN_ATTENTE before
\* it was confirmed, never by one that starts afterwards (process of the
\* processor and cancelReservation check the status once, at the start).
UndoneByOvertakenOnly ==
    [][\A r \in Reservations :
          status[r] = "CONFIRMEE" /\ status'[r] = "ANNULEE"
            => \/ r \in overtaken /\ job'[r] = "completed"
               \/ \E h \in Handlers :
                     /\ call[h].res = r /\ call'[h] = Idle
                     /\ call[h].op = "setStatus" \/ h \in overtaken]_historyVars

=============================================================================
