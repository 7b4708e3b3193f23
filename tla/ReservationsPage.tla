-------------------------- MODULE ReservationsPage --------------------------
(***************************************************************************)
(* The reservations page of the back office (app/admin/reservations): two  *)
(* views of one table, loaded again after each action with the view that   *)
(* was current when it was clicked, and the actions on a row: generate a   *)
(* contract, countersign it, download it, cancel the reservation.          *)
(*                                                                         *)
(* The confirmation of "palier 2" is left out: no contract is signed by    *)
(* the administration alone (OwnerSignsFirst of module Contract).          *)
(***************************************************************************)
EXTENDS Pages

CONSTANTS
    Sales,          \* reservations
    PageCalls,      \* bound: actions on rows
    PageLoads       \* bound: loads of the table under way at once

ASSUME PageAssumption == None \notin Sales /\ PageCalls \cup PageLoads \subseteq Nat

VARIABLES
    sale,           \* Reservation: its status, and who has signed its contract
    view,           \* page: view
    table,          \* page: reservations, and the view they were read for
    busy,           \* page: loading
    loads,          \* page: load() under way, its view, its reading, its action
    calls,          \* page: actions under way, with the view of their click
    acting,         \* page: actingId
    cancellingRow,  \* page: cancelling
    signingRow,     \* page: signing
    fetching,       \* page: downloadingId
    pageError,      \* page: error
    pending,        \* page: pendingCancel, pendingSign
    mixed           \* history: the last load failed, met another, or was asked
                    \*          for the other view

saleVars == <<sale, view, table, busy, loads, calls, acting, cancellingRow, signingRow,
              fetching, pageError, pending, mixed>>

tableState == <<view, table, busy, loads, mixed>>
flags == <<acting, cancellingRow, signingRow, fetching>>

SaleViews == {"en_attente", "confirmee"}

\* RESERVATION_STATUS_BY_INPUT.
StatusOf == [en_attente |-> "EN_ATTENTE", confirmee |-> "CONFIRMEE"]

NoTable == [for |-> "confirmee", rows |-> [r \in {} |-> "none"]]

NoPageLoad == [for |-> "confirmee", step |-> "none", rows |-> NoTable.rows, after |-> None]

NoPageCall == [op |-> "none", of |-> None, view |-> "confirmee", step |-> "none"]

NoDialog == [kind |-> "none", of |-> None]

SaleInit ==
    /\ sale \in [Sales -> {[status |-> "EN_ATTENTE", contract |-> "none"],
                           [status |-> "CONFIRMEE", contract |-> "buyer"],
                           [status |-> "CONFIRMEE", contract |-> "both"]}]
    /\ view = "confirmee" /\ table = NoTable
    /\ loads = [l \in PageLoads |-> IF IsFirst(l, PageLoads) THEN [NoPageLoad EXCEPT !.step = "asked"]
                                                              ELSE NoPageLoad]
    /\ busy = TRUE
    /\ calls = [k \in PageCalls |-> NoPageCall]
    /\ acting = None /\ cancellingRow = FALSE /\ signingRow = FALSE /\ fetching = None
    /\ pending = NoDialog /\ pageError = FALSE
    /\ mixed = FALSE

-----------------------------------------------------------------------------
(* The table.                                                              *)

\* load(target), on its own or for the end of action k.
Load(l, target, k) ==
    /\ IsFirst(l, {x \in PageLoads : loads[x] = NoPageLoad})
    /\ loads' = [loads EXCEPT ![l] =
                    [NoPageLoad EXCEPT !.for = target, !.step = "asked", !.after = k]]
    /\ busy' = TRUE /\ pageError' = FALSE
    /\ mixed' = (target # view' \/ \E x \in PageLoads : loads[x] # NoPageLoad)
    /\ UNCHANGED table

\* Fault: the table is not loaded for the new view.
FaultSwitchWithoutLoad(l) ==
    /\ pending = NoDialog
    /\ \E next \in SaleViews \ {view} : view' = next
    /\ UNCHANGED <<sale, table, busy, loads, mixed, calls, flags, pageError, pending>>

\* switchView, and the effect on the view.
SwitchView(l) ==
    /\ pending = NoDialog
    /\ \E next \in SaleViews \ {view} : view' = next /\ Load(l, next, None)
    /\ UNCHANGED <<sale, calls, flags, pending>>

\* "Réessayer", under an error.
RetryLoad(l) ==
    /\ pending = NoDialog /\ pageError
    /\ UNCHANGED view
    /\ Load(l, view, None)
    /\ UNCHANGED <<sale, calls, flags, pending>>

\* adminList.
ReadSales(l) ==
    LET listed == {r \in Sales : sale[r].status = StatusOf[loads[l].for]} IN
    /\ loads[l].step = "asked"
    /\ loads' = [loads EXCEPT ![l].step = "read",
                     ![l].rows = [r \in listed |-> sale[r].contract]]
    /\ UNCHANGED <<sale, view, table, busy, mixed, calls, flags, pageError, pending>>

\* The finally of an action: its flag, and that of any other of its kind.
Release(op) ==
    /\ acting' = IF op = "generate" THEN None ELSE acting
    /\ cancellingRow' = (cancellingRow /\ op # "cancel")
    /\ signingRow' = (signingRow /\ op # "sign")
    /\ fetching' = IF op = "download" THEN None ELSE fetching

\* A load is over, and with it the action that awaited it.
EndLoad(l) ==
    LET k == loads[l].after IN
    /\ loads' = [loads EXCEPT ![l] = NoPageLoad]
    /\ busy' = FALSE
    /\ IF k = None THEN UNCHANGED <<calls, flags>>
                   ELSE calls' = [calls EXCEPT ![k].step = "done"] /\ Release(calls[k].op)

ShowSales(l) ==
    /\ loads[l].step = "read"
    /\ table' = [for |-> loads[l].for, rows |-> loads[l].rows]
    /\ EndLoad(l)
    /\ UNCHANGED <<sale, view, pageError, mixed, pending>>

\* The error shows above the rows that were there.
LoadFails(l) ==
    /\ loads[l] # NoPageLoad
    /\ EndLoad(l)
    /\ pageError' = TRUE /\ mixed' = TRUE
    /\ UNCHANGED <<sale, view, table, pending>>

-----------------------------------------------------------------------------
(* The rows.                                                               *)

Working == acting # None \/ cancellingRow \/ signingRow \/ fetching # None

\* The buttons are those of the view "confirmee", whatever its rows are.
Offered(r) ==
    /\ view = "confirmee" /\ ~busy /\ pending = NoDialog
    /\ r \in DOMAIN table.rows

Send(k, op, r) ==
    /\ IsFirst(k, {x \in PageCalls : calls[x] = NoPageCall})
    /\ calls' = [calls EXCEPT ![k] = [op |-> op, of |-> r, view |-> view, step |-> "sent"]]

\* handleGenerate: not disabled by the other actions, nor by another of its kind.
Generate(k, r) ==
    /\ Offered(r) /\ table.rows[r] \in {"none", "unsigned"}
    /\ Send(k, "generate", r)
    /\ acting' = r /\ pageError' = FALSE
    /\ UNCHANGED <<sale, tableState, cancellingRow, signingRow, fetching, pending>>

Download(k, r) ==
    /\ Offered(r) /\ table.rows[r] = "both" /\ ~Working
    /\ Send(k, "download", r)
    /\ fetching' = r
    /\ UNCHANGED <<sale, tableState, acting, cancellingRow, signingRow, pageError, pending>>

RequestCancel(r) ==
    /\ Offered(r) /\ ~Working
    /\ pending' = [kind |-> "cancel", of |-> r]
    /\ UNCHANGED <<sale, tableState, calls, flags, pageError>>

RequestSign(r) ==
    /\ Offered(r) /\ table.rows[r] = "buyer" /\ ~Working
    /\ pending' = [kind |-> "sign", of |-> r]
    /\ UNCHANGED <<sale, tableState, calls, flags, pageError>>

\* "Fermer" waits for a cancellation under way; the pad does not.
CloseRowDialog ==
    /\ pending # NoDialog
    /\ pending.kind = "cancel" => ~cancellingRow
    /\ pending' = NoDialog
    /\ UNCHANGED <<sale, tableState, calls, flags, pageError>>

RunCancel(k) ==
    /\ pending.kind = "cancel" /\ ~cancellingRow
    /\ Send(k, "cancel", pending.of)
    /\ cancellingRow' = TRUE
    /\ UNCHANGED <<sale, tableState, acting, signingRow, fetching, pageError, pending>>

\* As often as the pad is confirmed.
RunSign(k) ==
    /\ pending.kind = "sign"
    /\ Send(k, "sign", pending.of)
    /\ signingRow' = TRUE
    /\ UNCHANGED <<sale, tableState, acting, cancellingRow, fetching, pageError, pending>>

-----------------------------------------------------------------------------
(* Their calls.                                                            *)

\* regenerateBuyerContract, adminSetStatus and signContract, one step each.
Effect(op, r) ==
    \/ op = "generate" /\ sale[r].contract \in {"none", "unsigned"}
          /\ sale' = [sale EXCEPT ![r].contract = "unsigned"]
    \/ op = "cancel" /\ sale' = [sale EXCEPT ![r].status = "ANNULEE"]
    \/ op = "sign" /\ sale[r].contract = "buyer" /\ sale[r].status # "ANNULEE"
          /\ sale' = [sale EXCEPT ![r].contract = "both"]
    \/ op = "download" /\ UNCHANGED sale

ServeCall(k) ==
    /\ calls[k].step = "sent"
    /\ Effect(calls[k].op, calls[k].of)
    /\ calls' = [calls EXCEPT ![k].step = "served"]
    /\ UNCHANGED <<tableState, flags, pageError, pending>>

\* The dialog of that kind closes, whichever row it is about, and the view of
\* the click is loaded again.
CallAnswered(k, l) ==
    /\ calls[k].step = "served" /\ calls[k].op # "download"
    /\ pending' = IF pending.kind = calls[k].op THEN NoDialog ELSE pending
    /\ calls' = [calls EXCEPT ![k].step = "reload"]
    /\ UNCHANGED view
    /\ Load(l, calls[k].view, k)
    /\ UNCHANGED <<sale, flags>>

Downloaded(k) ==
    /\ calls[k].step = "served" /\ calls[k].op = "download"
    /\ calls' = [calls EXCEPT ![k].step = "done"]
    /\ Release("download")
    /\ UNCHANGED <<sale, tableState, pageError, pending>>

\* Refused, or the answer is lost: a dialog stays open with the error.
CallFails(k) ==
    /\ calls[k].step \in {"sent", "served"}
    /\ calls' = [calls EXCEPT ![k].step = "done"]
    /\ Release(calls[k].op)
    /\ pageError' = (pageError \/ calls[k].op = "generate")
    /\ UNCHANGED <<sale, tableState, pending>>

\* The deposit, the expiration, the buyer's signature.
OthersActOnSale(r) ==
    /\ \/ /\ sale[r].status = "EN_ATTENTE"
          /\ \E s \in {"CONFIRMEE", "ANNULEE"} : sale' = [sale EXCEPT ![r].status = s]
       \/ /\ sale[r].status = "CONFIRMEE" /\ sale[r].contract = "unsigned"
          /\ sale' = [sale EXCEPT ![r].contract = "buyer"]
    /\ UNCHANGED <<tableState, calls, flags, pageError, pending>>

RowNext ==
    \/ \E r \in Sales :
          \/ RequestCancel(r) \/ RequestSign(r) \/ OthersActOnSale(r)
          \/ \E k \in PageCalls : Generate(k, r) \/ Download(k, r)
    \/ CloseRowDialog
    \/ \E k \in PageCalls : RunCancel(k) \/ RunSign(k)

SaleNext ==
    \/ \E l \in PageLoads :
          \/ SwitchView(l) \/ RetryLoad(l) \/ ReadSales(l) \/ ShowSales(l) \/ LoadFails(l)
          \/ \E k \in PageCalls : CallAnswered(k, l)
    \/ RowNext
    \/ \E k \in PageCalls : ServeCall(k) \/ Downloaded(k) \/ CallFails(k)

SaleSpec == SaleInit /\ [][SaleNext]_saleVars

-----------------------------------------------------------------------------
(* What the administrator may rely on.                                     *)

\* The rows on the screen are those of the view that is selected, unless the
\* last load failed, crossed another, or was asked by an action for the view
\* it was clicked in after the administrator had left it.
RowsAreOfView == ~busy /\ ~mixed => table.for = view

=============================================================================
