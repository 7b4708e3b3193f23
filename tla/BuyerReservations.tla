-------------------------- MODULE BuyerReservations --------------------------
(***************************************************************************)
(* The reservations on the buyer's page (app/suivi): their list and their  *)
(* schedules as they were last read, the payment of the deposit and the    *)
(* cancellation in two clicks, with the calls in flight and the API at     *)
(* the other end.                                                          *)
(*                                                                         *)
(* A schedule is its deposit.  A visit of the page ends when a payment     *)
(* redirects to Stripe; the next one starts from an empty page.            *)
(***************************************************************************)
EXTENDS Pages, Naturals

CONSTANTS
    Bookings,   \* reservations of the buyer
    MaxErrors,  \* bound: calls of a visit that fail
    MaxSessions \* bound: Stripe sessions of a deposit

ASSUME BookingsAssumption == None \notin Bookings /\ MaxErrors \in Nat /\ MaxSessions \in Nat

VARIABLES
    booking,        \* Reservation.status in the database
    deposit,        \* PaymentInstallment.status of its deposit
    stripe,         \* Stripe sessions opened for the deposit
    dashboards,     \* page: the status shown, None before the first answer
    listLoad,       \* page: load() under way, and what it has read
    listError,      \* page: error
    plans,          \* page: schedulesMap, with its flags loading and error
    planLoads,      \* page: loadScheduleForReservation under way: last, older
    paying,         \* page: payingInstallmentId
    payCall,        \* its call: none, sent, opened at Stripe
    confirming,     \* page: confirmingCancelId
    cancelling,     \* page: cancellingReservationId
    cancelCall,     \* its call: none, sent, done, reload
    opened,         \* history: sessions opened by this visit
    payErrors,      \* history: payments of this visit answered with an error
    errors          \* bound: all calls of this visit that failed

bookingVars == <<booking, deposit, stripe, dashboards, listLoad, listError, plans,
                 planLoads, paying, payCall, confirming, cancelling, cancelCall,
                 opened, payErrors, errors>>

bookingRows == <<booking, deposit, stripe>>
listState == <<dashboards, listLoad, listError>>
planState == <<plans, planLoads>>
payState == <<paying, payCall, opened, payErrors>>
cancelState == <<confirming, cancelling, cancelCall>>

Status == {"EN_ATTENTE", "CONFIRMEE", "ANNULEE"}

DepositStatus == {"EN_ATTENTE", "PAYE"}

Nothing == [r \in Bookings |-> None]

Idle == [step |-> "idle", seen |-> Nothing]

NoPlan == [value |-> None, busy |-> FALSE, error |-> FALSE]

NoPlanLoad == [last |-> None, older |-> None]

\* The page as it is mounted: the effect asks for the list.
Mount ==
    /\ dashboards' = Nothing /\ listError' = FALSE
    /\ listLoad' = [Idle EXCEPT !.step = "asked"]
    /\ plans' = [r \in Bookings |-> NoPlan] /\ planLoads' = [r \in Bookings |-> NoPlanLoad]
    /\ paying' = None /\ payCall' = "none"
    /\ confirming' = None /\ cancelling' = None /\ cancelCall' = "none"
    /\ opened' = 0 /\ payErrors' = 0 /\ errors' = 0

BookingInit ==
    /\ booking = [r \in Bookings |-> "EN_ATTENTE"]
    /\ deposit = [r \in Bookings |-> "EN_ATTENTE"]
    /\ stripe = [r \in Bookings |-> 0]
    /\ dashboards = Nothing /\ listError = FALSE
    /\ listLoad = [Idle EXCEPT !.step = "asked"]
    /\ plans = [r \in Bookings |-> NoPlan] /\ planLoads = [r \in Bookings |-> NoPlanLoad]
    /\ paying = None /\ payCall = "none"
    /\ confirming = None /\ cancelling = None /\ cancelCall = "none"
    /\ opened = 0 /\ payErrors = 0 /\ errors = 0

Errs == errors < MaxErrors /\ errors' = errors + 1

-----------------------------------------------------------------------------
(* The list and the schedules.                                             *)

\* The list is on the screen, neither its spinner nor its error.
ListShown == listLoad = Idle /\ ~listError

\* "Réessayer", under the error.
RetryList ==
    /\ listError /\ listLoad = Idle
    /\ listLoad' = [Idle EXCEPT !.step = "asked"]
    /\ listError' = FALSE
    /\ UNCHANGED <<bookingRows, dashboards, planState, payState, cancelState, errors>>

\* getDashboard.
GetDashboard ==
    /\ listLoad.step = "asked"
    /\ listLoad' = [step |-> "read", seen |-> booking]
    /\ UNCHANGED <<bookingRows, dashboards, listError, planState, payState, cancelState, errors>>

\* The cancellation that awaited the reload is over with it.
EndReload ==
    IF cancelCall = "reload" THEN cancelling' = None /\ cancelCall' = "none"
                             ELSE UNCHANGED <<cancelling, cancelCall>>

\* setDashboards; the effect on it asks for every schedule again, whichever
\* load of it is under way.  Two are kept.
ShowDashboards ==
    /\ listLoad.step = "read"
    /\ dashboards' = listLoad.seen
    /\ listLoad' = Idle
    /\ planLoads' = [r \in Bookings |->
                        [last |-> "asked", older |-> planLoads[r].last]]
    /\ plans' = [r \in Bookings |-> [plans[r] EXCEPT !.busy = TRUE, !.error = FALSE]]
    /\ EndReload
    /\ UNCHANGED <<bookingRows, listError, payState, confirming, errors>>

ListFails ==
    /\ listLoad # Idle /\ Errs
    /\ listLoad' = Idle /\ listError' = TRUE
    /\ EndReload
    /\ UNCHANGED <<bookingRows, dashboards, planState, payState, confirming>>

\* getSchedule, for the load in slot n.
GetPlan(r, n) ==
    /\ planLoads[r][n] = "asked"
    /\ planLoads' = [planLoads EXCEPT ![r][n] = deposit[r]]
    /\ UNCHANGED <<bookingRows, listState, plans, payState, cancelState, errors>>

\* The answer of either load ends the spinner, and leaves the error of the other.
ShowPlan(r, n) ==
    /\ planLoads[r][n] \in DepositStatus
    /\ plans' = [plans EXCEPT ![r].value = planLoads[r][n], ![r].busy = FALSE]
    /\ planLoads' = [planLoads EXCEPT ![r][n] = None]
    /\ UNCHANGED <<bookingRows, listState, payState, cancelState, errors>>

PlanFails(r, n) ==
    /\ planLoads[r][n] # None /\ Errs
    /\ plans' = [plans EXCEPT ![r].busy = FALSE, ![r].error = TRUE]
    /\ planLoads' = [planLoads EXCEPT ![r][n] = None]
    /\ UNCHANGED <<bookingRows, listState, payState, cancelState>>

\* "Réessayer", under the error of a schedule.
RetryPlan(r) ==
    /\ ListShown /\ dashboards[r] \in Status \ {"ANNULEE"}
    /\ plans[r].error /\ ~plans[r].busy
    /\ plans' = [plans EXCEPT ![r].busy = TRUE, ![r].error = FALSE]
    /\ planLoads' = [planLoads EXCEPT ![r] = [last |-> "asked", older |-> @.last]]
    /\ UNCHANGED <<bookingRows, listState, payState, cancelState, errors>>

LoadSchedule(r, n) == GetPlan(r, n) \/ ShowPlan(r, n) \/ PlanFails(r, n)

-----------------------------------------------------------------------------
(* "Payer par Carte (Stripe)".                                             *)

\* The button, of a reservation and a deposit both shown EN_ATTENTE.
PayShown(r) ==
    /\ ListShown /\ dashboards[r] = "EN_ATTENTE"
    /\ plans[r] = [value |-> "EN_ATTENTE", busy |-> FALSE, error |-> FALSE]

\* Fault: no guard against a second click.
FaultPayAgain(r) ==
    /\ PayShown(r) /\ payCall # "sent"
    /\ paying' = r /\ payCall' = "sent"
    /\ UNCHANGED <<bookingRows, listState, planState, opened, payErrors, cancelState, errors>>

Pay(r) ==
    /\ PayShown(r) /\ paying = None
    /\ paying' = r /\ payCall' = "sent"
    /\ UNCHANGED <<bookingRows, listState, planState, opened, payErrors, cancelState, errors>>

\* initiatePayment: neither paid nor cancelled.
OpenSession ==
    /\ payCall = "sent"
    /\ deposit[paying] # "PAYE" /\ booking[paying] # "ANNULEE"
    /\ stripe[paying] < MaxSessions
    /\ stripe' = [stripe EXCEPT ![paying] = @ + 1]
    /\ opened' = opened + 1
    /\ payCall' = "opened"
    /\ UNCHANGED <<booking, deposit, listState, planState, paying, payErrors, cancelState, errors>>

\* window.location.href: the page is left with whatever it awaits, and
\* entered again when Stripe, or the buyer, comes back; or the buyer reloads
\* it.  A call that has been sent is served first.
LeaveOrReload ==
    /\ payCall # "sent" /\ cancelCall # "sent"
    /\ Mount
    /\ UNCHANGED bookingRows

\* The page kept by the browser: back from Stripe, every button as it was.
BackToKeptPage ==
    /\ payCall = "opened"
    /\ payCall' = "kept"
    /\ UNCHANGED <<bookingRows, listState, planState, paying, opened, payErrors, cancelState, errors>>

\* An error, or a lost answer.
PayFails ==
    /\ payCall \in {"sent", "opened"} /\ Errs
    /\ paying' = None /\ payCall' = "none"
    /\ payErrors' = payErrors + 1
    /\ UNCHANGED <<bookingRows, listState, planState, opened, cancelState>>

-----------------------------------------------------------------------------
(* "Annuler", then "Oui" or "Non".                                         *)

CancelShown(r) == ListShown /\ dashboards[r] = "EN_ATTENTE" /\ cancelling = None

AskConfirmation(r) ==
    /\ CancelShown(r) /\ confirming # r
    /\ confirming' = r
    /\ UNCHANGED <<bookingRows, listState, planState, payState, cancelling, cancelCall, errors>>

SayNo ==
    /\ ListShown /\ confirming # None /\ dashboards[confirming] = "EN_ATTENTE"
    /\ confirming' = None
    /\ UNCHANGED <<bookingRows, listState, planState, payState, cancelling, cancelCall, errors>>

Cancel(r) ==
    /\ CancelShown(r) /\ confirming = r
    /\ cancelling' = r /\ cancelCall' = "sent"
    /\ UNCHANGED <<bookingRows, listState, planState, payState, confirming, errors>>

\* ReservationService.cancelReservation, one transaction here.
ServeCancel ==
    /\ cancelCall = "sent" /\ booking[cancelling] = "EN_ATTENTE"
    /\ booking' = [booking EXCEPT ![cancelling] = "ANNULEE"]
    /\ cancelCall' = "done"
    /\ UNCHANGED <<deposit, stripe, listState, planState, payState, confirming, cancelling, errors>>

\* The answer: the list is loaded again, which hides it.
Cancelled ==
    /\ cancelCall = "done"
    /\ confirming' = None
    /\ cancelCall' = "reload"
    /\ listLoad' = [Idle EXCEPT !.step = "asked"] /\ listError' = FALSE
    /\ UNCHANGED <<bookingRows, dashboards, planState, payState, cancelling, errors>>

CancelFails ==
    /\ cancelCall \in {"sent", "done"} /\ Errs
    /\ cancelling' = None /\ cancelCall' = "none"
    /\ UNCHANGED <<bookingRows, listState, planState, payState, confirming>>

-----------------------------------------------------------------------------

\* A Stripe notification: the deposit, and the reservation unless cancelled.
DepositPaid(r) ==
    /\ stripe[r] > 0 /\ deposit[r] = "EN_ATTENTE"
    /\ deposit' = [deposit EXCEPT ![r] = "PAYE"]
    /\ booking' = [booking EXCEPT ![r] = IF @ = "EN_ATTENTE" THEN "CONFIRMEE" ELSE @]
    /\ UNCHANGED <<stripe, listState, planState, payState, cancelState, errors>>

\* The expiration or the administration.
OthersDecide(r) ==
    /\ booking[r] = "EN_ATTENTE"
    /\ \E s \in {"CONFIRMEE", "ANNULEE"} : booking' = [booking EXCEPT ![r] = s]
    /\ UNCHANGED <<deposit, stripe, listState, planState, payState, cancelState, errors>>

BookingNext ==
    \/ RetryList \/ GetDashboard \/ ShowDashboards \/ ListFails
    \/ \E r \in Bookings :
          \/ \E n \in {"last", "older"} : LoadSchedule(r, n)
          \/ RetryPlan(r) \/ Pay(r) \/ AskConfirmation(r) \/ Cancel(r)
          \/ DepositPaid(r) \/ OthersDecide(r)
    \/ OpenSession \/ LeaveOrReload \/ BackToKeptPage \/ PayFails
    \/ SayNo \/ ServeCancel \/ Cancelled \/ CancelFails

BookingSpec == BookingInit /\ [][BookingNext]_bookingVars

-----------------------------------------------------------------------------
(* What the buyer may rely on.                                             *)

\* A visit of the page opens one Stripe session, whatever is clicked and for
\* whichever reservation; one more only after an error was shown for one.
OneSessionUnlessError == opened <= payErrors + 1

=============================================================================
