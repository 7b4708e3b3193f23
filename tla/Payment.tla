------------------------------ MODULE Payment ------------------------------
(***************************************************************************)
(* The payment service: payment sessions opened at CinetPay or Stripe, the *)
(* webhooks through which the providers report them, and what the service  *)
(* does with a payment: mark the installment, confirm the reservation.     *)
(* The sale contract that follows is module Contract's.                    *)
(*                                                                         *)
(* The reservation side is the ledger's: reservations appear, are          *)
(* cancelled, expire or are moved by an administrator through the          *)
(* transactions of UnitLedger, which module Reservation shows to be all it *)
(* ever commits.  Two installments per reservation, the deposit that seals *)
(* the sale and one later tranche, stand for the plan of the schedule.     *)
(* A handler keeps what it read across awaits, and may die between steps.  *)
(* A "Fault" is a plausible bug of the operation that follows it, as in    *)
(* UnitLedger.                                                             *)
(***************************************************************************)
EXTENDS UnitLedger

CONSTANTS
    Sessions,   \* payment sessions, named by the transactionId we emit
    Requests    \* payment requests and webhook deliveries in flight at once

ASSUME PaymentAssumption ==
    /\ None \notin Reservations
    /\ None \notin Sessions

VARIABLES
    verified,     \* reservations whose buyer has kycStatus VALIDE
    installment,  \* PaymentInstallment.status, "none" before the schedule
    providerRef,  \* PaymentInstallment.providerRef
    session,      \* the providers' own records
    request       \* progress of each request or delivery

payVars == <<verified, installment, providerRef, session, request>>

vars == <<ledgerVars, payVars>>

Installments == Reservations \X {"acompte", "tranche"}

Acompte(r) == <<r, "acompte">>

Providers == {"CINETPAY", "STRIPE"}

NoSession == [state |-> "unused", inst |-> None, provider |-> None]

SessionRecords ==
    [state : {"opening", "open", "accepted", "mispaid", "refused"},
     inst : Installments,
     provider : Providers]

Idle == [step |-> "idle", inst |-> None, sess |-> None]

RequestRecords ==
    [step : {"initiate", "check", "mark", "confirm"},
     inst : Installments,
     sess : Sessions]

PaymentTypeOK ==
    /\ LedgerTypeOK
    /\ verified \subseteq Reservations
    /\ installment \in [Installments -> {"none", "EN_ATTENTE", "PAYE"}]
    /\ providerRef \in [Installments -> Sessions \cup {None}]
    /\ session \in [Sessions -> SessionRecords \cup {NoSession}]
    /\ request \in [Requests -> RequestRecords \cup {Idle}]
    /\ \A i \in Installments : installment[i] # "none" => Created(i[1])

Init ==
    /\ LedgerInit
    /\ verified = {}
    /\ installment = [i \in Installments |-> "none"]
    /\ providerRef = [i \in Installments |-> None]
    /\ session = [s \in Sessions |-> NoSession]
    /\ request = [q \in Requests |-> Idle]

Goto(q, step) == request' = [request EXCEPT ![q].step = step]

Finish(q) == request' = [request EXCEPT ![q] = Idle]

-----------------------------------------------------------------------------
(* The reservation service and the identity check, seen from here.         *)

LedgerStep ==
    /\ \/ \E r \in Reservations :
             \/ \E u \in Units : ReserveTx(r, u)
             \/ CancelTx(r)
             \/ ConfirmTx(r)
             \/ \E s \in {"EN_ATTENTE", "LIVREE"} : SetStatusTx(r, s)
       \/ \E u \in Units, s \in EditStatuses : UpdateUnit(u, s)
    /\ UNCHANGED payVars

\* generateSchedule; the unique reservationId forbids a second schedule.
GenerateSchedule(r) ==
    /\ Created(r)
    /\ installment[Acompte(r)] = "none"
    /\ installment' = [i \in Installments |->
                          IF i[1] = r THEN "EN_ATTENTE" ELSE installment[i]]
    /\ UNCHANGED <<ledgerVars, verified, providerRef, session, request>>

KycChanges(r) ==
    /\ verified' = IF r \in verified THEN verified \ {r} ELSE verified \cup {r}
    /\ UNCHANGED <<ledgerVars, installment, providerRef, session, request>>

-----------------------------------------------------------------------------
(* initiatePayment.                                                        *)

\* The checks, and the call that opens a session at the provider.
InitiatePayment(q, i, s, p) ==
    /\ request[q] = Idle
    /\ installment[i] = "EN_ATTENTE"
    /\ status[i[1]] # "ANNULEE"
    /\ i[2] = "acompte" => i[1] \in verified
    /\ session[s] = NoSession
    /\ session' = [session EXCEPT ![s] = [state |-> "opening", inst |-> i, provider |-> p]]
    /\ request' = [request EXCEPT ![q] = [step |-> "initiate", inst |-> i, sess |-> s]]
    /\ UNCHANGED <<ledgerVars, verified, installment, providerRef>>

\* The provider has answered: the reference is stored, over any earlier one,
\* and the buyer is sent to the payment page.
RecordReference(q) ==
    LET s == request[q].sess
    IN  /\ request[q].step = "initiate"
        /\ providerRef' = [providerRef EXCEPT ![request[q].inst] = s]
        /\ session' = [session EXCEPT ![s].state = "open"]
        /\ Finish(q)
        /\ UNCHANGED <<ledgerVars, verified, installment>>

\* At the provider: paid (in full, or some other amount), or given up.
Settle(s, outcome) ==
    /\ session[s].state = "open"
    /\ session' = [session EXCEPT ![s].state = outcome]
    /\ UNCHANGED <<ledgerVars, verified, installment, providerRef, request>>

-----------------------------------------------------------------------------
(* The webhooks.  A notification may come at any time, any number of times.*)

\* handleCinetPayWebhook: the installment is the one whose stored reference
\* is the transaction; a transaction nobody refers to is ignored.
CinetPayWebhook(q, s, i) ==
    /\ request[q] = Idle
    /\ session[s].provider = "CINETPAY"
    /\ providerRef[i] = s
    /\ request' = [request EXCEPT ![q] = [step |-> "check", inst |-> i, sess |-> s]]
    /\ UNCHANGED <<ledgerVars, verified, installment, providerRef, session>>

\* Fault: the Stripe webhook looks for the reference kept by the installment.
FaultStripeByReference(q, s) ==
    /\ request[q] = Idle
    /\ session[s].provider = "STRIPE"
    /\ session[s].state \in {"accepted", "mispaid"}
    /\ providerRef[session[s].inst] = s
    /\ request' = [request EXCEPT ![q] =
                      [step |-> "check", inst |-> session[s].inst, sess |-> s]]
    /\ UNCHANGED <<ledgerVars, verified, installment, providerRef, session>>

\* handleStripeWebhook: a signed checkout.session.completed event, whose
\* metadata name the installment.
StripeWebhook(q, s) ==
    /\ request[q] = Idle
    /\ session[s].provider = "STRIPE"
    /\ session[s].state \in {"accepted", "mispaid"}
    /\ request' = [request EXCEPT ![q] =
                      [step |-> "check", inst |-> session[s].inst, sess |-> s]]
    /\ UNCHANGED <<ledgerVars, verified, installment, providerRef, session>>

\* Fault: the notification is believed without asking the provider.
FaultCreditUnchecked(q) == installment[request[q].inst] # "PAYE"

\* The provider's word for it (status and exact amount), then the first read
\* of markInstallmentPaid: an installment already PAYE ends the delivery.
Creditable(q) ==
    /\ session[request[q].sess].state = "accepted"
    /\ installment[request[q].inst] # "PAYE"

CheckPayment(q) ==
    /\ request[q].step = "check"
    /\ IF Creditable(q) THEN Goto(q, "mark") ELSE Finish(q)
    /\ UNCHANGED <<ledgerVars, verified, installment, providerRef, session>>

\* Fault: the deposit is confirmed before (and without) being recorded.
FaultConfirmFirst(q) ==
    LET i == request[q].inst
    IN  /\ request[q].step = "mark"
        /\ IF i[2] = "acompte"
           THEN /\ Goto(q, "confirm")
                /\ UNCHANGED <<installment, providerRef>>
           ELSE /\ Finish(q)
                /\ installment' = [installment EXCEPT ![i] = "PAYE"]
                /\ providerRef' = [providerRef EXCEPT ![i] = request[q].sess]
        /\ UNCHANGED <<ledgerVars, verified, session>>

\* Fault: the deposit is taken for any other installment.
FaultMarkOnly(q) ==
    LET i == request[q].inst
    IN  /\ request[q].step = "mark"
        /\ installment' = [installment EXCEPT ![i] = "PAYE"]
        /\ providerRef' = [providerRef EXCEPT ![i] = request[q].sess]
        /\ Finish(q)
        /\ UNCHANGED <<ledgerVars, verified, session>>

\* The unconditional update of markInstallmentPaid.  Stripe's payment intent
\* stands for its session.
MarkPaid(q) ==
    LET i == request[q].inst
    IN  /\ request[q].step = "mark"
        /\ installment' = [installment EXCEPT ![i] = "PAYE"]
        /\ providerRef' = [providerRef EXCEPT ![i] = request[q].sess]
        /\ IF i[2] = "acompte" THEN Goto(q, "confirm") ELSE Finish(q)
        /\ UNCHANGED <<ledgerVars, verified, session>>

\* confirmReservation, with no look at the status of the reservation.  What
\* follows (threshold, contract, notification) changes no payment.
ConfirmPaid(q) ==
    /\ request[q].step = "confirm"
    /\ ConfirmTx(request[q].inst[1])
    /\ Finish(q)
    /\ UNCHANGED <<verified, installment, providerRef, session>>

\* A crash, a provider error or a database error between two steps.
RequestAborts(q) ==
    /\ request[q] # Idle
    /\ Finish(q)
    /\ UNCHANGED <<ledgerVars, verified, installment, providerRef, session>>

-----------------------------------------------------------------------------

Webhook(s) ==
    \E q \in Requests :
        \/ \E i \in Installments : CinetPayWebhook(q, s, i)
        \/ StripeWebhook(q, s)

RequestStep(q) ==
    \/ RecordReference(q)
    \/ CheckPayment(q)
    \/ MarkPaid(q)
    \/ ConfirmPaid(q)

Next ==
    \/ LedgerStep
    \/ \E r \in Reservations : GenerateSchedule(r) \/ KycChanges(r)
    \/ \E s \in Sessions :
          \/ \E q \in Requests, i \in Installments, p \in Providers :
                InitiatePayment(q, i, s, p)
          \/ \E outcome \in {"accepted", "mispaid", "refused"} : Settle(s, outcome)
          \/ Webhook(s)
    \/ \E q \in Requests : RequestStep(q) \/ RequestAborts(q)

Spec == Init /\ [][Next]_vars

\* The steps of a request that works for session s.
For(s, Step(_)) == \E q \in Requests : request[q].sess = s /\ Step(q)

\* Every request goes on or dies; the providers send a notification again
\* until a delivery is answered, and not every delivery dies at the same
\* place.  Nothing is assumed of buyers or administrators.
Fairness ==
    /\ \A q \in Requests : WF_vars(RequestStep(q) \/ RequestAborts(q))
    /\ \A s \in Sessions :
          /\ SF_vars(Webhook(s))
          /\ SF_vars(For(s, CheckPayment))
          /\ SF_vars(For(s, MarkPaid))
          /\ SF_vars(For(s, ConfirmPaid))

FairSpec == Spec /\ Fairness

-----------------------------------------------------------------------------
(* What the service guarantees.                                            *)

\* A session the provider reports as paid, in full, for installment i.
Accepted(i) ==
    \E s \in Sessions : session[s].inst = i /\ session[s].state = "accepted"

\* No payment on anybody's word: an installment is PAYE only if a provider
\* has accepted the exact amount in a session opened for that installment
\* (the webhooks are mere triggers, handleCinetPayWebhook and
\* handleStripeWebhook), however stale the reference they were matched by.
PaidMeansAccepted ==
    \A i \in Installments : installment[i] = "PAYE" => Accepted(i)

\* A webhook confirms a reservation only on the strength of its own deposit,
\* accepted and recorded (markInstallmentPaid), even when deliveries and
\* initiations interleave and references are replaced.
ConfirmationIsBacked ==
    [][\A r \in Reservations, q \in Requests :
          request[q].inst = Acompte(r) /\ ConfirmPaid(q)
            => installment[Acompte(r)] = "PAYE" /\ Accepted(Acompte(r))]_vars

\* A payment the provider has accepted is credited to its installment,
\* whatever crashes and redeliveries do; except one through CinetPay whose
\* stored reference a later initiation has replaced (handleCinetPayWebhook
\* finds the installment by that reference alone).
AcceptedPaymentIsCredited ==
    \A i \in Installments, s \in Sessions :
        session[s].inst = i /\ session[s].state = "accepted"
            ~> \/ installment[i] = "PAYE"
               \/ session[s].provider = "CINETPAY" /\ providerRef[i] # s

=============================================================================
