--------------------------- MODULE PaymentProofs ---------------------------
(***************************************************************************)
(* The payment service for every number of reservations, payment sessions  *)
(* and concurrent requests: what makes an installment paid, and what makes *)
(* a reservation confirmed, through the ledger alone.  The plan of a       *)
(* reservation, for every price and every deposit: when it adds up.        *)
(***************************************************************************)
EXTENDS PaymentHistory, InstallmentPlan, UnitLedgerProofs

\* A session is opened for an installment that exists.
SessionIsDue ==
    \A s \in Sessions :
        session[s].state # "unused" =>
            /\ session[s].inst \in Installments
            /\ installment[session[s].inst] # "none"

\* A stored reference names a session of its own installment.
ReferenceIsOwn ==
    \A i \in Installments :
        providerRef[i] # None =>
            /\ session[providerRef[i]].state # "unused"
            /\ session[providerRef[i]].inst = i

\* A request works for a session of its own installment.
RequestIsOwn ==
    \A q \in Requests :
        request[q].step # "idle" =>
            /\ session[request[q].sess].state # "unused"
            /\ session[request[q].sess].inst = request[q].inst

\* Only one request opens a session, which nobody has paid yet: otherwise
\* RecordReference could take an accepted session back to "open".
OpeningIsExclusive ==
    \A q \in Requests :
        request[q].step = "initiate" =>
            /\ session[request[q].sess].state = "opening"
            /\ \A p \in Requests :
                  request[p].step = "initiate" /\ request[p].sess = request[q].sess => p = q

\* A delivery that is past its check works for an accepted session.
MarkIsAccepted ==
    \A q \in Requests :
        request[q].step = "mark" => session[request[q].sess].state = "accepted"

\* A delivery that is past its update works for a deposit that is paid.
SaleIsPaid ==
    \A q \in Requests :
        request[q].step = "confirm" =>
            /\ request[q].inst[2] = "acompte"
            /\ installment[request[q].inst] = "PAYE"

\* The inductive invariant.
IInv ==
    /\ PaymentTypeOK
    /\ SessionIsDue
    /\ ReferenceIsOwn
    /\ RequestIsOwn
    /\ OpeningIsExclusive
    /\ MarkIsAccepted
    /\ SaleIsPaid
    /\ PaidMeansAccepted

-----------------------------------------------------------------------------

\* The invariant holds initially.
LEMMA InitInv == Init => IInv
<1> SUFFICES ASSUME Init PROVE IInv
  OBVIOUS
<1> USE DEF Init, Idle, NoSession
<1>1. LedgerTypeOK
  BY LedgerAssumption
     DEF LedgerInit, LedgerTypeOK, Created, UnitStatuses, ReservationStatuses
<1>2. PaymentTypeOK
  BY <1>1 DEF PaymentTypeOK
<1> QED
  BY <1>2 DEF IInv, SessionIsDue, ReferenceIsOwn, RequestIsOwn, OpeningIsExclusive,
              MarkIsAccepted, SaleIsPaid, PaidMeansAccepted

\* The record of a request in flight has the fields of its step.
LEMMA RequestFields ==
    ASSUME PaymentTypeOK, NEW q \in Requests, request[q].step # "idle"
    PROVE  /\ request[q] \in RequestRecords
           /\ request[q].inst \in Installments
           /\ request[q].inst[1] \in Reservations
           /\ request[q].sess \in Sessions
BY DEF PaymentTypeOK, RequestRecords, Idle, Installments

\* Every step of the payment service is a transaction of the ledger, or
\* leaves both tables alone.
LEMMA LedgerPart ==
    ASSUME PaymentTypeOK, [Next]_vars
    PROVE  [LedgerNext]_ledgerVars
<1>1. CASE LedgerStep
  BY <1>1 DEF LedgerStep, LedgerNext
<1>2. ASSUME NEW q \in Requests, ConfirmPaid(q)
      PROVE  LedgerNext
  <2>1. request[q].inst[1] \in Reservations
    BY <1>2, RequestFields DEF ConfirmPaid
  <2> QED BY <1>2, <2>1 DEF ConfirmPaid, LedgerNext
<1>3. ASSUME NEW r \in Reservations, GenerateSchedule(r) \/ KycChanges(r)
      PROVE  UNCHANGED ledgerVars
  BY <1>3 DEF GenerateSchedule, KycChanges
<1>4. ASSUME NEW s \in Sessions,
             \/ \E q \in Requests, i \in Installments, p \in Providers :
                   InitiatePayment(q, i, s, p)
             \/ \E outcome \in {"accepted", "mispaid", "refused"} : Settle(s, outcome)
             \/ Webhook(s)
      PROVE  UNCHANGED ledgerVars
  BY <1>4 DEF InitiatePayment, Settle, Webhook, CinetPayWebhook, StripeWebhook
<1>5. ASSUME NEW q \in Requests,
             \/ RecordReference(q) \/ CheckPayment(q) \/ MarkPaid(q)
             \/ RequestAborts(q)
      PROVE  UNCHANGED ledgerVars
  BY <1>5 DEF RecordReference, CheckPayment, MarkPaid, RequestAborts
<1>6. CASE UNCHANGED vars
  BY <1>6 DEF vars
<1> QED
  BY <1>1, <1>2, <1>3, <1>4, <1>5, <1>6 DEF Next, RequestStep

-----------------------------------------------------------------------------
(* The inductive invariant is preserved.                                   *)

\* The conjuncts of PaymentTypeOK that no transaction of the ledger touches.
PayTypeOK ==
    /\ verified \subseteq Reservations
    /\ installment \in [Installments -> {"none", "EN_ATTENTE", "PAYE"}]
    /\ providerRef \in [Installments -> Sessions \cup {None}]
    /\ session \in [Sessions -> SessionRecords \cup {NoSession}]
    /\ request \in [Requests -> RequestRecords \cup {Idle}]

\* A schedule belongs to a reservation.
ForeignKeyOK == \A i \in Installments : installment[i] # "none" => Created(i[1])

\* The parts of PaymentTypeOK.
LEMMA TypeParts == PaymentTypeOK <=> LedgerTypeOK /\ PayTypeOK /\ ForeignKeyOK
BY DEF PaymentTypeOK, PayTypeOK, ForeignKeyOK

\* What the proofs of the single actions need, and prove, of IInv.
Links ==
    /\ SessionIsDue
    /\ ReferenceIsOwn
    /\ RequestIsOwn
    /\ OpeningIsExclusive
    /\ MarkIsAccepted
    /\ SaleIsPaid
    /\ PaidMeansAccepted

\* The deposit of a reservation is the installment with that label.
LEMMA DepositOf ==
    \A i \in Installments : i[2] = "acompte" => i = Acompte(i[1])
BY DEF Installments, Acompte

\* Schedules and identity checks.
LEMMA ScheduleStep ==
    ASSUME IInv, NEW r \in Reservations, GenerateSchedule(r) \/ KycChanges(r)
    PROVE  PayTypeOK' /\ Links' /\ ForeignKeyOK'
<1> USE DEF IInv, Links, PayTypeOK
<1>0. PayTypeOK /\ ForeignKeyOK
  BY TypeParts
<1>1. CASE KycChanges(r)
  BY <1>0, <1>1 DEF KycChanges, SessionIsDue, ReferenceIsOwn, RequestIsOwn, OpeningIsExclusive,
                    MarkIsAccepted, SaleIsPaid, PaidMeansAccepted, Accepted, ForeignKeyOK,
                    Created, ledgerVars
<1>2. CASE GenerateSchedule(r)
  <2>1. PayTypeOK'
    BY <1>0, <1>2 DEF GenerateSchedule
  <2>2. \A i \in Installments : installment[i] = "PAYE" /\ i[2] = "acompte" => installment'[i] = "PAYE"
    <3> SUFFICES ASSUME NEW i \in Installments, installment[i] = "PAYE", i[2] = "acompte"
                 PROVE  installment'[i] = "PAYE"
      OBVIOUS
    <3>1. i[1] # r
      BY <1>2, DepositOf DEF GenerateSchedule
    <3> QED BY <1>2, <3>1 DEF GenerateSchedule
  <2>3. \A i \in Installments : installment'[i] = "PAYE" => installment[i] = "PAYE"
    BY <1>0, <1>2 DEF GenerateSchedule
  <2>4. \A i \in Installments : installment[i] # "none" => installment'[i] # "none"
    BY <1>0, <1>2 DEF GenerateSchedule
  <2>5. UNCHANGED <<providerRef, session, request>>
    BY <1>2 DEF GenerateSchedule
  <2>6. SaleIsPaid'
    BY <2>2, <2>5, RequestFields DEF SaleIsPaid
  <2>7. PaidMeansAccepted'
    BY <2>3, <2>5 DEF PaidMeansAccepted, Accepted
  <2>8. Links'
    BY <2>4, <2>5, <2>6, <2>7
       DEF SessionIsDue, ReferenceIsOwn, RequestIsOwn, OpeningIsExclusive, MarkIsAccepted
  <2>9. ForeignKeyOK'
    BY <1>0, <1>2 DEF GenerateSchedule, ForeignKeyOK, Created, ledgerVars
  <2> QED BY <2>1, <2>8, <2>9
<1> QED BY <1>1, <1>2

\* The opening of a session, by a request that nobody else is in.
LEMMA InitiateStep ==
    ASSUME IInv, NEW q \in Requests, NEW i \in Installments, NEW s \in Sessions,
           NEW p \in Providers, InitiatePayment(q, i, s, p)
    PROVE  PayTypeOK' /\ Links' /\ ForeignKeyOK'
<1> USE DEF IInv, Links, PayTypeOK, InitiatePayment
<1>0. PayTypeOK /\ ForeignKeyOK /\ session[s].state = "unused"
  BY TypeParts DEF NoSession
<1>1. PayTypeOK'
  BY <1>0 DEF SessionRecords, RequestRecords
<1>2. /\ session'[s] = [state |-> "opening", inst |-> i, provider |-> p]
      /\ \A t \in Sessions \ {s} : session'[t] = session[t]
      /\ request'[q] = [step |-> "initiate", inst |-> i, sess |-> s]
      /\ \A o \in Requests \ {q} : request'[o] = request[o]
      /\ UNCHANGED <<ledgerVars, installment, providerRef>>
  BY <1>0
<1>3. SessionIsDue'
  BY <1>2 DEF SessionIsDue
<1>4. ReferenceIsOwn'
  BY <1>0, <1>2 DEF ReferenceIsOwn
<1>5. RequestIsOwn'
  BY <1>0, <1>2, RequestFields DEF RequestIsOwn
<1>6. OpeningIsExclusive'
  <2>1. \A o \in Requests \ {q} : request[o].step # "idle" => request[o].sess # s
    BY <1>0 DEF RequestIsOwn
  <2> QED BY <1>2, <2>1 DEF OpeningIsExclusive
<1>7. MarkIsAccepted'
  BY <1>0, <1>2 DEF MarkIsAccepted
<1>8. SaleIsPaid'
  BY <1>2 DEF SaleIsPaid
<1>9. PaidMeansAccepted'
  BY <1>0, <1>2 DEF PaidMeansAccepted, Accepted
<1>10. ForeignKeyOK'
  BY <1>0, <1>2 DEF ForeignKeyOK, Created, ledgerVars
<1> QED
  BY <1>1, <1>3, <1>4, <1>5, <1>6, <1>7, <1>8, <1>9, <1>10

\* The answer of the provider, and the payment on its page.
LEMMA SessionStep ==
    ASSUME IInv,
           \/ \E q \in Requests : RecordReference(q)
           \/ \E s \in Sessions, outcome \in {"accepted", "mispaid", "refused"} :
                 Settle(s, outcome)
    PROVE  PayTypeOK' /\ Links' /\ ForeignKeyOK'
<1> USE DEF IInv, Links, PayTypeOK
<1>0. PayTypeOK /\ ForeignKeyOK
  BY TypeParts
<1>1. ASSUME NEW q \in Requests, RecordReference(q)
      PROVE  PayTypeOK' /\ Links' /\ ForeignKeyOK'
  <2> DEFINE s == request[q].sess
             i == request[q].inst
  <2>1. s \in Sessions /\ i \in Installments
    BY <1>1, RequestFields DEF RecordReference
  <2>2. session[s].state = "opening" /\ session[s].inst = i
    BY <1>1 DEF RecordReference, OpeningIsExclusive, RequestIsOwn
  <2>3. session[s] \in SessionRecords
    BY <1>0, <2>1, <2>2 DEF NoSession
  <2>4. /\ session' = [session EXCEPT ![s].state = "open"]
        /\ providerRef' = [providerRef EXCEPT ![i] = s]
        /\ request' = [request EXCEPT ![q] = Idle]
        /\ UNCHANGED <<ledgerVars, verified, installment>>
    BY <1>1 DEF RecordReference, Finish
  <2> HIDE DEF s, i
  <2>5. PayTypeOK'
    BY <1>0, <2>1, <2>3, <2>4 DEF SessionRecords
  <2>6. /\ session'[s].state = "open" /\ session'[s].inst = i
        /\ \A t \in Sessions \ {s} : session'[t] = session[t]
        /\ request'[q].step = "idle"
        /\ \A o \in Requests \ {q} : request'[o] = request[o]
    BY <1>0, <2>1, <2>2, <2>3, <2>4 DEF SessionRecords, Idle
  <2>7. SessionIsDue' /\ ReferenceIsOwn' /\ RequestIsOwn'
    BY <1>0, <2>1, <2>2, <2>4, <2>6, RequestFields
       DEF SessionIsDue, ReferenceIsOwn, RequestIsOwn
  <2>8. OpeningIsExclusive'
    BY <1>1, <2>4, <2>6, RequestFields DEF OpeningIsExclusive, RecordReference, s
  <2>9. MarkIsAccepted' /\ SaleIsPaid'
    BY <2>2, <2>4, <2>6, RequestFields DEF MarkIsAccepted, SaleIsPaid
  <2>10. PaidMeansAccepted'
    BY <2>2, <2>4, <2>6 DEF PaidMeansAccepted, Accepted
  <2>11. ForeignKeyOK'
    BY <1>0, <2>4 DEF ForeignKeyOK, Created, ledgerVars
  <2> QED
    BY <2>5, <2>7, <2>8, <2>9, <2>10, <2>11
<1>2. ASSUME NEW s \in Sessions, NEW outcome \in {"accepted", "mispaid", "refused"},
             Settle(s, outcome)
      PROVE  PayTypeOK' /\ Links' /\ ForeignKeyOK'
  <2>1. session[s] \in SessionRecords /\ session[s].state = "open"
    BY <1>0, <1>2 DEF Settle, NoSession
  <2>2. PayTypeOK'
    BY <1>0, <1>2, <2>1 DEF Settle, SessionRecords
  <2>3. /\ session'[s].state = outcome /\ session'[s].inst = session[s].inst
        /\ \A t \in Sessions \ {s} : session'[t] = session[t]
        /\ UNCHANGED <<ledgerVars, installment, providerRef, request>>
    BY <1>0, <1>2, <2>1 DEF Settle, SessionRecords
  <2>4. SessionIsDue' /\ ReferenceIsOwn' /\ RequestIsOwn'
    BY <1>0, <2>1, <2>3, RequestFields DEF SessionIsDue, ReferenceIsOwn, RequestIsOwn
  <2>5. OpeningIsExclusive' /\ MarkIsAccepted' /\ SaleIsPaid'
    BY <2>1, <2>3, RequestFields DEF OpeningIsExclusive, MarkIsAccepted, SaleIsPaid
  <2>6. PaidMeansAccepted'
    BY <2>1, <2>3 DEF PaidMeansAccepted, Accepted
  <2>7. ForeignKeyOK'
    BY <1>0, <2>3 DEF ForeignKeyOK, Created, ledgerVars
  <2> QED
    BY <2>2, <2>4, <2>5, <2>6, <2>7
<1> QED
  BY <1>1, <1>2

\* A delivery starts: by its reference (CinetPay) or its metadata (Stripe).
LEMMA WebhookStep ==
    ASSUME IInv, NEW s \in Sessions, Webhook(s)
    PROVE  PayTypeOK' /\ Links' /\ ForeignKeyOK'
<1> USE DEF IInv, Links, PayTypeOK
<1>0. PayTypeOK /\ ForeignKeyOK
  BY TypeParts
<1>1. PICK q \in Requests, i \in Installments :
          /\ request' = [request EXCEPT ![q] = [step |-> "check", inst |-> i, sess |-> s]]
          /\ session[s].state # "unused" /\ session[s].inst = i
          /\ UNCHANGED <<ledgerVars, verified, installment, providerRef, session>>
  <2>1. ASSUME NEW q \in Requests, NEW i \in Installments, CinetPayWebhook(q, s, i)
        PROVE  session[s].state # "unused" /\ session[s].inst = i
    BY <1>0, <2>1, PaymentAssumption DEF CinetPayWebhook, ReferenceIsOwn, NoSession
  <2>2. ASSUME NEW q \in Requests, StripeWebhook(q, s)
        PROVE  session[s].state # "unused" /\ session[s].inst \in Installments
    BY <1>0, <2>2 DEF StripeWebhook, SessionIsDue
  <2> QED
    BY <2>1, <2>2 DEF Webhook, CinetPayWebhook, StripeWebhook
<1>2. PayTypeOK'
  BY <1>0, <1>1 DEF RequestRecords
<1>3. /\ request'[q] = [step |-> "check", inst |-> i, sess |-> s]
      /\ \A o \in Requests \ {q} : request'[o] = request[o]
  BY <1>0, <1>1
<1>4. SessionIsDue' /\ ReferenceIsOwn' /\ RequestIsOwn'
  BY <1>1, <1>3 DEF SessionIsDue, ReferenceIsOwn, RequestIsOwn
<1>5. OpeningIsExclusive' /\ MarkIsAccepted' /\ SaleIsPaid' /\ PaidMeansAccepted'
  BY <1>1, <1>3
     DEF OpeningIsExclusive, MarkIsAccepted, SaleIsPaid, PaidMeansAccepted, Accepted
<1>6. ForeignKeyOK'
  BY <1>0, <1>1 DEF ForeignKeyOK, Created, ledgerVars
<1> QED
  BY <1>2, <1>4, <1>5, <1>6

\* The update of the installment, the only write of PAYE.
LEMMA MarkStep ==
    ASSUME IInv, NEW q \in Requests, MarkPaid(q)
    PROVE  PayTypeOK' /\ Links' /\ ForeignKeyOK'
<1> USE DEF IInv, Links, PayTypeOK
<1>0. PayTypeOK /\ ForeignKeyOK
  BY TypeParts
<1> DEFINE s == request[q].sess
           i == request[q].inst
<1>1. s \in Sessions /\ i \in Installments /\ request[q] \in RequestRecords
  BY RequestFields DEF MarkPaid
<1>2. session[s].state = "accepted" /\ session[s].inst = i
  BY DEF MarkPaid, MarkIsAccepted, RequestIsOwn
<1>3. installment[i] # "none"
  BY <1>1, <1>2 DEF SessionIsDue
<1>4. /\ installment' = [installment EXCEPT ![i] = "PAYE"]
      /\ providerRef' = [providerRef EXCEPT ![i] = s]
      /\ UNCHANGED <<ledgerVars, verified, session>>
  BY DEF MarkPaid
<1>5. \/ /\ i[2] = "acompte"
         /\ request'[q] = [step |-> "confirm", inst |-> i, sess |-> s]
      \/ request'[q] = Idle
  BY <1>0, <1>1 DEF MarkPaid, Goto, Finish, RequestRecords
<1>6. \A o \in Requests \ {q} : request'[o] = request[o]
  BY <1>0 DEF MarkPaid, Goto, Finish
<1>7. request' \in [Requests -> RequestRecords \cup {Idle}]
  <2>1. request' = [request EXCEPT ![q] = Idle]
        \/ request' = [request EXCEPT ![q].step = "confirm"]
    BY DEF MarkPaid, Goto, Finish
  <2> QED BY <1>0, <1>1, <2>1 DEF RequestRecords
<1> HIDE DEF s, i
<1>8. PayTypeOK'
  BY <1>0, <1>1, <1>4, <1>7
<1>9. /\ installment'[i] = "PAYE"
      /\ \A j \in Installments \ {i} : installment'[j] = installment[j]
      /\ providerRef'[i] = s
      /\ \A j \in Installments \ {i} : providerRef'[j] = providerRef[j]
  BY <1>0, <1>1, <1>4
<1>10. SessionIsDue' /\ ReferenceIsOwn'
  BY <1>2, <1>4, <1>9 DEF SessionIsDue, ReferenceIsOwn
<1>11. RequestIsOwn' /\ OpeningIsExclusive' /\ MarkIsAccepted'
  BY <1>2, <1>4, <1>5, <1>6 DEF RequestIsOwn, OpeningIsExclusive, MarkIsAccepted, Idle
<1>12. SaleIsPaid'
  BY <1>5, <1>6, <1>9, RequestFields DEF SaleIsPaid, Idle
<1>13. PaidMeansAccepted'
  BY <1>1, <1>2, <1>4, <1>9 DEF PaidMeansAccepted, Accepted
<1>14. ForeignKeyOK'
  BY <1>0, <1>3, <1>4, <1>9 DEF ForeignKeyOK, Created, ledgerVars
<1> QED
  BY <1>8, <1>10, <1>11, <1>12, <1>13, <1>14

\* The steps of a delivery that touch neither a session nor an installment.
LEMMA DeliveryStep ==
    ASSUME IInv, NEW q \in Requests, CheckPayment(q) \/ ConfirmPaid(q) \/ RequestAborts(q)
    PROVE  PayTypeOK' /\ Links'
<1> USE DEF IInv, Links, PayTypeOK
<1>0. PayTypeOK
  BY TypeParts
<1>1. UNCHANGED <<verified, installment, providerRef, session>>
  BY DEF CheckPayment, ConfirmPaid, RequestAborts
<1>2. request[q] \in RequestRecords
  BY <1>0, RequestFields DEF CheckPayment, ConfirmPaid, RequestAborts, Idle
<1>3. \/ request' = [request EXCEPT ![q] = Idle]
      \/ Creditable(q) /\ request' = [request EXCEPT ![q].step = "mark"]
  BY DEF CheckPayment, ConfirmPaid, RequestAborts, Goto, Finish
<1>4. request' \in [Requests -> RequestRecords \cup {Idle}]
  BY <1>0, <1>2, <1>3 DEF RequestRecords
<1>5. \A o \in Requests \ {q} : request'[o] = request[o]
  BY <1>0, <1>3
<1>6. \/ request'[q].step = "idle"
      \/ /\ request'[q].step = "mark"
         /\ request'[q].inst = request[q].inst
         /\ request'[q].sess = request[q].sess
         /\ Creditable(q)
  BY <1>0, <1>2, <1>3 DEF Idle, RequestRecords
<1>7. SessionIsDue' /\ ReferenceIsOwn' /\ PaidMeansAccepted'
  BY <1>1 DEF SessionIsDue, ReferenceIsOwn, PaidMeansAccepted, Accepted
<1>8. RequestIsOwn'
  BY <1>1, <1>2, <1>5, <1>6 DEF RequestIsOwn, RequestRecords
<1>9. OpeningIsExclusive' /\ MarkIsAccepted' /\ SaleIsPaid'
  BY <1>1, <1>5, <1>6 DEF OpeningIsExclusive, MarkIsAccepted, SaleIsPaid, Creditable
<1> QED
  BY <1>0, <1>1, <1>4, <1>7, <1>8, <1>9

\* The invariant is inductive.
LEMMA NextInv ==
    ASSUME IInv, [Next]_vars
    PROVE  IInv'
<1>0. PaymentTypeOK /\ LedgerTypeOK /\ PayTypeOK /\ ForeignKeyOK
  BY TypeParts DEF IInv
<1>1. [LedgerNext]_ledgerVars
  BY <1>0, LedgerPart
<1>2. LedgerTypeOK'
  BY <1>0, <1>1, LedgerTypeStep
<1>3. ASSUME UNCHANGED installment PROVE ForeignKeyOK'
  <2> SUFFICES ASSUME NEW i \in Installments, installment[i] # "none"
               PROVE  Created(i[1])'
    BY <1>3 DEF ForeignKeyOK
  <2>1. i[1] \in Reservations /\ Created(i[1])
    BY <1>0 DEF ForeignKeyOK, Installments
  <2> QED BY <1>0, <1>1, <2>1, RowsStay
<1>4. PayTypeOK' /\ Links' /\ ForeignKeyOK'
  <2>1. CASE LedgerStep \/ UNCHANGED vars
    <3>1. UNCHANGED payVars
      BY <2>1 DEF LedgerStep, vars
    <3>2. PayTypeOK'
      BY <1>0, <3>1 DEF payVars, PayTypeOK
    <3>3. Links'
      BY <3>1 DEF payVars, IInv, Links, SessionIsDue, ReferenceIsOwn, RequestIsOwn,
                  OpeningIsExclusive, MarkIsAccepted, SaleIsPaid, PaidMeansAccepted, Accepted
    <3> QED BY <1>3, <3>1, <3>2, <3>3 DEF payVars
  <2>2. ASSUME NEW q \in Requests, RequestStep(q) \/ RequestAborts(q)
        PROVE  PayTypeOK' /\ Links' /\ ForeignKeyOK'
    <3>1. CASE RecordReference(q)
      BY <3>1, SessionStep
    <3>2. CASE MarkPaid(q)
      BY <3>2, MarkStep
    <3>3. CASE CheckPayment(q) \/ ConfirmPaid(q) \/ RequestAborts(q)
      <4>1. UNCHANGED installment
        BY <3>3 DEF CheckPayment, ConfirmPaid, RequestAborts
      <4> QED BY <1>3, <3>3, <4>1, DeliveryStep
    <3> QED BY <2>2, <3>1, <3>2, <3>3 DEF RequestStep
  <2> QED
    BY <2>1, <2>2, ScheduleStep, InitiateStep, SessionStep, WebhookStep DEF Next
<1>5. PaymentTypeOK'
  BY <1>2, <1>4, TypeParts DEF PaymentTypeOK, PayTypeOK, ForeignKeyOK
<1> QED
  BY <1>4, <1>5 DEF IInv, Links

\* The invariant holds in every reachable state.
LEMMA Invariant == Spec => []IInv
<1>1. IInv /\ [Next]_vars => IInv'
  BY NextInv
<1> QED
  BY <1>1, InitInv, PTL DEF Spec

-----------------------------------------------------------------------------
(* The theorems.                                                           *)

\* Type correctness, and a schedule only for a reservation that exists.
THEOREM PaymentType == Spec => []PaymentTypeOK
<1>1. IInv => PaymentTypeOK
  BY DEF IInv
<1> QED
  BY <1>1, Invariant, PTL

\* An installment is PAYE only if a provider has accepted its exact amount,
\* in a session opened for it.
THEOREM PaidIsAccepted == Spec => []PaidMeansAccepted
<1>1. IInv => PaidMeansAccepted
  BY DEF IInv
<1> QED
  BY <1>1, Invariant, PTL

\* The body of ConfirmationIsBacked, as a formula on one step.
BackedStep ==
    \A r \in Reservations, q \in Requests :
        request[q].inst = Acompte(r) /\ ConfirmPaid(q)
          => installment[Acompte(r)] = "PAYE" /\ Accepted(Acompte(r))

\* A webhook confirms a reservation only after its deposit has been accepted
\* and recorded.
THEOREM ConfirmationsAreBacked == Spec => ConfirmationIsBacked
<1>1. ASSUME IInv, NEW r \in Reservations, NEW q \in Requests,
             request[q].inst = Acompte(r), ConfirmPaid(q)
      PROVE  installment[Acompte(r)] = "PAYE" /\ Accepted(Acompte(r))
  <2>1. request[q].inst \in Installments
    BY <1>1, RequestFields DEF ConfirmPaid, IInv
  <2> QED BY <1>1, <2>1 DEF ConfirmPaid, IInv, SaleIsPaid, PaidMeansAccepted
<1>2. IInv /\ [Next]_vars => [BackedStep]_vars
  BY <1>1 DEF BackedStep
<1> QED
  BY <1>2, Invariant, PTL DEF Spec, ConfirmationIsBacked, BackedStep

\* The payment service moves reservations through the transactions of the
\* ledger alone: its confirmations come late, or twice, but never otherwise.
THEOREM PaymentImplementsLedger == Spec => LedgerSpec
<1>1. Init => LedgerInit
  BY DEF Init
<1>2. IInv /\ [Next]_vars => [LedgerNext]_ledgerVars
  BY LedgerPart DEF IInv
<1> QED
  BY <1>1, <1>2, Invariant, PTL DEF Spec, LedgerSpec

\* Among concurrent webhooks as well, a unit that nobody edited is never held
\* by nobody (inherited from the ledger).
THEOREM PaymentNoPhantomHold == Spec => []NoPhantomHold
BY PaymentImplementsLedger, LedgerNoPhantomHold, PTL

\* A payment starts a double sale by confirming a reservation already ANNULEE,
\* and in no other way (inherited from the ledger).
THEOREM PaymentDoubleSale == Spec => DoubleSaleNeedsLateWrite
BY PaymentImplementsLedger, LedgerDoubleSale, PTL

-----------------------------------------------------------------------------
(* The path of a deposit from its payment to its confirmation.             *)

\* A delivery about to confirm stays so until it is over.
LEMMA ConfirmingStays ==
    ASSUME PaymentTypeOK, [Next]_vars, NEW q \in Requests, request[q].step = "confirm"
    PROVE  request'[q] \in {request[q], Idle}
<1>1. request[q] # Idle
  BY DEF Idle
<1>2. ASSUME NEW p \in Requests, RequestStep(p) \/ RequestAborts(p)
      PROVE  request'[q] \in {request[q], Idle}
  BY <1>2 DEF RequestStep, RecordReference, CheckPayment, MarkPaid, ConfirmPaid, RequestAborts,
              Goto, Finish, PaymentTypeOK
<1>3. ASSUME NEW s \in Sessions,
             \/ \E p \in Requests, i \in Installments, v \in Providers : InitiatePayment(p, i, s, v)
             \/ \E outcome \in {"accepted", "mispaid", "refused"} : Settle(s, outcome)
             \/ Webhook(s)
      PROVE  request'[q] = request[q]
  BY <1>1, <1>3 DEF InitiatePayment, Settle, Webhook, CinetPayWebhook, StripeWebhook, PaymentTypeOK
<1>4. CASE \/ LedgerStep \/ UNCHANGED vars
           \/ \E r \in Reservations : GenerateSchedule(r) \/ KycChanges(r)
  BY <1>4 DEF LedgerStep, vars, payVars, GenerateSchedule, KycChanges
<1> QED
  BY <1>2, <1>3, <1>4 DEF Next

\* Only markInstallmentPaid makes an installment PAYE, and a delivery that
\* does so to a deposit is then about to confirm.
LEMMA DepositMarked ==
    ASSUME PaymentTypeOK, [Next]_vars, NEW r \in Reservations,
           installment[Acompte(r)] # "PAYE", installment'[Acompte(r)] = "PAYE"
    PROVE  \E q \in Requests : request'[q].step = "confirm" /\ request'[q].inst = Acompte(r)
<1>1. Acompte(r) \in Installments
  BY DEF Acompte, Installments
<1>2. PICK q \in Requests : MarkPaid(q)
  <2>1. ASSUME NEW q \in Requests,
               RecordReference(q) \/ CheckPayment(q) \/ ConfirmPaid(q) \/ RequestAborts(q)
        PROVE  UNCHANGED installment
    BY <2>1 DEF RecordReference, CheckPayment, ConfirmPaid, RequestAborts
  <2>2. ASSUME NEW s \in Sessions,
               \/ \E q \in Requests, i \in Installments, v \in Providers :
                     InitiatePayment(q, i, s, v)
               \/ \E outcome \in {"accepted", "mispaid", "refused"} : Settle(s, outcome)
               \/ Webhook(s)
        PROVE  UNCHANGED installment
    BY <2>2 DEF InitiatePayment, Settle, Webhook, CinetPayWebhook, StripeWebhook
  <2>3. ASSUME NEW s \in Reservations, GenerateSchedule(s) \/ KycChanges(s)
        PROVE  installment'[Acompte(r)] # "PAYE"
    BY <1>1, <2>3 DEF GenerateSchedule, KycChanges
  <2>4. CASE LedgerStep \/ UNCHANGED vars
    BY <2>4 DEF LedgerStep, vars, payVars
  <2> QED
    BY <2>1, <2>2, <2>3, <2>4 DEF Next, RequestStep
<1>3. request[q].inst = Acompte(r)
  BY <1>1, <1>2 DEF MarkPaid, PaymentTypeOK
<1>4. Goto(q, "confirm")
  BY <1>2, <1>3 DEF MarkPaid, Acompte
<1>5. request[q] \in RequestRecords
  BY <1>2 DEF MarkPaid, PaymentTypeOK, Idle
<1>6. request'[q] = [request[q] EXCEPT !.step = "confirm"]
  BY <1>4 DEF Goto, PaymentTypeOK
<1> QED
  BY <1>3, <1>5, <1>6 DEF RequestRecords

\* The invariant is inductive with the types.
LEMMA InHandStep ==
    ASSUME PaymentTypeOK, PaidDepositIsInHand, [Next /\ Outcome]_historyVars
    PROVE  PaidDepositIsInHand'
<1>1. CASE UNCHANGED historyVars
  BY <1>1 DEF historyVars, vars, payVars, PaidDepositIsInHand
<1>2. CASE Next /\ Outcome
  <2> SUFFICES ASSUME NEW r \in Reservations, installment'[Acompte(r)] = "PAYE"
               PROVE  \/ r \in confirmed' \cup dropped'
                      \/ \E q \in Requests :
                            request'[q].step = "confirm" /\ request'[q].inst = Acompte(r)
    BY DEF PaidDepositIsInHand
  <2>1. CASE installment[Acompte(r)] # "PAYE"
    BY <1>2, <2>1, DepositMarked
  <2>2. CASE r \in confirmed \cup dropped
    BY <1>2, <2>2 DEF Outcome
  <2>3. ASSUME NEW q \in Requests,
               request[q].step = "confirm", request[q].inst = Acompte(r)
        PROVE  \/ r \in confirmed' \cup dropped'
               \/ request'[q].step = "confirm" /\ request'[q].inst = Acompte(r)
    <3>1. request'[q] = request[q] \/ request'[q] = Idle
      BY <1>2, <2>3, ConfirmingStays
    <3>2. ASSUME request'[q] = Idle PROVE r \in confirmed' \cup dropped'
      BY <1>2, <2>3, <3>2 DEF Outcome, Over
    <3> QED BY <2>3, <3>1, <3>2
  <2> QED
    BY <2>1, <2>2, <2>3 DEF PaidDepositIsInHand
<1> QED
  BY <1>1, <1>2

\* A deposit recorded as paid has confirmed its reservation, or the delivery
\* that recorded it (markInstallmentPaid) is about to, or died before.
THEOREM PaidDepositStaysInHand == HistorySpec => []PaidDepositIsInHand
<1>1. HistoryInit => Init /\ PaidDepositIsInHand
  BY DEF HistoryInit, Init, PaidDepositIsInHand, Acompte, Installments
<1>2. [Next /\ Outcome]_historyVars => [Next]_vars
  BY DEF historyVars
<1>3. PaymentTypeOK /\ PaidDepositIsInHand /\ [Next /\ Outcome]_historyVars
          => PaidDepositIsInHand'
  BY InHandStep
<1> QED
  BY <1>1, <1>2, <1>3, PaymentType, PTL DEF HistorySpec, Spec

-----------------------------------------------------------------------------
(* The plan (buildInstallmentPlan).  What the deposit leaves of the price   *)
(* is cut into four tranches; the last one is their rest.  It is at least   *)
(* zero if the first three and the deposit, rounded, fit in the price.      *)

\* A hundred times what an exact deposit leaves to the four tranches.
Left == 100 * total - total * down

\* Each rounded tranche exceeds its share by half a franc at most.
RoundedIsNear ==
    /\ tranche > 1 => amount[1] \in Nat /\ 100 * amount[1] <= 100 * total - Left + 50
    /\ tranche > 2 => amount[2] \in Nat /\ 450 * amount[2] <= Left + 225
    /\ tranche > 3 => amount[3] \in Nat /\ 300 * amount[3] <= Left + 150
    /\ tranche > 4 => amount[4] \in Nat /\ 360 * amount[4] <= Left + 180

BalanceIsRest ==
    tranche > 5 => amount[5] = total - (amount[1] + amount[2] + amount[3] + amount[4])

KeptIsPositive == tranche = 7 => kept = {i \in Tranches : amount[i] > 0}

\* The inductive invariant.
PlanInv ==
    /\ PlanTypeOK
    /\ RoundedIsNear
    /\ BalanceIsRest
    /\ KeptIsPositive

\* Rounding a share of the price to a franc, either way when it is halfway.
LEMMA RoundedBounds ==
    ASSUME NEW n \in Nat, NEW francs \in Rounded(n)
    PROVE  francs \in Nat /\ 18000 * francs <= 2 * n + 9000
<1>1. /\ (2 * n + 9000) \div 18000 \in Nat
      /\ 18000 * ((2 * n + 9000) \div 18000) <= 2 * n + 9000
  OBVIOUS
<1>2. (2 * n + 9000) % 18000 = 0 => (2 * n + 9000) \div 18000 >= 1
  OBVIOUS
<1> QED BY <1>1, <1>2 DEF Rounded

\* The shares of the price, through what the deposit leaves.
LEMMA SharesOfLeft ==
    ASSUME PlanTypeOK
    PROVE  /\ total \in Nat /\ down \in 1 .. 100 /\ Left \in Nat
           /\ total * Share(1) = 9000 * total - 90 * Left
           /\ total * Share(2) = 20 * Left
           /\ total * Share(3) = 30 * Left
           /\ total * Share(4) = 25 * Left
<1>1. total \in Nat /\ down \in 1 .. 100
  BY PlanAssumption DEF PlanTypeOK
<1>2. Share(1) = 90 * down /\ Share(2) = 20 * (100 - down)
  BY DEF Share, BalanceWeight
<1>3. Share(3) = 30 * (100 - down) /\ Share(4) = 25 * (100 - down)
  BY DEF Share, BalanceWeight
<1>4. Left = total * (100 - down) /\ Left \in Nat
  BY <1>1 DEF Left
<1>5. ASSUME NEW t \in Nat, NEW w \in Nat, NEW d \in Int
      PROVE  t * (w * d) = w * (t * d)
  OBVIOUS
<1>6. /\ total * (20 * (100 - down)) = 20 * (total * (100 - down))
      /\ total * (30 * (100 - down)) = 30 * (total * (100 - down))
      /\ total * (25 * (100 - down)) = 25 * (total * (100 - down))
      /\ total * (90 * down) = 90 * (total * down)
  BY <1>1, <1>5
<1>7. 9000 * total - 90 * Left = 90 * (total * down)
  <2>1. total * down \in Int
    BY <1>1
  <2> QED BY <1>1, <2>1 DEF Left
<1> QED BY <1>1, <1>2, <1>3, <1>4, <1>6, <1>7

\* Each tranche is rounded to a number of francs near its share.
LEMMA RoundStep ==
    ASSUME PlanInv, RoundTranche
    PROVE  PlanInv'
<1> USE DEF PlanInv, RoundTranche
<1>1. PICK francs \in Rounded(total * Share(tranche)) :
         amount' = [amount EXCEPT ![tranche] = francs]
  OBVIOUS
<1>2. /\ total \in Nat /\ Left \in Nat /\ Left' = Left
      /\ 9000 * total - 90 * Left \in Nat
  <2>1. Left' = Left
    BY DEF Left
  <2>2. 9000 * total - 90 * Left = 90 * (total * down) /\ total * down \in Nat
    BY SharesOfLeft DEF Left
  <2> QED BY <2>1, <2>2, SharesOfLeft
<1>3. CASE tranche = 1
  <2>1. francs \in Nat /\ 18000 * francs <= 2 * (9000 * total - 90 * Left) + 9000
    BY <1>1, <1>2, <1>3, RoundedBounds, SharesOfLeft
  <2>2. 100 * francs <= 100 * total - Left + 50
    BY <1>2, <2>1
  <2>3. PlanTypeOK'
    BY <1>1, <2>1 DEF PlanTypeOK, Tranches
  <2> QED
    BY <1>1, <1>2, <1>3, <2>1, <2>2, <2>3
       DEF RoundedIsNear, BalanceIsRest, KeptIsPositive, PlanTypeOK, Tranches
<1>4. CASE tranche = 2
  <2>1. francs \in Nat /\ 18000 * francs <= 2 * (20 * Left) + 9000
    BY <1>1, <1>2, <1>4, RoundedBounds, SharesOfLeft
  <2>2. 450 * francs <= Left + 225
    BY <1>2, <2>1
  <2>3. PlanTypeOK'
    BY <1>1, <2>1 DEF PlanTypeOK, Tranches
  <2> QED
    BY <1>1, <1>2, <1>4, <2>1, <2>2, <2>3
       DEF RoundedIsNear, BalanceIsRest, KeptIsPositive, PlanTypeOK, Tranches
<1>5. CASE tranche = 3
  <2>1. francs \in Nat /\ 18000 * francs <= 2 * (30 * Left) + 9000
    BY <1>1, <1>2, <1>5, RoundedBounds, SharesOfLeft
  <2>2. 300 * francs <= Left + 150
    BY <1>2, <2>1
  <2>3. PlanTypeOK'
    BY <1>1, <2>1 DEF PlanTypeOK, Tranches
  <2> QED
    BY <1>1, <1>2, <1>5, <2>1, <2>2, <2>3
       DEF RoundedIsNear, BalanceIsRest, KeptIsPositive, PlanTypeOK, Tranches
<1>6. CASE tranche = 4
  <2>1. francs \in Nat /\ 18000 * francs <= 2 * (25 * Left) + 9000
    BY <1>1, <1>2, <1>6, RoundedBounds, SharesOfLeft
  <2>2. 360 * francs <= Left + 180
    BY <1>2, <2>1
  <2>3. PlanTypeOK'
    BY <1>1, <2>1 DEF PlanTypeOK, Tranches
  <2> QED
    BY <1>1, <1>2, <1>6, <2>1, <2>2, <2>3
       DEF RoundedIsNear, BalanceIsRest, KeptIsPositive, PlanTypeOK, Tranches
<1> QED BY <1>3, <1>4, <1>5, <1>6

LEMMA PlanStep ==
    ASSUME PlanInv, [PlanNext]_planVars
    PROVE  PlanInv'
<1> USE DEF PlanInv
<1>1. CASE RoundTranche
  BY <1>1, RoundStep
<1>2. CASE Balance
  <2>1. total \in Int /\ amount[1] + amount[2] + amount[3] + amount[4] \in Int
    BY PlanAssumption DEF PlanTypeOK, Tranches
  <2>2. PlanTypeOK'
    BY <1>2, <2>1 DEF Balance, PlanTypeOK, Tranches
  <2>3. RoundedIsNear'
    BY <1>2 DEF Balance, RoundedIsNear, Left, PlanTypeOK, Tranches
  <2>4. BalanceIsRest' /\ KeptIsPositive'
    BY <1>2 DEF Balance, BalanceIsRest, KeptIsPositive, PlanTypeOK, Tranches
  <2> QED BY <1>2, <2>2, <2>3, <2>4 DEF Balance
<1>3. CASE DropEmpty
  BY <1>3 DEF DropEmpty, PlanTypeOK, RoundedIsNear, Left, BalanceIsRest, KeptIsPositive
<1>4. CASE UNCHANGED planVars
  BY <1>4 DEF planVars, PlanTypeOK, RoundedIsNear, Left, BalanceIsRest, KeptIsPositive
<1> QED BY <1>1, <1>2, <1>3, <1>4 DEF PlanNext

LEMMA PlanInvariant == PlanSpec => []PlanInv
<1>1. PlanInit => PlanInv
  BY DEF PlanInit, PlanInv, PlanTypeOK, RoundedIsNear, BalanceIsRest, KeptIsPositive, Tranches
<1>2. PlanInv /\ [PlanNext]_planVars => PlanInv'
  BY PlanStep
<1> QED BY <1>1, <1>2, PTL DEF PlanSpec

\* A plan whose first four tranches fit in the price loses nothing to the
\* final filter.
LEMMA PlanAddsUp ==
    ASSUME PlanInv, Done, amount[1] + amount[2] + amount[3] + amount[4] <= total
    PROVE  PlanTotal = total
<1>1. total \in Nat
  BY PlanAssumption DEF PlanInv, PlanTypeOK
<1>2. amount[1] \in Nat /\ amount[2] \in Nat /\ amount[3] \in Nat /\ amount[4] \in Nat
  BY DEF PlanInv, RoundedIsNear, Done
<1>3. /\ amount[5] = total - (amount[1] + amount[2] + amount[3] + amount[4])
      /\ amount[5] \in Nat
  BY <1>1, <1>2 DEF PlanInv, BalanceIsRest, Done
<1>4. \A i \in Tranches : amount[i] \in Nat
  BY <1>2, <1>3 DEF Tranches
<1>5. kept = {i \in Tranches : amount[i] > 0}
  BY DEF PlanInv, KeptIsPositive, Done
<1>6. ASSUME NEW i \in Tranches PROVE Due(i) = amount[i]
  <2>1. CASE i \in kept
    BY <2>1 DEF Due
  <2>2. CASE i \notin kept
    <3>1. ~(amount[i] > 0)
      BY <1>5, <2>2
    <3> QED BY <1>4, <2>2, <3>1 DEF Due
  <2> QED BY <2>1, <2>2
<1> QED BY <1>1, <1>2, <1>3, <1>6 DEF PlanTotal, Tranches

\* Under the default deposit, the four rounded tranches never take more than
\* the price.
LEMMA DefaultFits ==
    ASSUME NEW t \in Nat, NEW a \in Nat, NEW b \in Nat, NEW c \in Nat, NEW d \in Nat,
           100 * a <= 10 * t + 50, 450 * b <= 90 * t + 225,
           300 * c <= 90 * t + 150, 360 * d <= 90 * t + 180
    PROVE  a + b + c + d <= t
<1>1. /\ 10 * a <= t + 5 /\ 10 * b <= 2 * t + 5
      /\ 10 * c <= 3 * t + 5 /\ 4 * d <= t + 2
  OBVIOUS
<1> QED BY <1>1

\* Nor do they for another deposit, if it leaves nothing or more than 2.50
\* francs: beyond six francs the exact balance makes up for the rounding of
\* the four others, and below that there are few francs to round.
LEMMA OtherFits ==
    ASSUME NEW t \in Nat, NEW x \in Nat, x = 0 \/ x > 250,
           NEW a \in Nat, NEW b \in Nat, NEW c \in Nat, NEW d \in Nat,
           100 * a <= 100 * t - x + 50, 450 * b <= x + 225,
           300 * c <= x + 150, 360 * d <= x + 180
    PROVE  a + b + c + d <= t
<1>1. CASE x = 0
  BY <1>1
<1>2. CASE x > 600
  BY <1>2
<1>3. CASE x \in 251 .. 449
  <2>1. b <= 1 /\ c <= 1 /\ d <= 1
    BY <1>3
  <2> QED BY <1>3, <2>1
<1>4. CASE x \in 450 .. 539
  <2>1. b <= 1 /\ c <= 2 /\ d <= 1
    BY <1>4
  <2> QED BY <1>4, <2>1
<1>5. CASE x \in 540 .. 600
  <2>1. b <= 1 /\ c <= 2 /\ d <= 2
    BY <1>5
  <2> QED BY <1>5, <2>1
<1> QED BY <1>1, <1>2, <1>3, <1>4, <1>5

\* The plan of a reservation is exact to the franc for every price.
THEOREM DefaultPlanAddsUp == PlanSpec => []DefaultPlanIsExact
<1>1. PlanInv => DefaultPlanIsExact
  <2> SUFFICES ASSUME PlanInv, Done, down = DefaultDownPayment
               PROVE  amount[1] + amount[2] + amount[3] + amount[4] <= total
    BY PlanAddsUp DEF DefaultPlanIsExact
  <2>1. total \in Nat /\ Left = 90 * total
    BY SharesOfLeft DEF PlanInv, Left, DefaultDownPayment
  <2>2. /\ amount[1] \in Nat /\ 100 * amount[1] <= 10 * total + 50
        /\ amount[2] \in Nat /\ 450 * amount[2] <= 90 * total + 225
        /\ amount[3] \in Nat /\ 300 * amount[3] <= 90 * total + 150
        /\ amount[4] \in Nat /\ 360 * amount[4] <= 90 * total + 180
    BY <2>1 DEF PlanInv, RoundedIsNear, Done
  <2> QED BY <2>1, <2>2, DefaultFits
<1> QED BY <1>1, PlanInvariant, PTL

\* "La somme des montants est STRICTEMENT égale à totalAmount": for every
\* deposit, from 251 francs on.
THEOREM LargePlanAddsUp == PlanSpec => []LargePlanIsExact
<1>1. PlanInv => LargePlanIsExact
  <2> SUFFICES ASSUME PlanInv, Done, total > 250
               PROVE  amount[1] + amount[2] + amount[3] + amount[4] <= total
    BY PlanAddsUp DEF LargePlanIsExact
  <2>1. total \in Nat /\ down \in 1 .. 100 /\ Left \in Nat
    BY SharesOfLeft DEF PlanInv
  <2>2. Left = 0 \/ Left > 250
    <3>1. CASE down = 100
      BY <2>1, <3>1 DEF Left
    <3>2. CASE down # 100
      <4>1. Left = total * (100 - down) /\ 100 - down >= 1
        BY <2>1, <3>2 DEF Left
      <4> QED BY <2>1, <4>1
    <3> QED BY <3>1, <3>2
  <2>3. /\ amount[1] \in Nat /\ 100 * amount[1] <= 100 * total - Left + 50
        /\ amount[2] \in Nat /\ 450 * amount[2] <= Left + 225
        /\ amount[3] \in Nat /\ 300 * amount[3] <= Left + 150
        /\ amount[4] \in Nat /\ 360 * amount[4] <= Left + 180
    BY DEF PlanInv, RoundedIsNear, Done
  <2> QED BY <2>1, <2>2, <2>3, OtherFits
<1> QED BY <1>1, PlanInvariant, PTL

=============================================================================
