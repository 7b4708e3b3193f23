\* Two sessions, one delivery at a time, under redelivery.
CONSTANTS
    Units = {u1}
    Reservations = {r1}
    Sessions = {s1, s2}
    Requests = {q1}
    None = None
    EditStatuses = {}
SPECIFICATION FairHistorySpec
PROPERTIES
    AcceptedPaymentIsCredited
    PaidDepositConfirms
