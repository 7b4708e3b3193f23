\* Two sessions and two requests in flight on the installments of one reservation.
CONSTANTS
    Units = {u1}
    Reservations = {r1}
    Sessions = {s1, s2}
    Requests = {q1, q2}
    None = None
    EditStatuses = {"DISPONIBLE"}
SPECIFICATION HistorySpec
SYMMETRY Symmetry
INVARIANTS
    PaidMeansAccepted
PROPERTIES
    ConfirmationIsBacked
