\* Model Unit's promise of a single active reservation.
CONSTANTS
    Units = {u1}
    Reservations = {r1, r2}
    Users = {b1}
    Handlers = {h1}
    None = None
    EditStatuses = {}
SPECIFICATION BuyerHistorySpec
INVARIANT
    SingleActive
