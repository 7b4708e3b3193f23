\* Two reservations of one unit, one call in flight, the back office too.
CONSTANTS
    Units = {u1}
    Reservations = {r1, r2}
    Users = {b1}
    Handlers = {h1}
    None = None
    EditStatuses = {}
SPECIFICATION HistorySpec
SYMMETRY Symmetry
INVARIANTS
    PayableHoldIsArmed
    NoPhantomHold
PROPERTIES
    LedgerSpec
    DoubleSaleNeedsLateWrite
    UndoneByOvertakenOnly
