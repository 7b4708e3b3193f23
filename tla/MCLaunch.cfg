\* Two sales checked at once, with edits and other thresholds.
CONSTANTS
    Units = {u1, u2}
    Reservations = {r1, r2}
    Handlers = {h1, h2}
    Thresholds = {50, 100}
    EditStatuses = {"LIVRE"}
    None = None
SPECIFICATION HistorySpec
SYMMETRY Symmetry
INVARIANTS
    CrossingIsNoticed
PROPERTIES
    OffCourseByOvertakenOnly
