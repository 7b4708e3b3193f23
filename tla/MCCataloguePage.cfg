\* Two units; one buyer against two handlers, three requests on pictures, two
\* views edited once.
CONSTANTS
    Units = {u1, u2}
    Reservations = {r1}
    Handlers = {h1, h2}
    Choices = {"ARCHIVE"}
    Requests = {q1, q2, q3}
    Views = {v1, v2}
    MaxText = 1
    None = None
SPECIFICATION Spec
SYMMETRY Symmetry
INVARIANTS
    FormWritesItsOwn
    FilesMatchRows
    WindowShowsDraft
PROPERTIES
    DeskImplementsLedger
\* Handlers and requests are bounded.
CHECK_DEADLOCK FALSE
