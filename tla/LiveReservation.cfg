\* The end of a hold, while the back office edits, cancels and reopens.
CONSTANTS
    Units = {u1}
    Reservations = {r1}
    Users = {b1}
    Handlers = {h1}
    None = None
    EditStatuses = {"DISPONIBLE"}
SPECIFICATION FairHistorySpec
PROPERTIES
    ArmedHoldSettles
