\* Two addresses, two requests in flight, one link.
CONSTANTS
    Users = {u1, u2}
    Tokens = {t1, t2, t3}
    Links = {l1}
    Requests = {q1, q2}
    None = None
SPECIFICATION Spec
SYMMETRY Symmetry
INVARIANTS
    RevokedForGood
    SuccessorsNeedOverlap
    LinkUsesNeedOverlap
