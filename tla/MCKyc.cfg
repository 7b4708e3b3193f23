\* Two submissions, two reviewers, and the purges they cause.
CONSTANTS
    Batches = {d1, d2}
    Reviewers = {h1, h2}
SPECIFICATION KycSpec
SYMMETRY Symmetry
INVARIANTS
    FacesMatchObjects
    RejectedIsErased

    
\* Nothing is left to do when the batches of the bound are settled.
CHECK_DEADLOCK FALSE
