------------------------------ MODULE Catalogue ------------------------------
(* What the sections of the catalogue page share: the units, and nothing.  *)

CONSTANTS
    Units,      \* ids that rows of "units" may take
    None        \* no unit, no row, an empty input

ASSUME CatalogueAssumption == None \notin Units

=============================================================================
