--------------------------- MODULE MCCataloguePage ---------------------------
(* TLC instances of the catalogue page.                                    *)
EXTENDS CataloguePage, TLC

\* Units, handlers and views are interchangeable.
Symmetry == Permutations(Units) \cup Permutations(Handlers) \cup Permutations(Views)

=============================================================================
