----------------------------- MODULE MCSitePages -----------------------------
(* TLC instances of the pages.                                             *)
EXTENDS SitePages, TLC

\* The two rows of a page are interchangeable, whatever they are rows of.
Symmetry == Permutations(Bookings)

=============================================================================
