------------------------------ MODULE MCLaunch ------------------------------
(* TLC instances of the life of a block.                                   *)
EXTENDS LaunchHistory, TLC

\* Units, reservations and handlers are interchangeable.
Symmetry == Permutations(Units) \cup Permutations(Reservations)
                \cup Permutations(Handlers)

=============================================================================
