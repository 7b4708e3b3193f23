--------------------------- MODULE MCReservation ---------------------------
(* TLC instances of the reservation service.                               *)
EXTENDS ReservationHistory, TLC

\* Ids of reservations, buyers and requests are interchangeable.
Symmetry ==
    Permutations(Reservations) \cup Permutations(Users) \cup Permutations(Handlers)

=============================================================================
