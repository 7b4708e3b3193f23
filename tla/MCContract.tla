----------------------------- MODULE MCContract -----------------------------
(* TLC instances of the sale contracts of a reservation.                   *)
EXTENDS ContractHistory

=============================================================================
