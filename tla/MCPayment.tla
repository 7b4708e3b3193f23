----------------------------- MODULE MCPayment -----------------------------
(* TLC instances of the payment service.                                   *)
EXTENDS PaymentHistory, TLC

\* Sessions and requests in flight are interchangeable.
Symmetry == Permutations(Sessions) \cup Permutations(Requests)

=============================================================================
