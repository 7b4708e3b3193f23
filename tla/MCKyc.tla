------------------------------- MODULE MCKyc --------------------------------
(* TLC instances of the identity documents of one buyer.                   *)
EXTENDS Kyc, TLC

Symmetry == Permutations(Batches) \cup Permutations(Reviewers)

=============================================================================
