--------------------------- MODULE MCAuthSessions ---------------------------
(* TLC instances of the accounts and their sessions.                       *)
EXTENDS AuthSessions, TLC

Symmetry == Permutations(Users) \cup Permutations(Tokens)
                \cup Permutations(Links) \cup Permutations(Requests)

=============================================================================
