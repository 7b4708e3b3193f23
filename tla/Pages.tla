-------------------------------- MODULE Pages --------------------------------
(* What the pages share: a constant for what is missing, and the slot that *)
(* a new request takes, the first of those that are free.                  *)
EXTENDS Naturals

CONSTANT None   \* no row, no dialog, no answer

IsFirst(x, S) == x \in S /\ \A y \in S : x <= y

=============================================================================
