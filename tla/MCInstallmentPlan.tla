------------------------- MODULE MCInstallmentPlan -------------------------
(* A TLC instance of the installment plan.                                 *)
EXTENDS InstallmentPlan

\* Every residue of the rounding of the default shares (a period of 20
\* francs) and the prices too small for four tranches; the first prices that
\* are large enough for every deposit.
MCTotals == (0 .. 60) \cup (251 .. 270)

AllDownPayments == 1 .. 100

=============================================================================
