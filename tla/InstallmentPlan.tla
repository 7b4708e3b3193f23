-------------------------- MODULE InstallmentPlan --------------------------
(***************************************************************************)
(* How a price is cut into a deposit and four tranches                     *)
(* (buildInstallmentPlan), one loop iteration per step.  generateSchedule  *)
(* asks for the default deposit, the simulator for any.                    *)
(*                                                                         *)
(* Amounts are whole francs.  Shares are fractions of 9000: the code       *)
(* computes them in floating point, so that a share that falls exactly     *)
(* halfway between two francs may be rounded either way.                   *)
(***************************************************************************)
EXTENDS Integers, Sequences

CONSTANTS
    Totals,         \* bound: the prices considered
    DownPayments    \* bound: the deposits considered, in percent

ASSUME PlanAssumption ==
    /\ Totals \subseteq Nat
    /\ DownPayments \subseteq 1 .. 100

VARIABLES
    total,      \* totalAmount
    down,       \* downPaymentPercent
    tranche,    \* the tranche the loop is at, then 6 and 7
    amount,     \* items[i].amount
    kept        \* the tranches left by the final filter

planVars == <<total, down, tranche, amount, kept>>

Tranches == 1 .. 5

DefaultDownPayment == 10

\* BALANCE_TRANCHES: percents of the price under the default deposit; their
\* sum is 90.
BalanceWeight == <<20, 30, 25, 15>>

\* items[i].percent, as a fraction of 9000.
Share(i) == IF i = 1 THEN 90 * down ELSE BalanceWeight[i - 1] * (100 - down)

\* Math.round(n / 9000).
Rounded(n) ==
    LET up == (2 * n + 9000) \div 18000
    IN  IF (2 * n + 9000) % 18000 = 0 THEN {up, up - 1} ELSE {up}

PlanTypeOK ==
    /\ total \in Totals
    /\ down \in DownPayments
    /\ tranche \in 1 .. 7
    /\ amount \in [Tranches -> Int]
    /\ kept \subseteq Tranches

PlanInit ==
    /\ total \in Totals
    /\ down \in DownPayments
    /\ tranche = 1
    /\ amount = [i \in Tranches |-> 0]
    /\ kept = Tranches

RoundTranche ==
    /\ tranche \in 1 .. 4
    /\ \E francs \in Rounded(total * Share(tranche)) :
          amount' = [amount EXCEPT ![tranche] = francs]
    /\ tranche' = tranche + 1
    /\ UNCHANGED <<total, down, kept>>

\* Fault: the last tranche is rounded like the others.
FaultBalanceRounded ==
    /\ tranche = 5
    /\ \E francs \in Rounded(total * Share(5)) : amount' = [amount EXCEPT ![5] = francs]
    /\ tranche' = 6
    /\ UNCHANGED <<total, down, kept>>

\* The last tranche takes what is left.
Balance ==
    /\ tranche = 5
    /\ amount' = [amount EXCEPT ![5] =
                     total - (amount[1] + amount[2] + amount[3] + amount[4])]
    /\ tranche' = 6
    /\ UNCHANGED <<total, down, kept>>

\* items.filter(amount > 0).
DropEmpty ==
    /\ tranche = 6
    /\ kept' = {i \in Tranches : amount[i] > 0}
    /\ tranche' = 7
    /\ UNCHANGED <<total, down, amount>>

PlanNext == RoundTranche \/ Balance \/ DropEmpty

PlanSpec == PlanInit /\ [][PlanNext]_planVars

Done == tranche = 7

Due(i) == IF i \in kept THEN amount[i] ELSE 0

PlanTotal == Due(1) + Due(2) + Due(3) + Due(4) + Due(5)

-----------------------------------------------------------------------------

\* The plan of a real reservation (default deposit) is exact to the franc,
\* whatever the price: the rounding of four tranches never takes more than
\* the whole, so that the filter never drops a negative balance
\* (buildInstallmentPlan, called by generateSchedule).
DefaultPlanIsExact == Done /\ down = DefaultDownPayment => PlanTotal = total

\* "La somme des montants est STRICTEMENT égale à totalAmount": so it is for
\* every deposit from 251 francs on (below, the rounding of four tranches may
\* exceed the price: the balance is then negative, and is dropped).
LargePlanIsExact == Done /\ total > 250 => PlanTotal = total

=============================================================================
