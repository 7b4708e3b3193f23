\* Every deposit, at small prices and above 250 francs.
CONSTANTS
    Totals <- MCTotals
    DownPayments <- AllDownPayments
SPECIFICATION PlanSpec
INVARIANTS
    DefaultPlanIsExact
    LargePlanIsExact
\* The plan is computed once.
CHECK_DEADLOCK FALSE
