------------------------------ MODULE RiskBudget ------------------------------
(***************************************************************************)
(* The plan of purchases a strategy's parameters stand for.  Amounts are   *)
(* counted in sub-units; a column holds multiples of Unit only, so an      *)
(* amount that is stored or planned is rounded.  The price drops at which  *)
(* the levels trigger are left out with the prices.                        *)
(***************************************************************************)
EXTENDS Integers, Sequences, FiniteSets

CONSTANT Unit    \* sub-units in the smallest amount that is stored
ASSUME UnitAssumption == Unit \in Nat \ {0}

\* DcaPlanInput.  The multiplier is num / den; signs says whether the step and
\* the take-profit percentages are positive.
Plan == [budget : Nat, base : Nat, max : Nat, num : Nat, den : Nat \ {0}, from : Nat,
         signs : BOOLEAN]

Lower(a, b) == IF a <= b THEN a ELSE b
Round(amount) == ((amount + Unit \div 2) \div Unit) * Unit

Valid(c) ==
    /\ c.budget > 0 /\ c.base > 0 /\ c.max <= 50
    /\ c.signs /\ c.num >= c.den /\ c.from >= 1

\* b to the n, written out: the prover knows nothing of ^.
Power(b, n) == LET power[k \in 0..n] == IF k = 0 THEN 1 ELSE b * power[k - 1] IN power[n]
Raw(c, level) == (c.base * Power(c.num, level - 1)) \div Power(c.den, level - 1)

\* What is allocated to the levels up to n: what they ask for or what is left.
Allocated(c) ==
    LET sum[n \in 0..c.max + 1] ==
            IF n = 0 THEN 0 ELSE Lower(c.budget, sum[n - 1] + Raw(c, n))
    IN sum

\* buildPlan
BuildPlan(c) ==
    LET sum == Allocated(c)
        levels == {n \in 1..c.max + 1 : sum[n - 1] < c.budget}
    IN [n \in 1..Cardinality(levels) |->
           [quote |-> Round(sum[n] - sum[n - 1]), independent |-> n >= c.from]]

\* Fault: only the sign of the order is looked at.
WithinBudget_Unchecked(quote, allocated, budget) == quote > 0

\* assertWithinBudget
WithinBudget(quote, allocated, budget) == quote > 0 /\ allocated + quote <= budget
=============================================================================
