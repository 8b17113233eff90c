----------------------------- MODULE MCBacktest -----------------------------
EXTENDS BacktestRuns

CONSTANTS q1, q2

MCStrategies == {[maxEntries |-> 3, from |-> 3, target |-> 20],
                 [maxEntries |-> 3, from |-> 2, target |-> 20],
                 [maxEntries |-> 1, from |-> 3, target |-> 20]}
MCPrices == {4, 8, 12}
MCTimes == {2, 8}
MCHistories == {<<12, 8, 4, 4, 4>>}
MCInterim == {4}
Symmetric == Permutations(Requests)
=============================================================================
