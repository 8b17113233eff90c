------------------------------- MODULE MCPaper -------------------------------
EXTENDS PaperTrading, TLC

\* Amounts in eighths of a unit.  Of Steep's three levels the second is rounded
\* up, so that the third does not fit the budget any more; of Flat's two levels
\* the second is independent.
Steep == [budget |-> 32, base |-> 8, max |-> 2, num |-> 3, den |-> 2, from |-> 3,
          signs |-> TRUE]
Flat == [budget |-> 24, base |-> 8, max |-> 1, num |-> 1, den |-> 1, from |-> 2,
         signs |-> TRUE]
MCConfigs == {Steep, Flat}
Symmetric == Permutations(Ticks)
=============================================================================
