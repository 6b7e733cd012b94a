--------------------------- MODULE MCSubscriptions ---------------------------
EXTENDS Subscriptions, TLC

CONSTANTS u1, g1, monthly

\* One user and subscriptions to the plan of one grade: the second may be a renewal, a
\* double payment or an administrator's.
MCUserOf == [s \in Sub |-> u1]
MCPlanOf == [s \in Sub |-> monthly]
MCGradeOf == [pl \in Plan |-> g1]
MCDurationOf == [pl \in Plan |-> 1]

Interchangeable == Permutations(Proc) \cup Permutations(Sub) \cup Permutations(Payment)
=============================================================================
