----------------------------- MODULE MCTeachers -----------------------------
EXTENDS Teachers, FiniteSetsExt, TLC

CONSTANTS w1, w2

MCAmountOf == w1 :> 1 @@ w2 :> 2
MCTotal == [S \in SUBSET Withdrawal |-> MapThenSumSet(LAMBDA w : AmountOf[w], S)]
\* A weekly window in which bookings of an hour overlap, and one that is never deleted.
MCWindows == {[from |-> 0, to |-> 3, recurring |-> TRUE], [from |-> 0, to |-> 2, recurring |-> FALSE]}

Interchangeable == Permutations(Proc) \cup Permutations(Booking)
=============================================================================
