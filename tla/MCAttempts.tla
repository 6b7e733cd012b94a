----------------------------- MODULE MCAttempts -----------------------------
EXTENDS Attempts, TLC

CONSTANTS q1, q2

Asks(type, points) ==
    [type |-> type, points |-> points, partialCredit |-> TRUE, correctOptions |-> {"a", "b"}, correctAnswer |-> TRUE,
     acceptedAnswers |-> <<{"", "x"}, {"y"}>>, pairs |-> {"a", "b"}, correctOrder |-> <<"a", "b">>]

MCContents == q1 :> {Asks("mcq_multi", 3)} @@ q2 :> {Asks("essay", 2), Asks("ordering", 1)}

Selecting(options) == [NoAnswer EXCEPT !.selectedOptions = options]
Ordering(items) == [NoAnswer EXCEPT !.orderedItems = items]

MCGiven == q1 :> {Selecting(<<"a">>), Selecting(<<"c">>), NoAnswer} @@ q2 :> {Ordering(<<"a", "b">>)}

Interchangeable == Permutations(Proc) \cup Permutations(Attempt)
=============================================================================
