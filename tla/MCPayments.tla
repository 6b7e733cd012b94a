----------------------------- MODULE MCPayments -----------------------------
EXTENDS Payments, TLC

CONSTANTS t1, t2, u1, c1, course, plan, session

MCUserOf == [t \in Txn |-> u1]
MCCodeOf == [t \in Txn |-> c1]
MCKindOf == [r \in Ref |-> CASE r = course -> "course" [] r = plan -> "plan" [] OTHER -> "session"]

Buy(r, through, code) == [ref |-> r, provider |-> through, promo |-> code]
Both(a, b) == [t \in Txn |-> IF t = t1 THEN a ELSE b]

\* Two checkouts of one course, the first with a promo code; a plan bought through
\* Fawaterk and again for nothing; a plan without a price, twice; two checkouts of a
\* session. Two checkouts go through two providers when the configuration was switched in
\* between.
MCScenarios ==
    {Both(Buy(course, "paymob", "part"), Buy(course, "fawaterk", "no")),
     Both(Buy(plan, "fawaterk", "part"), Buy(plan, "paymob", "full")),
     Both(Buy(plan, "paymob", "zero"), Buy(plan, "paymob", "zero")),
     Both(Buy(session, "paymob", "no"), Buy(session, "fawaterk", "no"))}

\* The course alone is enough for a second fulfilment.
MCOneScenario == {Both(Buy(course, "paymob", "no"), Buy(course, "paymob", "no"))}

Interchangeable == Permutations(Proc)
=============================================================================
