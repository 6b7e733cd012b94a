---------------------------- MODULE MCPromoCodes ----------------------------
EXTENDS PromoCodes, TLC

CONSTANTS t1, t2, t3, c1, u1, u2

MCCodeOf == [t \in Txn |-> c1]
\* t1 and t2 are of different users, so the total limit can bite; t3 is a second
\* checkout of the first user, so the limit per user can.
MCUserOf == [t \in Txn |-> IF t = t2 THEN u2 ELSE u1]

Offer(total, each, from, until) ==
    [maxTotalUses |-> total, maxUsesPerUser |-> each, startsAt |-> from, expiresAt |-> until]

\* One use in all, until time 1; two uses, one per user, for ever.
MCOffers == {Offer(1, 1, 0, 1), Offer(2, 1, 0, Null)}
\* Two uses, one per user, until time 1: a third checkout makes the limit per user bite.
MCOfferPerUser == {Offer(2, 1, 0, 1)}
\* One use in all: no update() can lower the limit.
MCOneOffer == {Offer(1, 1, 0, Null)}

Interchangeable == Permutations(Proc)
=============================================================================
