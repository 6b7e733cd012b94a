------------------------------ MODULE Requests ------------------------------
(***************************************************************************)
(* What the parts of the learning services share: the requests served at   *)
(* the same time, each by a process of its own, and the bound on them.     *)
(***************************************************************************)
EXTENDS Integers, FiniteSets

CONSTANTS
    Proc,         \* requests in progress at the same time
    MaxRequests,  \* bound: requests made
    Null

ASSUME RequestsAssumption == MaxRequests \in Nat /\ IsFiniteSet(Proc)

VARIABLE made  \* requests made so far

RequestsInit == made = 0
Request == made < MaxRequests /\ made' = made + 1
=============================================================================
