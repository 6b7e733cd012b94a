---------------------------- MODULE PromoLedger ----------------------------
(***************************************************************************)
(* What the promo-code service promises its callers: every redemption row  *)
(* lives through one life cycle, a row is admitted only while the code is  *)
(* open and has room, and every request takes effect in a single step.     *)
(* PromoCodes, which has the locks, the unlocked reads and the clock, is   *)
(* shown to implement this module; Payments uses the steps of this module. *)
(***************************************************************************)
EXTENDS Naturals, FiniteSets

CONSTANTS
    Txn,      \* payment transactions: a redemption row carries the id of one
    Code,     \* promo codes
    CodeOf,   \* the code a transaction asks for
    UserOf,   \* the user a transaction belongs to
    Null      \* "no limit"

VARIABLES
    status,   \* life cycle of each transaction's redemption row
    live,     \* the rows that count against their code's limits
    limit,    \* maxTotalUses of each code, or Null
    perUser,  \* maxUsesPerUser of each code
    open      \* whether each code exists and is active

ledgerVars == <<status, live, limit, perUser, open>>

Status == {"none", "reserved", "completed", "reversed", "expired"}

LiveUses(c) == {t \in live : CodeOf[t] = c}
LiveUsesBy(c, u) == {t \in LiveUses(c) : UserOf[t] = u}

HasRoom(c, u) ==
    /\ limit[c] # Null => Cardinality(LiveUses(c)) < limit[c]
    /\ Cardinality(LiveUsesBy(c, u)) < perUser[c]

Init ==
    /\ status = [t \in Txn |-> "none"]
    /\ live = {}
    /\ limit \in [Code -> Nat \cup {Null}]
    /\ perUser \in [Code -> Nat]
    /\ open \in [Code -> BOOLEAN]

\* A new row, reserved for a pending checkout or completed at once.
Admit(t, s) ==
    /\ status[t] = "none"
    /\ open[CodeOf[t]]
    /\ HasRoom(CodeOf[t], UserOf[t])
    /\ status' = [status EXCEPT ![t] = s]
    /\ live' = live \cup {t}
    /\ UNCHANGED <<limit, perUser, open>>

\* A reservation becomes a use. Nothing here asks the row to be live still: the
\* code tests the expiry before it waits for the promo row, so a reservation can
\* be completed after it stopped counting (see UsesWithinLimit in PromoCodes).
Complete(t) ==
    /\ status[t] = "reserved"
    /\ status' = [status EXCEPT ![t] = "completed"]
    /\ live' = live \cup {t}
    /\ UNCHANGED <<limit, perUser, open>>

\* Reservations given back: one released by name, or a batch by the cron job.
Release(S) ==
    /\ \A t \in S : status[t] = "reserved"
    /\ status' = [t \in Txn |-> IF t \in S THEN "expired" ELSE status[t]]
    /\ live' = live \ S
    /\ UNCHANGED <<limit, perUser, open>>

\* The payment was refunded or the free checkout failed: the row is reversed
\* whatever its state, and stays so.
Reverse(t) ==
    /\ status[t] # "none"
    /\ status' = [status EXCEPT ![t] = "reversed"]
    /\ live' = live \ {t}
    /\ UNCHANGED <<limit, perUser, open>>

\* Time passes: reservations stop counting, completed uses never do.
Lapse(S) ==
    /\ \A t \in S : status[t] = "reserved"
    /\ live' = live \ S
    /\ UNCHANGED <<status, limit, perUser, open>>

\* An administrator creates, changes, closes or removes codes.
Administer ==
    /\ limit' \in [Code -> Nat \cup {Null}]
    /\ perUser' \in [Code -> Nat]
    /\ open' \in [Code -> BOOLEAN]
    /\ UNCHANGED <<status, live>>

Next ==
    \/ \E t \in Txn : \/ \E s \in {"reserved", "completed"} : Admit(t, s)
                      \/ Complete(t)
                      \/ Reverse(t)
    \/ \E S \in SUBSET Txn : Release(S) \/ Lapse(S)
    \/ Administer

Spec == Init /\ [][Next]_ledgerVars
=============================================================================
