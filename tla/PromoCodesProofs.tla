--------------------------- MODULE PromoCodesProofs ---------------------------
(***************************************************************************)
(* What holds of PromoCodes for any transactions, codes, users, requests,  *)
(* offers, hold time and horizon.                                          *)
(***************************************************************************)
EXTENDS PromoCodes, FiniteSetTheorems, TLAPS

(***************************************************************************)
(* Types                                                                   *)
(***************************************************************************)
\* The terms an update() leaves an entity with are terms, and so on: what an
\* administrator's request keeps in memory is a row.
LEMMA DraftType ==
    ASSUME NEW row \in PromoRow,
           NEW r \in Updated(row) \cup Deactivated(row) \cup Reactivated(row)
    PROVE  r \in PromoRow
<1>1. CASE r \in Updated(row)
  <2>1. PICK o \in Offers : r = [row EXCEPT !.terms = [o EXCEPT !.startsAt = row.terms.startsAt]]
    BY <1>1 DEF Updated
  <2>2. [o EXCEPT !.startsAt = row.terms.startsAt] \in Terms
    BY OffersAssumption DEF PromoRow, Terms
  <2> QED BY <2>1, <2>2 DEF PromoRow
<1>2. CASE r \in Deactivated(row)
  BY <1>2 DEF Deactivated, PromoRow
<1>3. CASE r \in Reactivated(row)
  BY <1>3 DEF Reactivated, PromoRow
<1> QED BY <1>1, <1>2, <1>3

LEMMA AbsentType == AbsentRow \in PromoRow
BY DEF AbsentRow, NoTerms, PromoRow, Terms

LEMMA TypeInit == Init => TypeOK
<1> SUFFICES ASSUME Init PROVE TypeOK OBVIOUS
<1>1. promo \in [Code -> PromoRow] /\ draft \in [Proc -> PromoRow]
  BY AbsentType DEF Init
<1>2. redemption \in [Txn -> RedemptionRow]
  BY DEF Init, NoRow, RedemptionRow, Status
<1> QED
  BY <1>1, <1>2 DEF Init, TypeOK, NoRow, TxnSteps, CodeSteps, Status

\* End(p) and Begin(p, step, x) keep the types of a request's variables.
LEMMA EndType ==
    ASSUME TypeOK, NEW p \in Proc, End(p)
    PROVE  /\ pc' \in [Proc -> {"idle"} \cup TxnSteps \cup CodeSteps]
           /\ arg' \in [Proc -> Txn \cup Code \cup {Null}]
           /\ \A q \in Proc : /\ pc'[q] \in TxnSteps => arg'[q] \in Txn
                              /\ pc'[q] \in CodeSteps => arg'[q] \in Code
           /\ draft' \in [Proc -> PromoRow]
           /\ seen' \in [Proc -> Status]
<1>1. draft' \in [Proc -> PromoRow]
  BY AbsentType DEF TypeOK, End
<1>2. seen' \in [Proc -> Status]
  BY DEF TypeOK, End, Status
<1> QED BY <1>1, <1>2 DEF TypeOK, End, TxnSteps, CodeSteps

LEMMA BeginType ==
    ASSUME TypeOK, NEW p \in Proc, NEW step \in TxnSteps \cup CodeSteps, NEW x,
           Begin(p, step, x),
           step \in TxnSteps => x \in Txn,
           step \in CodeSteps => x \in Code
    PROVE  /\ pc' \in [Proc -> {"idle"} \cup TxnSteps \cup CodeSteps]
           /\ arg' \in [Proc -> Txn \cup Code \cup {Null}]
           /\ \A q \in Proc : /\ pc'[q] \in TxnSteps => arg'[q] \in Txn
                              /\ pc'[q] \in CodeSteps => arg'[q] \in Code
BY DEF TypeOK, Begin, TxnSteps, CodeSteps

\* The conjuncts of TypeOK about the tables, the locks and the clock.
TablesOK ==
    /\ promo \in [Code -> PromoRow]
    /\ redemption \in [Txn -> RedemptionRow]
    /\ promoLock \in [Code -> Proc \cup {Null}]
    /\ rowLock \in [Txn -> Proc \cup {Null}]
    /\ now \in Nat
    /\ \A t \in Txn : redemption[t].status = "reserved" => redemption[t].expiresAt \in Nat

RequestsOK ==
    /\ pc \in [Proc -> {"idle"} \cup TxnSteps \cup CodeSteps]
    /\ arg \in [Proc -> Txn \cup Code \cup {Null}]
    /\ \A p \in Proc : /\ pc[p] \in TxnSteps => arg[p] \in Txn
                       /\ pc[p] \in CodeSteps => arg[p] \in Code
    /\ draft \in [Proc -> PromoRow]
    /\ seen \in [Proc -> Status]

LEMMA TypeParts == TablesOK' /\ RequestsOK' => TypeOK'
BY DEF TypeOK, TablesOK, RequestsOK

\* One row of a table written leaves the table typed.
LEMMA SetRowType ==
    ASSUME TypeOK, NEW t \in Txn, NEW s \in Status, NEW e \in Nat \cup {Null},
           s = "reserved" => e \in Nat,
           SetRow(t, s, e)
    PROVE  /\ redemption' \in [Txn -> RedemptionRow]
           /\ \A x \in Txn : redemption'[x].status = "reserved" => redemption'[x].expiresAt \in Nat
BY DEF TypeOK, SetRow, RedemptionRow

LEMMA SetStatusType ==
    ASSUME TypeOK, NEW t \in Txn, NEW s \in Status \ {"reserved"},
           redemption' = [redemption EXCEPT ![t].status = s]
    PROVE  /\ redemption' \in [Txn -> RedemptionRow]
           /\ \A x \in Txn : redemption'[x].status = "reserved" => redemption'[x].expiresAt \in Nat
BY DEF TypeOK, RedemptionRow

LEMMA CountType ==
    ASSUME TypeOK, NEW c \in Code, NEW n \in Nat,
           promo' = [promo EXCEPT ![c].currentUses = n]
    PROVE  promo' \in [Code -> PromoRow]
BY DEF TypeOK, PromoRow

LEMMA LockType ==
    ASSUME TypeOK, NEW c \in Code, NEW v \in Proc \cup {Null},
           promoLock' = [promoLock EXCEPT ![c] = v]
    PROVE  promoLock' \in [Code -> Proc \cup {Null}]
BY DEF TypeOK

\* The steps that begin a request.
LEMMA TypeBegin ==
    ASSUME TypeOK, NEW p \in Proc,
           \/ \E t \in Txn : \/ ReserveBegin(p, t) \/ RedeemBegin(p, t)
                             \/ RedeemLockRow(p, t) \/ ReverseRead(p, t)
           \/ \E c \in Code : EditRead(p, c) \/ RemoveRead(p, c)
    PROVE  TypeOK'
<1>1. ASSUME NEW t \in Txn, ReserveBegin(p, t) \/ RedeemBegin(p, t) PROVE TypeOK'
  <2>1. Begin(p, "reserve", t) \/ Begin(p, "redeem", t)
    BY <1>1 DEF ReserveBegin, RedeemBegin
  <2>2. RequestsOK'
    BY <1>1, <2>1, BeginType DEF RequestsOK, TypeOK, TxnSteps, CodeSteps, ReserveBegin, RedeemBegin
  <2>3. TablesOK'
    BY <1>1 DEF TablesOK, TypeOK, ReserveBegin, RedeemBegin
  <2> QED BY <2>2, <2>3, TypeParts
<1>2. ASSUME NEW t \in Txn, RedeemLockRow(p, t) PROVE TypeOK'
  <2>1. RequestsOK'
    BY <1>2, BeginType DEF RequestsOK, TypeOK, TxnSteps, CodeSteps, RedeemLockRow
  <2>2. TablesOK'
    BY <1>2 DEF TablesOK, TypeOK, RedeemLockRow
  <2> QED BY <2>1, <2>2, TypeParts
<1>3. ASSUME NEW t \in Txn, ReverseRead(p, t) PROVE TypeOK'
  <2>1. RequestsOK'
    BY <1>3, BeginType DEF RequestsOK, TypeOK, TxnSteps, CodeSteps, ReverseRead, RedemptionRow
  <2>2. TablesOK'
    BY <1>3 DEF TablesOK, TypeOK, ReverseRead
  <2> QED BY <2>1, <2>2, TypeParts
<1>4. ASSUME NEW c \in Code, EditRead(p, c) PROVE TypeOK'
  <2>1. PICK r \in Updated(promo[c]) \cup Deactivated(promo[c]) \cup Reactivated(promo[c]) :
            draft' = [draft EXCEPT ![p] = r]
    BY <1>4 DEF EditRead
  <2>2. promo[c] \in PromoRow BY DEF TypeOK
  <2>3. r \in PromoRow BY <2>2, DraftType
  <2>4. RequestsOK'
    BY <1>4, <2>1, <2>3, BeginType DEF RequestsOK, TypeOK, TxnSteps, CodeSteps, EditRead
  <2>5. TablesOK'
    BY <1>4 DEF TablesOK, TypeOK, EditRead
  <2> QED BY <2>4, <2>5, TypeParts
<1>5. ASSUME NEW c \in Code, RemoveRead(p, c) PROVE TypeOK'
  <2>1. RequestsOK'
    BY <1>5, BeginType DEF RequestsOK, TypeOK, TxnSteps, CodeSteps, RemoveRead
  <2>2. TablesOK'
    BY <1>5 DEF TablesOK, TypeOK, RemoveRead
  <2> QED BY <2>1, <2>2, TypeParts
<1> QED BY <1>1, <1>2, <1>3, <1>4, <1>5

\* The steps of a request that has begun.
LEMMA TypeContinue ==
    ASSUME TypeOK, NEW p \in Proc, Continue(p)
    PROVE  TypeOK'
<1>1. CASE AdmitLock(p)
  <2>1. arg[p] \in Txn /\ CodeOf[arg[p]] \in Code
    BY <1>1, CodeOfAssumption DEF AdmitLock, TypeOK, TxnSteps
  <2>2. TablesOK'
    BY <1>1, <2>1, LockType DEF TablesOK, TypeOK, AdmitLock
  <2>3. RequestsOK'
    BY <1>1, <2>1 DEF RequestsOK, TypeOK, AdmitLock, TxnSteps, CodeSteps
  <2> QED BY <2>2, <2>3, TypeParts
<1>2. CASE AdmitRefuse(p)
  <2>1. TablesOK' BY <1>2 DEF TablesOK, TypeOK, AdmitRefuse
  <2>2. RequestsOK' BY <1>2, EndType DEF RequestsOK, AdmitRefuse
  <2> QED BY <2>1, <2>2, TypeParts
<1>3. CASE ReserveInsert(p)
  <2>1. arg[p] \in Txn /\ CodeOf[arg[p]] \in Code
    BY <1>3, CodeOfAssumption DEF ReserveInsert, TypeOK, TxnSteps
  <2>2. now + ReservationTtl \in Nat
    BY TtlAssumption DEF TypeOK
  <2>3. TablesOK'
    BY <1>3, <2>1, <2>2, LockType, SetRowType, NullAssumption DEF TablesOK, TypeOK, ReserveInsert, Status
  <2>4. RequestsOK' BY <1>3, EndType DEF RequestsOK, ReserveInsert
  <2> QED BY <2>3, <2>4, TypeParts
<1>4. CASE RedeemInsert(p)
  <2>1. arg[p] \in Txn /\ CodeOf[arg[p]] \in Code
    BY <1>4, CodeOfAssumption DEF RedeemInsert, TypeOK, TxnSteps
  <2>2. promo[CodeOf[arg[p]]].currentUses + 1 \in Nat
    BY <2>1 DEF TypeOK, PromoRow
  <2>3. promo' \in [Code -> PromoRow]
    BY <1>4, <2>1, <2>2, CountType DEF TypeOK, RedeemInsert
  <2>4. TablesOK'
    BY <1>4, <2>1, <2>3, LockType, SetRowType DEF TablesOK, TypeOK, RedeemInsert, Status
  <2>5. RequestsOK' BY <1>4, EndType DEF RequestsOK, RedeemInsert
  <2> QED BY <2>4, <2>5, TypeParts
<1>5. CASE RedeemFinish(p)
  <2>1. arg[p] \in Txn /\ CodeOf[arg[p]] \in Code
    BY <1>5, CodeOfAssumption DEF RedeemFinish, TypeOK, TxnSteps
  <2>2. promo[CodeOf[arg[p]]].currentUses + 1 \in Nat
    BY <2>1 DEF TypeOK, PromoRow
  <2>3. promo' \in [Code -> PromoRow]
    BY <1>5, <2>1, <2>2, CountType DEF TypeOK, RedeemFinish
  <2>4. TablesOK'
    BY <1>5, <2>1, <2>3, SetRowType DEF TablesOK, TypeOK, RedeemFinish, Status
  <2>5. RequestsOK' BY <1>5, EndType DEF RequestsOK, RedeemFinish
  <2> QED BY <2>4, <2>5, TypeParts
<1>6. CASE ReverseSave(p)
  <2>1. arg[p] \in Txn
    BY <1>6 DEF ReverseSave, TypeOK, TxnSteps
  <2>2. TablesOK'
    <3>1. CASE redemption' = [redemption EXCEPT ![arg[p]].status = "reversed"] /\ UNCHANGED rowLock
      BY <1>6, <2>1, <3>1, SetStatusType DEF TablesOK, TypeOK, ReverseSave, Status
    <3>2. CASE rowLock' = [rowLock EXCEPT ![arg[p]] = p] /\ UNCHANGED redemption
      BY <1>6, <2>1, <3>2 DEF TablesOK, TypeOK, ReverseSave
    <3> QED BY <1>6, <3>1, <3>2 DEF ReverseSave
  <2>3. CASE End(p)
    BY <1>6, <2>2, <2>3, EndType, TypeParts DEF RequestsOK
  <2>4. CASE pc' = [pc EXCEPT ![p] = "reverseCount"] /\ UNCHANGED <<redemption, arg, draft, seen>>
    <3>1. RequestsOK'
      BY <2>1, <2>4 DEF RequestsOK, TypeOK, TxnSteps, CodeSteps
    <3> QED BY <2>2, <3>1, TypeParts
  <2> QED BY <1>6, <2>3, <2>4 DEF ReverseSave
<1>7. CASE ReverseCount(p)
  <2>1. arg[p] \in Txn /\ CodeOf[arg[p]] \in Code
    BY <1>7, CodeOfAssumption DEF ReverseCount, TypeOK, TxnSteps
  <2> DEFINE n == promo[CodeOf[arg[p]]].currentUses
  <2>2. n \in Nat
    BY <2>1 DEF TypeOK, PromoRow
  <2>3. (IF n > 0 THEN n - 1 ELSE 0) \in Nat
    BY <2>2
  <2>4. promo' \in [Code -> PromoRow]
    BY <1>7, <2>1, <2>3, CountType DEF TypeOK, ReverseCount
  <2>5. TablesOK'
    BY <1>7, <2>1, <2>4, SetStatusType DEF TablesOK, TypeOK, ReverseCount, Status
  <2>6. RequestsOK' BY <1>7, EndType DEF RequestsOK, ReverseCount
  <2> QED BY <2>5, <2>6, TypeParts
<1>8. CASE EditSave(p)
  <2>1. TablesOK' BY <1>8 DEF TablesOK, TypeOK, EditSave, CodeSteps
  <2>2. RequestsOK' BY <1>8, EndType DEF RequestsOK, EditSave
  <2> QED BY <2>1, <2>2, TypeParts
<1>9. CASE RemoveDelete(p)
  <2>1. TablesOK' BY <1>9, AbsentType DEF TablesOK, TypeOK, RemoveDelete, CodeSteps
  <2>2. RequestsOK' BY <1>9, EndType DEF RequestsOK, RemoveDelete
  <2> QED BY <2>1, <2>2, TypeParts
<1> QED BY <1>1, <1>2, <1>3, <1>4, <1>5, <1>6, <1>7, <1>8, <1>9 DEF Continue

\* The steps that are no request's: releases, new codes, jobs, the clock.
LEMMA TypeRest ==
    ASSUME TypeOK,
           \/ \E t \in Txn : ReleaseReservation(t)
           \/ \E c \in Code : Create(c)
           \/ CleanupExpiredCodes
           \/ CleanupExpiredReservations
           \/ Tick
    PROVE  TypeOK'
<1>1. ASSUME NEW t \in Txn, ReleaseReservation(t) PROVE TypeOK'
  <2>1. TablesOK' BY <1>1, SetStatusType DEF TablesOK, TypeOK, ReleaseReservation, Status
  <2>2. RequestsOK' BY <1>1 DEF RequestsOK, TypeOK, ReleaseReservation
  <2> QED BY <2>1, <2>2, TypeParts
<1>2. ASSUME NEW c \in Code, Create(c) PROVE TypeOK'
  <2>1. PICK o \in Offers, active \in BOOLEAN : promo' = [promo EXCEPT ![c] = NewRow(o, active)]
    BY <1>2 DEF Create
  <2>2. NewRow(o, active) \in PromoRow
    BY OffersAssumption DEF NewRow, PromoRow
  <2>3. TablesOK' BY <1>2, <2>1, <2>2 DEF TablesOK, TypeOK, Create
  <2>4. RequestsOK' BY <1>2 DEF RequestsOK, TypeOK, Create
  <2> QED BY <2>3, <2>4, TypeParts
<1>3. CASE CleanupExpiredCodes
  <2>1. promo' \in [Code -> PromoRow]
    BY <1>3 DEF CleanupExpiredCodes, TypeOK, PromoRow
  <2>2. TablesOK' BY <1>3, <2>1 DEF TablesOK, TypeOK, CleanupExpiredCodes
  <2>3. RequestsOK' BY <1>3 DEF RequestsOK, TypeOK, CleanupExpiredCodes
  <2> QED BY <2>2, <2>3, TypeParts
<1>4. CASE CleanupExpiredReservations
  <2>1. /\ redemption' \in [Txn -> RedemptionRow]
        /\ \A x \in Txn : redemption'[x].status = "reserved" => redemption'[x].expiresAt \in Nat
    BY <1>4 DEF CleanupExpiredReservations, TypeOK, RedemptionRow, Status
  <2>2. TablesOK' BY <1>4, <2>1 DEF TablesOK, TypeOK, CleanupExpiredReservations
  <2>3. RequestsOK' BY <1>4 DEF RequestsOK, TypeOK, CleanupExpiredReservations
  <2> QED BY <2>2, <2>3, TypeParts
<1>5. CASE Tick
  BY <1>5 DEF Tick, TypeOK
<1> QED BY <1>1, <1>2, <1>3, <1>4, <1>5

\* Every variable always holds what its column or local variable can hold.
THEOREM Types == Spec => []TypeOK
<1>1. Init => TypeOK BY TypeInit
<1>2. TypeOK /\ [Next]_vars => TypeOK'
  <2> SUFFICES ASSUME TypeOK, [Next]_vars PROVE TypeOK' OBVIOUS
  <2>1. CASE UNCHANGED vars BY <2>1 DEF vars, TypeOK
  <2>2. CASE Next BY <2>2, TypeBegin, TypeContinue, TypeRest DEF Next
  <2> QED BY <2>1, <2>2
<1> QED BY <1>1, <1>2, PTL DEF Spec

(***************************************************************************)
(* Admission                                                               *)
(***************************************************************************)
\* What a request knows between the FOR UPDATE of the promo row and the insert.
\* AdmissionWithinLimit is about a step; this is the invariant that makes it true:
\* nobody changes the promo row, and nobody adds a use of the code, as long as the
\* lock is held.
MayInsert(p) ==
    LET c == CodeOf[arg[p]] IN
    /\ promoLock[c] = p
    /\ promo[c].exists /\ promo[c].isActive
    /\ HasRoom(c, UserOf[arg[p]])

AdmissionInv == \A p \in Proc : pc[p] \in Inserting => MayInsert(p)

\* A request that is completing a redemption row, or reversing one, still has it.
RowInv ==
    \A p \in Proc :
        /\ pc[p] \in {"redeemFinish", "reverseCount"} => rowLock[arg[p]] = p
        /\ pc[p] = "redeemFinish" => redemption[arg[p]].status = "reserved"
        /\ pc[p] \in {"reverseSave", "reverseCount"} => redemption[arg[p]].status # "none"

IInv == TypeOK /\ AdmissionInv /\ RowInv

\* What a step must leave alone for a request that is about to insert a row of c.
KeepsCode(c) ==
    /\ promoLock'[c] = promoLock[c]
    /\ promo'[c].exists = promo[c].exists
    /\ promo'[c].isActive = promo[c].isActive
    /\ promo'[c].terms = promo[c].terms
    /\ Uses(c)' \subseteq Uses(c)

LEMMA UsesFinite ==
    ASSUME NEW c, NEW u
    PROVE  /\ IsFiniteSet(Uses(c)) /\ IsFiniteSet(UsesBy(c, u))
           /\ Cardinality(Uses(c)) \in Nat /\ Cardinality(UsesBy(c, u)) \in Nat
<1>1. Uses(c) \subseteq Txn /\ UsesBy(c, u) \subseteq Txn
  BY DEF Uses, UsesBy
<1> QED BY <1>1, TxnAssumption, FS_Subset, FS_CardinalityType

\* Fewer uses leave as much room.
LEMMA RoomStays ==
    ASSUME TypeOK, NEW c \in Code, NEW u, KeepsCode(c), HasRoom(c, u)
    PROVE  HasRoom(c, u)'
<1>1. Cardinality(Uses(c)') <= Cardinality(Uses(c)) /\ Cardinality(Uses(c)') \in Nat
  BY UsesFinite, FS_Subset, FS_CardinalityType DEF KeepsCode
<1>2. UsesBy(c, u)' \subseteq UsesBy(c, u)
  BY DEF UsesBy, KeepsCode
<1>3. Cardinality(UsesBy(c, u)') <= Cardinality(UsesBy(c, u)) /\ Cardinality(UsesBy(c, u)') \in Nat
  BY <1>2, UsesFinite, FS_Subset, FS_CardinalityType
<1>4. promo[c].terms.maxUsesPerUser \in Nat /\ promo[c].terms.maxTotalUses \in Nat \cup {Null}
  BY DEF TypeOK, PromoRow, Terms
<1>5. promo'[c].terms = promo[c].terms
  BY DEF KeepsCode
<1>6. Cardinality(Uses(c)) \in Nat /\ Cardinality(UsesBy(c, u)) \in Nat
  BY UsesFinite
<1> QED BY <1>1, <1>3, <1>4, <1>5, <1>6 DEF HasRoom

\* A request that was about to insert, and still is, knows what it knew.
LEMMA AdmissionStays ==
    ASSUME TypeOK, AdmissionInv, NEW p \in Proc, pc[p] \in Inserting, arg'[p] = arg[p],
           KeepsCode(CodeOf[arg[p]])
    PROVE  MayInsert(p)'
<1> DEFINE c == CodeOf[arg[p]]
<1>1. c \in Code
  BY CodeOfAssumption DEF TypeOK, Inserting, TxnSteps
<1>2. promoLock[c] = p /\ promo[c].exists /\ promo[c].isActive /\ HasRoom(c, UserOf[arg[p]])
  BY DEF AdmissionInv, MayInsert
<1> DEFINE u == UserOf[arg[p]]
<1>3. ASSUME NEW d, NEW v, d = c, v = u PROVE HasRoom(d, v)'
  BY <1>1, <1>2, <1>3, RoomStays
<1>4. HasRoom(c, u)'
  BY <1>3
<1> QED BY <1>2, <1>4 DEF KeepsCode, MayInsert

\* Only the holder of the lock changes the promo row in what the admission has read,
\* or adds a use; everybody else waits for it.
LEMMA LockProtects ==
    ASSUME TypeOK, AdmissionInv, NEW c \in Code, NEW p \in Proc, promoLock[c] = p,
           promo[c].exists,
           Next, ~ReserveInsert(p), ~RedeemInsert(p)
    PROVE  KeepsCode(c)
<1>0. p # Null BY NullAssumption
<1>1. CASE UNCHANGED <<promo, redemption, promoLock, now>>
  BY <1>1 DEF KeepsCode, Uses, Active
<1>2. ASSUME NEW q \in Proc, AdmitLock(q) PROVE KeepsCode(c)
  BY <1>0, <1>2 DEF KeepsCode, Uses, Active, AdmitLock, TypeOK
<1>3. ASSUME NEW q \in Proc, ReserveInsert(q) \/ RedeemInsert(q) PROVE KeepsCode(c)
  <2>1. arg[q] \in Txn /\ CodeOf[arg[q]] \in Code /\ pc[q] \in Inserting
    BY <1>3, CodeOfAssumption DEF ReserveInsert, RedeemInsert, TypeOK, TxnSteps, Inserting
  <2>2. CodeOf[arg[q]] # c
    BY <1>3, <2>1 DEF AdmissionInv, MayInsert
  <2>3. promoLock'[c] = promoLock[c] /\ promo'[c] = promo[c]
    BY <1>3, <2>1, <2>2 DEF ReserveInsert, RedeemInsert, TypeOK
  <2>4. \A t \in Txn : CodeOf[t] = c => redemption'[t] = redemption[t]
    BY <1>3, <2>1, <2>2 DEF ReserveInsert, RedeemInsert, SetRow, TypeOK
  <2>5. now' = now
    BY <1>3 DEF ReserveInsert, RedeemInsert
  <2> QED BY <2>3, <2>4, <2>5 DEF KeepsCode, Uses, Active
<1>4. ASSUME NEW q \in Proc, RedeemFinish(q) PROVE KeepsCode(c)
  <2>1. arg[q] \in Txn /\ CodeOf[arg[q]] \in Code
    BY <1>4, CodeOfAssumption DEF RedeemFinish, TypeOK, TxnSteps
  <2>2. CodeOf[arg[q]] # c
    BY <1>0, <1>4, <2>1 DEF RedeemFinish
  <2>3. promoLock'[c] = promoLock[c] /\ promo'[c] = promo[c]
    BY <1>4, <2>1, <2>2 DEF RedeemFinish, TypeOK
  <2>4. \A t \in Txn : CodeOf[t] = c => redemption'[t] = redemption[t]
    BY <1>4, <2>1, <2>2 DEF RedeemFinish, SetRow, TypeOK
  <2>5. now' = now
    BY <1>4 DEF RedeemFinish
  <2> QED BY <2>3, <2>4, <2>5 DEF KeepsCode, Uses, Active
<1>5. ASSUME NEW q \in Proc, ReverseSave(q) PROVE KeepsCode(c)
  <2>1. promoLock' = promoLock /\ promo' = promo /\ now' = now
    BY <1>5 DEF ReverseSave
  <2>2. arg[q] \in Txn
    BY <1>5 DEF ReverseSave, TypeOK, TxnSteps
  <2>3. \A t \in Txn : redemption'[t] = redemption[t] \/ redemption'[t].status = "reversed"
    BY <1>5, <2>2 DEF ReverseSave, TypeOK, RedemptionRow
  <2> QED BY <2>1, <2>3 DEF KeepsCode, Uses, Active
<1>6. ASSUME NEW q \in Proc, ReverseCount(q) PROVE KeepsCode(c)
  <2>1. promoLock' = promoLock /\ now' = now
    BY <1>6 DEF ReverseCount
  <2>2. arg[q] \in Txn /\ CodeOf[arg[q]] \in Code
    BY <1>6, CodeOfAssumption DEF ReverseCount, TypeOK, TxnSteps
  <2>3. CodeOf[arg[q]] # c
    BY <1>0, <1>6, <2>2 DEF ReverseCount
  <2>4. promo'[c] = promo[c]
    BY <1>6, <2>2, <2>3 DEF ReverseCount, TypeOK
  <2>5. \A t \in Txn : redemption'[t] = redemption[t] \/ redemption'[t].status = "reversed"
    BY <1>6, <2>2 DEF ReverseCount, TypeOK, RedemptionRow
  <2> QED BY <2>1, <2>4, <2>5 DEF KeepsCode, Uses, Active
<1>7. ASSUME NEW q \in Proc, EditSave(q) \/ RemoveDelete(q) PROVE KeepsCode(c)
  <2>1. arg[q] # c
    BY <1>0, <1>7 DEF EditSave, RemoveDelete
  <2>2. promo'[c] = promo[c] /\ UNCHANGED <<redemption, promoLock, now>>
    BY <1>7, <2>1 DEF EditSave, RemoveDelete, TypeOK
  <2> QED BY <2>2 DEF KeepsCode, Uses, Active
<1>8. ASSUME NEW d \in Code, Create(d) PROVE KeepsCode(c)
  <2>1. promo'[c] = promo[c] /\ UNCHANGED <<redemption, promoLock, now>>
    BY <1>8 DEF Create, TypeOK
  <2> QED BY <2>1 DEF KeepsCode, Uses, Active
<1>9. CASE CleanupExpiredCodes
  <2>1. promo'[c] = promo[c] /\ UNCHANGED <<redemption, promoLock, now>>
    BY <1>0, <1>9 DEF CleanupExpiredCodes, TypeOK
  <2> QED BY <2>1 DEF KeepsCode, Uses, Active
<1>10. ASSUME NEW t \in Txn, ReleaseReservation(t) PROVE KeepsCode(c)
  <2>1. UNCHANGED <<promo, promoLock, now>>
    BY <1>10 DEF ReleaseReservation
  <2>2. \A x \in Txn : redemption'[x] = redemption[x] \/ redemption'[x].status = "expired"
    BY <1>10 DEF ReleaseReservation, TypeOK, RedemptionRow
  <2> QED BY <2>1, <2>2 DEF KeepsCode, Uses, Active
<1>11. CASE CleanupExpiredReservations
  <2>1. UNCHANGED <<promo, promoLock, now>>
    BY <1>11 DEF CleanupExpiredReservations
  <2>2. \A x \in Txn : redemption'[x] = redemption[x] \/ redemption'[x].status = "expired"
    BY <1>11 DEF CleanupExpiredReservations, TypeOK, RedemptionRow
  <2> QED BY <2>1, <2>2 DEF KeepsCode, Uses, Active
<1>12. CASE Tick
  <2>1. UNCHANGED <<promo, promoLock, redemption>>
    BY <1>12 DEF Tick
  <2>2. now \in Nat /\ now' = now + 1
    BY <1>12 DEF Tick, TypeOK
  <2>3. ASSUME NEW x \in Txn, Active(x)' PROVE Active(x)
    <3>1. redemption[x].status = "reserved" => redemption[x].expiresAt \in Nat
      BY DEF TypeOK
    <3> QED BY <2>1, <2>2, <2>3, <3>1 DEF Active
  <2>4. Uses(c)' \subseteq Uses(c)
    BY <2>3 DEF Uses
  <2> QED BY <2>1, <2>4 DEF KeepsCode
<1>13. ASSUME NEW q \in Proc, AdmitRefuse(q) PROVE KeepsCode(c)
  BY <1>1, <1>13 DEF AdmitRefuse
<1>14. ASSUME NEW q \in Proc, NEW t \in Txn,
              ReserveBegin(q, t) \/ RedeemBegin(q, t) \/ RedeemLockRow(q, t) \/ ReverseRead(q, t)
       PROVE  KeepsCode(c)
  BY <1>1, <1>14 DEF ReserveBegin, RedeemBegin, RedeemLockRow, ReverseRead
<1>15. ASSUME NEW q \in Proc, NEW d \in Code, EditRead(q, d) \/ RemoveRead(q, d)
       PROVE  KeepsCode(c)
  BY <1>1, <1>15 DEF EditRead, RemoveRead
<1>16. ASSUME NEW q \in Proc, Continue(q) PROVE KeepsCode(c)
  BY <1>2, <1>3, <1>4, <1>5, <1>6, <1>7, <1>13, <1>16 DEF Continue
<1> QED
  BY <1>8, <1>9, <1>10, <1>11, <1>12, <1>14, <1>15, <1>16 DEF Next

LEMMA AdmissionStep == IInv /\ TypeOK' /\ [Next]_vars => AdmissionInv'
<1> SUFFICES ASSUME IInv, TypeOK', [Next]_vars, NEW p \in Proc, pc'[p] \in Inserting
             PROVE  MayInsert(p)'
  BY DEF AdmissionInv
<1>1. TypeOK /\ AdmissionInv
  BY DEF IInv
<1>2. CASE UNCHANGED vars
  BY <1>1, <1>2 DEF AdmissionInv, MayInsert, vars, HasRoom, Uses, UsesBy, Active
<1>3. CASE AdmitLock(p)
  <2>1. arg'[p] = arg[p] /\ arg[p] \in Txn /\ CodeOf[arg[p]] \in Code
    BY <1>1, <1>3, CodeOfAssumption DEF AdmitLock, TypeOK, TxnSteps
  <2>2. promoLock'[CodeOf[arg[p]]] = p
    BY <1>1, <1>3, <2>1 DEF AdmitLock, TypeOK
  <2>3. Eligible(arg[p]) /\ UNCHANGED <<promo, redemption, now>>
    BY <1>3 DEF AdmitLock
  <2> QED BY <2>1, <2>2, <2>3 DEF Eligible, MayInsert, HasRoom, Uses, UsesBy, Active
<1>4. CASE Next /\ ~AdmitLock(p)
  <2>1. pc[p] \in Inserting /\ arg'[p] = arg[p] /\ ~ReserveInsert(p) /\ ~RedeemInsert(p)
    <3>1. ASSUME NEW q \in Proc, Continue(q) PROVE pc[p] \in Inserting /\ arg'[p] = arg[p]
      BY <1>1, <1>4, <3>1 DEF Continue, AdmitLock, AdmitRefuse, ReserveInsert, RedeemInsert,
         RedeemFinish, ReverseSave, ReverseCount, EditSave, RemoveDelete, End, TypeOK, Inserting
    <3>2. ASSUME NEW q \in Proc, NEW t \in Txn, ReserveBegin(q, t) \/ RedeemBegin(q, t)
                                               \/ RedeemLockRow(q, t) \/ ReverseRead(q, t)
          PROVE  pc[p] \in Inserting /\ arg'[p] = arg[p]
      BY <1>1, <3>2 DEF ReserveBegin, RedeemBegin, RedeemLockRow, ReverseRead, Begin, TypeOK, Inserting
    <3>3. ASSUME NEW q \in Proc, NEW c \in Code, EditRead(q, c) \/ RemoveRead(q, c)
          PROVE  pc[p] \in Inserting /\ arg'[p] = arg[p]
      BY <1>1, <3>3 DEF EditRead, RemoveRead, Begin, TypeOK, Inserting
    <3>4. UNCHANGED <<pc, arg>> => pc[p] \in Inserting /\ arg'[p] = arg[p]
      OBVIOUS
    <3>5. ~ReserveInsert(p) /\ ~RedeemInsert(p)
      BY <1>1 DEF ReserveInsert, RedeemInsert, End, TypeOK, Inserting
    <3>6. \/ \E q \in Proc : \/ Continue(q)
                             \/ \E t \in Txn : ReserveBegin(q, t) \/ RedeemBegin(q, t)
                                               \/ RedeemLockRow(q, t) \/ ReverseRead(q, t)
                             \/ \E c \in Code : EditRead(q, c) \/ RemoveRead(q, c)
          \/ UNCHANGED <<pc, arg>>
      BY <1>4 DEF Next, ReleaseReservation, Create, CleanupExpiredCodes,
         CleanupExpiredReservations, Tick
    <3> QED BY <3>1, <3>2, <3>3, <3>4, <3>5, <3>6
  <2>2. CodeOf[arg[p]] \in Code /\ promoLock[CodeOf[arg[p]]] = p /\ promo[CodeOf[arg[p]]].exists
    BY <1>1, <2>1, CodeOfAssumption DEF AdmissionInv, MayInsert, TypeOK, Inserting, TxnSteps
  <2>3. KeepsCode(CodeOf[arg[p]])
    BY <1>1, <1>4, <2>1, <2>2, LockProtects
  <2> QED BY <1>1, <2>1, <2>3, AdmissionStays
<1> QED BY <1>2, <1>3, <1>4

\* A row that is there stays there, and a locked row changes by its holder's hand only.
LEMMA RowStep == IInv /\ TypeOK' /\ [Next]_vars => RowInv'
<1> SUFFICES ASSUME IInv, TypeOK', [Next]_vars, NEW p \in Proc
             PROVE  /\ pc'[p] \in {"redeemFinish", "reverseCount"} => rowLock'[arg'[p]] = p
                    /\ pc'[p] = "redeemFinish" => redemption'[arg'[p]].status = "reserved"
                    /\ pc'[p] \in {"reverseSave", "reverseCount"} =>
                           redemption'[arg'[p]].status # "none"
  BY DEF RowInv
<1>1. TypeOK /\ RowInv /\ p # Null
  BY NullAssumption DEF IInv
<1> DEFINE Here == /\ pc[p] \in {"redeemFinish", "reverseCount"} => rowLock[arg[p]] = p
                   /\ pc[p] = "redeemFinish" => redemption[arg[p]].status = "reserved"
                   /\ pc[p] \in {"reverseSave", "reverseCount"} => redemption[arg[p]].status # "none"
<1>2. Here BY <1>1 DEF RowInv
<1>3. pc[p] \in {"redeemFinish", "reverseCount", "reverseSave"} => arg[p] \in Txn
  BY <1>1 DEF TypeOK, TxnSteps
<1>4. CASE UNCHANGED <<pc, arg, rowLock, redemption>>
  BY <1>2, <1>4
<1>5. ASSUME NEW q \in Proc, AdmitLock(q) \/ AdmitRefuse(q) \/ EditSave(q) \/ RemoveDelete(q)
      PROVE  Here'
  BY <1>1, <1>2, <1>5 DEF AdmitLock, AdmitRefuse, EditSave, RemoveDelete, End, TypeOK
<1>6. ASSUME NEW q \in Proc, ReserveInsert(q) \/ RedeemInsert(q) PROVE Here'
  BY <1>1, <1>2, <1>3, <1>6 DEF ReserveInsert, RedeemInsert, SetRow, End, TypeOK, TxnSteps
<1>7. ASSUME NEW q \in Proc, RedeemFinish(q) PROVE Here'
  <2>1. arg[q] \in Txn /\ rowLock[arg[q]] = q
    BY <1>1, <1>7 DEF RedeemFinish, RowInv, TypeOK, TxnSteps
  <2> QED BY <1>1, <1>2, <1>3, <1>7, <2>1 DEF RedeemFinish, SetRow, End, TypeOK
<1>8. ASSUME NEW q \in Proc, ReverseSave(q) PROVE Here'
  <2>1. arg[q] \in Txn /\ redemption[arg[q]].status # "none"
    BY <1>1, <1>8 DEF ReverseSave, RowInv, TypeOK, TxnSteps
  <2>2. CASE End(q) /\ redemption' = [redemption EXCEPT ![arg[q]].status = "reversed"]
             /\ UNCHANGED rowLock
    BY <1>1, <1>2, <1>3, <1>8, <2>1, <2>2 DEF ReverseSave, End, TypeOK, RedemptionRow
  <2>3. CASE /\ rowLock' = [rowLock EXCEPT ![arg[q]] = q]
             /\ pc' = [pc EXCEPT ![q] = "reverseCount"]
             /\ UNCHANGED <<redemption, arg>>
    BY <1>1, <1>2, <1>3, <1>8, <2>1, <2>3 DEF ReverseSave, TypeOK
  <2> QED BY <1>8, <2>2, <2>3 DEF ReverseSave
<1>9. ASSUME NEW q \in Proc, ReverseCount(q) PROVE Here'
  <2>1. arg[q] \in Txn /\ rowLock[arg[q]] = q
    BY <1>1, <1>9 DEF ReverseCount, RowInv, TypeOK, TxnSteps
  <2> QED BY <1>1, <1>2, <1>3, <1>9, <2>1 DEF ReverseCount, End, TypeOK, RedemptionRow
<1>10. ASSUME NEW q \in Proc, NEW t \in Txn, ReserveBegin(q, t) \/ RedeemBegin(q, t)
       PROVE  Here'
  BY <1>1, <1>2, <1>10 DEF ReserveBegin, RedeemBegin, Begin, TypeOK
<1>11. ASSUME NEW q \in Proc, NEW t \in Txn, RedeemLockRow(q, t) PROVE Here'
  BY <1>1, <1>2, <1>3, <1>11 DEF RedeemLockRow, Begin, TypeOK
<1>12. ASSUME NEW q \in Proc, NEW t \in Txn, ReverseRead(q, t) PROVE Here'
  BY <1>1, <1>2, <1>12 DEF ReverseRead, Begin, TypeOK
<1>13. ASSUME NEW q \in Proc, NEW c \in Code, EditRead(q, c) \/ RemoveRead(q, c) PROVE Here'
  BY <1>1, <1>2, <1>13 DEF EditRead, RemoveRead, Begin, TypeOK
<1>14. ASSUME NEW t \in Txn, ReleaseReservation(t) PROVE Here'
  BY <1>1, <1>2, <1>3, <1>14 DEF ReleaseReservation, TypeOK, RedemptionRow
<1>15. CASE CleanupExpiredReservations
  BY <1>1, <1>2, <1>3, <1>15 DEF CleanupExpiredReservations, IsOverdue, TypeOK, RedemptionRow
<1>16. CASE CleanupExpiredCodes \/ Tick \/ \E c \in Code : Create(c)
  BY <1>4, <1>16 DEF CleanupExpiredCodes, Tick, Create
<1>17. ASSUME NEW q \in Proc, Continue(q) PROVE Here'
  BY <1>5, <1>6, <1>7, <1>8, <1>9, <1>17 DEF Continue
<1>18. CASE UNCHANGED vars
  BY <1>4, <1>18 DEF vars
<1>19. CASE Next
  BY <1>10, <1>11, <1>12, <1>13, <1>14, <1>15, <1>16, <1>17, <1>19 DEF Next
<1> QED BY <1>18, <1>19

LEMMA Inductive == Spec => []IInv
<1>1. Init => IInv
  <2> SUFFICES ASSUME Init PROVE IInv OBVIOUS
  <2>1. TypeOK BY TypeInit
  <2>2. AdmissionInv /\ RowInv
    BY DEF Init, AdmissionInv, RowInv, Inserting
  <2> QED BY <2>1, <2>2 DEF IInv
<1>2. TypeOK /\ TypeOK' /\ IInv /\ [Next]_vars => IInv'
  BY AdmissionStep, RowStep DEF IInv
<1> QED BY <1>1, <1>2, Types, PTL DEF Spec

(***************************************************************************)
(* AdmissionWithinLimit                                                    *)
(***************************************************************************)
\* One more row is one more use.
LEMMA OneMore ==
    ASSUME NEW S, NEW T, NEW x, IsFiniteSet(S), T \subseteq S \cup {x}, NEW n \in Nat,
           Cardinality(S) < n
    PROVE  Cardinality(T) <= n
<1>0. Cardinality(S) \in Nat
  BY FS_CardinalityType
<1>1. IsFiniteSet(S \cup {x}) /\ Cardinality(S \cup {x}) <= Cardinality(S) + 1
  <2>1. /\ IsFiniteSet(S \cup {x})
        /\ Cardinality(S \cup {x}) = IF x \in S THEN Cardinality(S) ELSE Cardinality(S) + 1
    BY FS_AddElement, Zenon
  <2> QED BY <1>0, <2>1
<1>2. Cardinality(T) <= Cardinality(S \cup {x}) /\ Cardinality(T) \in Nat
  BY <1>1, FS_Subset, FS_CardinalityType
<1>3. Cardinality(S) \in Nat /\ Cardinality(S \cup {x}) \in Nat
  BY <1>1, FS_CardinalityType
<1> QED BY <1>1, <1>2, <1>3

\* Rows appear in ReserveInsert and in RedeemInsert only.
LEMMA OnlyInserts ==
    ASSUME TypeOK, Next, NEW t \in Txn,
           redemption[t].status = "none", redemption'[t].status # "none",
           RowInv
    PROVE  \E p \in Proc : /\ ReserveInsert(p) \/ RedeemInsert(p)
                           /\ arg[p] = t
<1>1. ~UNCHANGED redemption
  OBVIOUS
<1>2. ASSUME NEW p \in Proc, ReserveInsert(p) \/ RedeemInsert(p) PROVE arg[p] = t
  BY <1>2 DEF ReserveInsert, RedeemInsert, SetRow, TypeOK
<1>3. ASSUME NEW p \in Proc, RedeemFinish(p) PROVE FALSE
  BY <1>3 DEF RedeemFinish, SetRow, RowInv, TypeOK
<1>4. ASSUME NEW p \in Proc, ReverseSave(p) PROVE FALSE
  <2>1. redemption' = [redemption EXCEPT ![arg[p]].status = "reversed"]
    BY <1>1, <1>4 DEF ReverseSave
  <2>2. redemption[arg[p]].status # "none"
    BY <1>4 DEF ReverseSave, RowInv
  <2> QED BY <2>1, <2>2 DEF TypeOK
<1>5. ASSUME NEW p \in Proc, ReverseCount(p) PROVE FALSE
  BY <1>5 DEF ReverseCount, RowInv, TypeOK
<1>6. ASSUME NEW x \in Txn, ReleaseReservation(x) PROVE FALSE
  BY <1>6 DEF ReleaseReservation, TypeOK
<1>7. CASE CleanupExpiredReservations
  BY <1>7 DEF CleanupExpiredReservations, IsOverdue, TypeOK
<1>8. ASSUME NEW p \in Proc, NEW x \in Txn, ReserveBegin(p, x) \/ RedeemBegin(p, x)
                                            \/ RedeemLockRow(p, x) \/ ReverseRead(p, x)
      PROVE  FALSE
  BY <1>1, <1>8 DEF ReserveBegin, RedeemBegin, RedeemLockRow, ReverseRead
<1>9. ASSUME NEW p \in Proc, NEW c \in Code, EditRead(p, c) \/ RemoveRead(p, c) PROVE FALSE
  BY <1>1, <1>9 DEF EditRead, RemoveRead
<1>10. ASSUME NEW p \in Proc, AdmitLock(p) \/ AdmitRefuse(p) \/ EditSave(p) \/ RemoveDelete(p)
       PROVE  FALSE
  BY <1>1, <1>10 DEF AdmitLock, AdmitRefuse, EditSave, RemoveDelete
<1>11. ~(CleanupExpiredCodes \/ Tick \/ \E c \in Code : Create(c))
  BY <1>1 DEF CleanupExpiredCodes, Tick, Create
<1>12. ASSUME NEW p \in Proc, Continue(p) PROVE (ReserveInsert(p) \/ RedeemInsert(p)) /\ arg[p] = t
  BY <1>2, <1>3, <1>4, <1>5, <1>10, <1>12 DEF Continue
<1> QED BY <1>6, <1>7, <1>8, <1>9, <1>11, <1>12 DEF Next

\* A step that adds a redemption row leaves the code open and both limits kept.
THEOREM Admission == Spec => AdmissionWithinLimit
<1> DEFINE Kept(t) ==
        redemption[t].status = "none" /\ redemption'[t].status # "none" =>
            LET c == CodeOf[t] IN
            /\ promo'[c].exists /\ promo'[c].isActive
            /\ promo'[c].terms.maxTotalUses # Null =>
                   Cardinality(Uses(c)') <= promo'[c].terms.maxTotalUses
            /\ Cardinality(UsesBy(c, UserOf[t])') <= promo'[c].terms.maxUsesPerUser
<1>1. ASSUME IInv, Next, NEW t \in Txn PROVE Kept(t)
  <2> SUFFICES ASSUME redemption[t].status = "none", redemption'[t].status # "none"
               PROVE  LET c == CodeOf[t] IN
                      /\ promo'[c].exists /\ promo'[c].isActive
                      /\ promo'[c].terms.maxTotalUses # Null =>
                             Cardinality(Uses(c)') <= promo'[c].terms.maxTotalUses
                      /\ Cardinality(UsesBy(c, UserOf[t])') <= promo'[c].terms.maxUsesPerUser
    OBVIOUS
  <2> DEFINE c == CodeOf[t]
             u == UserOf[t]
  <2>1. TypeOK /\ AdmissionInv /\ RowInv
    BY <1>1 DEF IInv
  <2>2. PICK p \in Proc : (ReserveInsert(p) \/ RedeemInsert(p)) /\ arg[p] = t
    BY <1>1, <2>1, OnlyInserts
  <2>3. c \in Code
    BY CodeOfAssumption
  <2>4. pc[p] \in Inserting
    BY <2>2 DEF ReserveInsert, RedeemInsert, Inserting
  <2>5. promo[c].exists /\ promo[c].isActive /\ HasRoom(c, u)
    BY <2>1, <2>2, <2>4 DEF AdmissionInv, MayInsert
  <2>6. /\ promo'[c].exists = promo[c].exists /\ promo'[c].isActive = promo[c].isActive
        /\ promo'[c].terms = promo[c].terms
    BY <2>1, <2>2, <2>3 DEF ReserveInsert, RedeemInsert, TypeOK, PromoRow
  <2>7. now' = now /\ \A x \in Txn : x # t => redemption'[x] = redemption[x]
    BY <2>1, <2>2 DEF ReserveInsert, RedeemInsert, SetRow, TypeOK
  <2>8. Uses(c)' \subseteq Uses(c) \cup {t} /\ UsesBy(c, u)' \subseteq UsesBy(c, u) \cup {t}
    BY <2>7 DEF Uses, UsesBy, Active
  <2>9. promo[c].terms.maxUsesPerUser \in Nat /\ promo[c].terms.maxTotalUses \in Nat \cup {Null}
    BY <2>1, <2>3 DEF TypeOK, PromoRow, Terms
  <2>10. Cardinality(UsesBy(c, u)') <= promo[c].terms.maxUsesPerUser
    BY <2>5, <2>8, <2>9, UsesFinite, OneMore DEF HasRoom
  <2>11. promo[c].terms.maxTotalUses # Null =>
             Cardinality(Uses(c)') <= promo[c].terms.maxTotalUses
    BY <2>5, <2>8, <2>9, UsesFinite, OneMore DEF HasRoom
  <2> QED BY <2>5, <2>6, <2>10, <2>11
<1>2. IInv /\ [Next]_vars => [\A t \in Txn : Kept(t)]_vars
  BY <1>1
<1>3. Spec => [][\A t \in Txn : Kept(t)]_vars
  BY <1>2, Inductive, PTL DEF Spec
<1> QED BY <1>3 DEF AdmissionWithinLimit

(***************************************************************************)
(* PromoCodes implements PromoLedger                                       *)
(***************************************************************************)
LedgerTerms == <<[c \in Code |-> promo[c].terms.maxTotalUses],
                 [c \in Code |-> promo[c].terms.maxUsesPerUser],
                 [c \in Code |-> promo[c].exists /\ promo[c].isActive]>>
Statuses == [t \in Txn |-> redemption[t].status]
Live == {t \in Txn : Active(t)}

\* The instance has a Cardinality of its own.
LEMMA LedgerCount == ASSUME NEW S PROVE Ledger!Cardinality(S) = Cardinality(S)
BY DEF Ledger!Cardinality, Cardinality

\* The ledger's variables are these three, and its counts are the code's.
LEMMA LedgerReads ==
    ASSUME NEW c \in Code, NEW u
    PROVE  Ledger!HasRoom(c, u) <=> HasRoom(c, u)
<1>1. Ledger!LiveUses(c) = Uses(c)
  BY DEF Ledger!LiveUses, Uses
<1>2. Ledger!LiveUsesBy(c, u) = UsesBy(c, u)
  BY <1>1 DEF Ledger!LiveUsesBy, UsesBy
<1> QED BY <1>1, <1>2, LedgerCount DEF Ledger!HasRoom, HasRoom

LEMMA LedgerInit == Init => Ledger!Init
<1> SUFFICES ASSUME Init PROVE Ledger!Init OBVIOUS
<1>1. {t \in Txn : Active(t)} = {}
  BY DEF Init, NoRow, Active
<1>2. \A c \in Code : promo[c].terms.maxTotalUses \in Nat /\ promo[c].terms.maxUsesPerUser \in Nat
                      /\ (promo[c].exists /\ promo[c].isActive) \in BOOLEAN
  BY DEF Init, AbsentRow, NoTerms
<1>3. [t \in Txn |-> redemption[t].status] = [t \in Txn |-> "none"]
  BY DEF Init, NoRow
<1> QED BY <1>1, <1>2, <1>3 DEF Ledger!Init

\* Steps that change neither the rows of the redemptions nor the clock change, if
\* anything, the terms: the ledger stutters or is administered.
LEMMA LedgerAdminister ==
    ASSUME TypeOK', UNCHANGED <<redemption, now>>
    PROVE  Ledger!Next
<1>1. \A c \in Code : /\ promo'[c].terms.maxTotalUses \in Nat \cup {Null}
                      /\ promo'[c].terms.maxUsesPerUser \in Nat
                      /\ (promo'[c].exists /\ promo'[c].isActive) \in BOOLEAN
  BY DEF TypeOK, PromoRow, Terms
<1>2. UNCHANGED <<Statuses, Live>>
  BY DEF Statuses, Live, Active
<1>3. Ledger!Administer
  BY <1>1, <1>2 DEF Ledger!Administer, Statuses, Live
<1> QED BY <1>3 DEF Ledger!Next

LEMMA LedgerStutter ==
    ASSUME UNCHANGED <<redemption, now, LedgerTerms>>
    PROVE  UNCHANGED Ledger!ledgerVars
BY DEF Ledger!ledgerVars, LedgerTerms, Active

\* Counting a use or taking it back leaves the terms alone.
LEMMA CountKeepsTerms ==
    ASSUME TypeOK, NEW c \in Code, NEW n, promo' = [promo EXCEPT ![c].currentUses = n]
    PROVE  UNCHANGED LedgerTerms
<1>1. \A d \in Code : /\ promo'[d].terms = promo[d].terms
                      /\ promo'[d].exists = promo[d].exists
                      /\ promo'[d].isActive = promo[d].isActive
  BY DEF TypeOK, PromoRow
<1> QED BY <1>1 DEF LedgerTerms

\* reserve() and redeem() without a reservation: Admit, or nothing when another
\* request was first.
LEMMA LedgerInsert ==
    ASSUME IInv, NEW p \in Proc, ReserveInsert(p) \/ RedeemInsert(p)
    PROVE  Ledger!Next \/ UNCHANGED Ledger!ledgerVars
<1>0. arg[p] \in Txn
  BY DEF IInv, ReserveInsert, RedeemInsert, TypeOK, TxnSteps
<1> PICK t \in Txn : t = arg[p]
  BY <1>0
<1> DEFINE c == CodeOf[t]
<1>1. TypeOK /\ pc[p] \in Inserting /\ t \in Txn /\ c \in Code /\ now' = now
  BY CodeOfAssumption DEF IInv, ReserveInsert, RedeemInsert, Inserting, TypeOK, TxnSteps
<1>2. CASE redemption[t].status # "none"
  <2>1. UNCHANGED <<promo, redemption, now>>
    BY <1>1, <1>2 DEF ReserveInsert, RedeemInsert
  <2> QED BY <2>1, LedgerStutter DEF LedgerTerms
<1>3. CASE redemption[t].status = "none"
  <2>1. PICK s \in {"reserved", "completed"}, e \in Nat \cup {Null} :
            SetRow(t, s, e) /\ (s = "reserved" => e = now + ReservationTtl)
    BY <1>1, <1>3, TtlAssumption DEF ReserveInsert, RedeemInsert, TypeOK
  <2>2. UNCHANGED LedgerTerms
    <3>1. CASE ReserveInsert(p)
      BY <3>1 DEF ReserveInsert, LedgerTerms
    <3>2. CASE RedeemInsert(p)
      BY <1>1, <1>3, <3>2, CountKeepsTerms DEF RedeemInsert
    <3> QED BY <3>1, <3>2
  <2>3. Statuses' = [Statuses EXCEPT ![t] = s]
    BY <1>1, <2>1 DEF SetRow, Statuses, TypeOK
  <2>4. Active(t)'
    BY <1>1, <2>1, TtlAssumption DEF SetRow, Active, TypeOK
  <2>5. \A x \in Txn : x # t => redemption'[x] = redemption[x]
    BY <1>1, <2>1 DEF SetRow, TypeOK
  <2>6. Live' = Live \cup {t}
    BY <1>1, <2>4, <2>5 DEF Live, Active
  <2>7. promo[c].exists /\ promo[c].isActive /\ HasRoom(c, UserOf[t])
    BY <1>1 DEF IInv, AdmissionInv, MayInsert
  <2>8. Ledger!HasRoom(c, UserOf[t])
    BY <1>1, <2>7, LedgerReads
  <2>9. Ledger!Admit(t, s)
    BY <1>1, <1>3, <2>2, <2>3, <2>6, <2>7, <2>8 DEF Ledger!Admit, Statuses, Live, LedgerTerms
  <2> QED BY <1>1, <2>9 DEF Ledger!Next
<1> QED BY <1>2, <1>3

LEMMA LedgerComplete ==
    ASSUME IInv, NEW p \in Proc, RedeemFinish(p)
    PROVE  Ledger!Next
<1>0. arg[p] \in Txn
  BY DEF IInv, RedeemFinish, TypeOK, TxnSteps
<1> PICK t \in Txn : t = arg[p]
  BY <1>0
<1>1. TypeOK /\ t \in Txn /\ CodeOf[t] \in Code /\ redemption[t].status = "reserved" /\ now' = now
  BY CodeOfAssumption DEF IInv, RowInv, RedeemFinish, TypeOK, TxnSteps
<1>2. UNCHANGED LedgerTerms
  BY <1>1, CountKeepsTerms DEF RedeemFinish
<1>3. Statuses' = [Statuses EXCEPT ![t] = "completed"]
  BY <1>1 DEF RedeemFinish, SetRow, Statuses, TypeOK
<1>4. Active(t)' /\ \A x \in Txn : x # t => redemption'[x] = redemption[x]
  BY <1>1 DEF RedeemFinish, SetRow, Active, TypeOK
<1>5. Live' = Live \cup {t}
  BY <1>1, <1>4 DEF Live, Active
<1>6. Ledger!Complete(t)
  BY <1>1, <1>2, <1>3, <1>5 DEF Ledger!Complete, Statuses, Live, LedgerTerms
<1> QED BY <1>1, <1>6 DEF Ledger!Next

\* ReverseSave of a reservation and ReverseCount; a reversal that is going to count
\* has changed nothing yet.
LEMMA LedgerReverse ==
    ASSUME IInv, NEW p \in Proc, ReverseSave(p) \/ ReverseCount(p)
    PROVE  Ledger!Next \/ UNCHANGED Ledger!ledgerVars
<1>0. arg[p] \in Txn
  BY DEF IInv, ReverseSave, ReverseCount, TypeOK, TxnSteps
<1> PICK t \in Txn : t = arg[p]
  BY <1>0
<1>1. TypeOK /\ t \in Txn /\ CodeOf[t] \in Code /\ redemption[t].status # "none" /\ now' = now
  BY CodeOfAssumption DEF IInv, RowInv, ReverseSave, ReverseCount, TypeOK, TxnSteps
<1>2. UNCHANGED LedgerTerms
  <2>1. CASE ReverseSave(p)
    BY <2>1 DEF ReverseSave, LedgerTerms
  <2>2. CASE ReverseCount(p)
    BY <1>1, <2>2, CountKeepsTerms DEF ReverseCount
  <2> QED BY <2>1, <2>2
<1>3. CASE UNCHANGED redemption
  BY <1>1, <1>2, <1>3, LedgerStutter
<1>4. CASE redemption' = [redemption EXCEPT ![t].status = "reversed"]
  <2>1. Statuses' = [Statuses EXCEPT ![t] = "reversed"]
    BY <1>1, <1>4 DEF Statuses, TypeOK, RedemptionRow
  <2>2. ~Active(t)' /\ \A x \in Txn : x # t => redemption'[x] = redemption[x]
    BY <1>1, <1>4 DEF Active, TypeOK, RedemptionRow
  <2>3. Live' = Live \ {t}
    BY <1>1, <2>2 DEF Live, Active
  <2>4. Ledger!Reverse(t)
    BY <1>1, <1>2, <2>1, <2>3 DEF Ledger!Reverse, Statuses, Live, LedgerTerms
  <2> QED BY <1>1, <2>4 DEF Ledger!Next
<1> QED BY <1>3, <1>4 DEF ReverseSave, ReverseCount

LEMMA LedgerRelease ==
    ASSUME TypeOK, NEW S \in SUBSET Txn, \A t \in S : redemption[t].status = "reserved",
           redemption' = [t \in Txn |-> IF t \in S THEN [redemption[t] EXCEPT !.status = "expired"]
                                        ELSE redemption[t]],
           UNCHANGED <<now, LedgerTerms>>
    PROVE  Ledger!Next
<1>1. Statuses' = [t \in Txn |-> IF t \in S THEN "expired" ELSE redemption[t].status]
  BY DEF Statuses, TypeOK, RedemptionRow
<1>2. \A t \in Txn : /\ t \in S => ~Active(t)'
                     /\ t \notin S => redemption'[t] = redemption[t]
  BY DEF Active, TypeOK, RedemptionRow
<1>3. Live' = Live \ S
  BY <1>2 DEF Live, Active
<1>4. Ledger!Release(S)
  BY <1>1, <1>3 DEF Ledger!Release, Statuses, Live, LedgerTerms
<1> QED BY <1>4 DEF Ledger!Next

LEMMA LedgerLapse ==
    ASSUME TypeOK, Tick
    PROVE  Ledger!Next
<1> DEFINE S == Live \ Live'
<1>1. UNCHANGED <<redemption, Statuses, LedgerTerms>> /\ now' = now + 1 /\ now \in Nat
  BY DEF Tick, TypeOK, Statuses, LedgerTerms
<1>2. \A t \in Txn : redemption[t].status = "reserved" => redemption[t].expiresAt \in Nat
  BY DEF TypeOK
<1>3. ASSUME NEW t \in Txn, Active(t)' PROVE Active(t)
  <2>1. redemption[t].status = "reserved" => redemption[t].expiresAt \in Nat
    BY <1>2
  <2> QED BY <1>1, <1>3, <2>1 DEF Active
<1>4. ASSUME NEW t \in S PROVE t \in Txn /\ redemption[t].status = "reserved"
  BY <1>1 DEF Live, Active
<1>5. Live' = Live \ S
  BY <1>3 DEF Live
<1>6. Ledger!Lapse(S)
  BY <1>1, <1>4, <1>5 DEF Ledger!Lapse, Statuses, Live, LedgerTerms
<1>7. S \in SUBSET Txn
  BY DEF Live
<1> QED BY <1>6, <1>7 DEF Ledger!Next

LEMMA LedgerStep == IInv /\ TypeOK' /\ [Next]_vars => [Ledger!Next]_(Ledger!ledgerVars)
<1> SUFFICES ASSUME IInv, TypeOK', [Next]_vars
             PROVE  Ledger!Next \/ UNCHANGED Ledger!ledgerVars
  OBVIOUS
<1>1. TypeOK BY DEF IInv
<1>2. CASE UNCHANGED <<redemption, now>>
  BY <1>2, LedgerAdminister
<1>3. ASSUME NEW t \in Txn, ReleaseReservation(t)
      PROVE  Ledger!Next
  <2>1. redemption' = [x \in Txn |-> IF x \in {t} THEN [redemption[x] EXCEPT !.status = "expired"]
                                     ELSE redemption[x]]
    BY <1>1, <1>3 DEF ReleaseReservation, TypeOK
  <2>2. UNCHANGED <<now, LedgerTerms>> /\ redemption[t].status = "reserved"
    BY <1>3 DEF ReleaseReservation, LedgerTerms
  <2>3. {t} \in SUBSET Txn /\ \A x \in {t} : redemption[x].status = "reserved"
    BY <2>2
  <2> QED BY <1>1, <2>1, <2>2, <2>3, LedgerRelease
<1>4. CASE CleanupExpiredReservations
  <2> DEFINE S == {t \in Txn : IsOverdue(t)}
  <2>1. UNCHANGED <<now, LedgerTerms>>
    BY <1>4 DEF CleanupExpiredReservations, LedgerTerms
  <2>2. S \in SUBSET Txn /\ \A t \in S : redemption[t].status = "reserved"
    BY DEF IsOverdue
  <2>3. redemption' = [t \in Txn |-> IF t \in S THEN [redemption[t] EXCEPT !.status = "expired"]
                                     ELSE redemption[t]]
    BY <1>4 DEF CleanupExpiredReservations
  <2> HIDE DEF S
  <2> QED BY <1>1, <2>1, <2>2, <2>3, LedgerRelease
<1>5. ASSUME NEW p \in Proc, Continue(p) PROVE Ledger!Next \/ UNCHANGED Ledger!ledgerVars
  <2>1. CASE AdmitLock(p) \/ AdmitRefuse(p) \/ EditSave(p) \/ RemoveDelete(p)
    BY <1>2, <2>1 DEF AdmitLock, AdmitRefuse, EditSave, RemoveDelete
  <2> QED BY <1>5, <2>1, LedgerInsert, LedgerComplete, LedgerReverse DEF Continue
<1>6. ASSUME NEW p \in Proc, NEW t \in Txn, ReserveBegin(p, t) \/ RedeemBegin(p, t)
                                            \/ RedeemLockRow(p, t) \/ ReverseRead(p, t)
      PROVE  Ledger!Next \/ UNCHANGED Ledger!ledgerVars
  BY <1>2, <1>6 DEF ReserveBegin, RedeemBegin, RedeemLockRow, ReverseRead
<1>7. ASSUME NEW p \in Proc, NEW c \in Code, EditRead(p, c) \/ RemoveRead(p, c)
      PROVE  Ledger!Next \/ UNCHANGED Ledger!ledgerVars
  BY <1>2, <1>7 DEF EditRead, RemoveRead
<1>8. CASE CleanupExpiredCodes \/ \E c \in Code : Create(c)
  BY <1>2, <1>8 DEF CleanupExpiredCodes, Create
<1>9. CASE Tick
  BY <1>1, <1>9, LedgerLapse
<1>10. CASE UNCHANGED vars
  BY <1>2, <1>10 DEF vars
<1>11. CASE Next
  BY <1>3, <1>4, <1>5, <1>6, <1>7, <1>8, <1>9, <1>11 DEF Next
<1> QED BY <1>10, <1>11

\* The service, with its locks, its unlocked reads and its clock, implements the
\* ledger whose requests are single steps.
THEOREM Refinement == Spec => ImplementsLedger
<1>1. Init => Ledger!Init BY LedgerInit
<1>2. IInv /\ TypeOK' /\ [Next]_vars => [Ledger!Next]_(Ledger!ledgerVars) BY LedgerStep
<1> QED BY <1>1, <1>2, Inductive, Types, PTL DEF Spec, ImplementsLedger, Ledger!Spec
===============================================================================
