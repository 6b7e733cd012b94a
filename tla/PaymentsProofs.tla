---------------------------- MODULE PaymentsProofs ----------------------------
(***************************************************************************)
(* What holds of Payments for any transactions, users, requests, goods,    *)
(* scenarios and bounds.                                                   *)
(***************************************************************************)
EXTENDS Payments, SequenceTheorems, TLAPS

(***************************************************************************)
(* Types                                                                   *)
(***************************************************************************)
\* The conjuncts of TypeOK, by who changes them.
OrderOK == order \in Scenarios
RowsOK == txn \in [Txn -> TxnRow]
AccessOK ==
    /\ enrollment \in [User \X Ref -> EnrollmentStatus]
    /\ subs \in [Txn -> Seq(SubStatus)]
    /\ seat \in [User \X Ref -> BOOLEAN]
PromoOK == redemption \in [Txn -> Ledger!Status] /\ live \subseteq Txn
MoneyOK == money \in [Txn -> Money]
ReqOK == req \in [Proc -> Request] /\ \A p \in Proc : req[p].pc # "idle" => req[p].txn \in Txn
HistoryOK ==
    /\ news \in 0..MaxNews
    /\ fulfilments \in [Txn -> 0..2]
    /\ overwritten \subseteq Txn
    /\ crashed \subseteq Txn
PartsOK == OrderOK /\ RowsOK /\ AccessOK /\ PromoOK /\ MoneyOK /\ ReqOK /\ HistoryOK

LEMMA Parts == TypeOK <=> PartsOK
BY DEF TypeOK, PartsOK, OrderOK, RowsOK, AccessOK, PromoOK, MoneyOK, ReqOK, HistoryOK

LEMMA Orders ==
    ASSUME OrderOK, NEW t \in Txn
    PROVE  /\ order[t] \in Order
           /\ Kind(t) \in Kinds
           /\ Holder(t) \in User \X Ref
<1>1. order \in [Txn -> Order]
  BY ScenariosAssumption DEF OrderOK
<1> QED BY <1>1, UserOfAssumption, KindOfAssumption DEF Order, Kind, Holder

LEMMA IdleType == Idle \in Request
BY DEF Idle, Request, TxnStatus, EnrollmentStatus

LEMMA EndType == ASSUME ReqOK, NEW p \in Proc, End(p) PROVE ReqOK'
BY IdleType DEF ReqOK, End, Idle

LEMMA GotoType ==
    ASSUME ReqOK, NEW p \in Proc, req[p].pc # "idle", NEW step \in Step, Goto(p, step)
    PROVE  ReqOK'
<1>1. [req[p] EXCEPT !.pc = step] \in Request
  BY DEF ReqOK, Request
<1>2. req' = [req EXCEPT ![p] = [req[p] EXCEPT !.pc = step]]
  BY DEF Goto
<1>3. [req[p] EXCEPT !.pc = step].txn = req[p].txn
  BY DEF ReqOK, Request
<1> QED BY <1>1, <1>2, <1>3 DEF ReqOK

LEMMA ReqType ==
    ASSUME ReqOK, NEW p \in Proc, NEW r \in Request, r.pc # "idle" => r.txn \in Txn,
           req' = [req EXCEPT ![p] = r]
    PROVE  ReqOK'
BY DEF ReqOK

LEMMA SaveType ==
    ASSUME RowsOK, ReqOK, HistoryOK, NEW p \in Proc, req[p].txn \in Txn,
           NEW s \in TxnStatus, Save(p, s)
    PROVE  RowsOK' /\ HistoryOK'
<1>1. req[p].meta \in SUBSET MetaKey
  BY DEF ReqOK, Request
<1>2. [status |-> s, meta |-> req[p].meta] \in TxnRow
  BY <1>1 DEF TxnRow
<1>3. RowsOK'
  BY <1>2 DEF RowsOK, Save
<1> QED BY <1>3 DEF HistoryOK, Save

LEMMA UpdateMetaType ==
    ASSUME RowsOK, ReqOK, HistoryOK, NEW p \in Proc, req[p].txn \in Txn,
           NEW keys \in SUBSET MetaKey, UpdateMeta(p, keys)
    PROVE  RowsOK' /\ HistoryOK'
<1>1. req[p].meta \cup keys \in SUBSET MetaKey
  BY DEF ReqOK, Request
<1>2. RowsOK'
  BY <1>1 DEF RowsOK, UpdateMeta, TxnRow
<1> QED BY <1>2 DEF HistoryOK, UpdateMeta

LEMMA LedgerType ==
    ASSUME PromoOK, NEW t \in Txn, NEW S \in SUBSET Txn, NEW s \in {"reserved", "completed"},
           \/ Ledger!Admit(t, s) \/ Ledger!Complete(t) \/ Ledger!Reverse(t)
           \/ Ledger!Release(S) \/ Ledger!Lapse(S)
           \/ UNCHANGED promo
    PROVE  PromoOK'
<1>1. CASE Ledger!Admit(t, s)
  BY <1>1 DEF PromoOK, Ledger!Admit, Ledger!Status
<1>2. CASE Ledger!Complete(t)
  BY <1>2 DEF PromoOK, Ledger!Complete, Ledger!Status
<1>3. CASE Ledger!Reverse(t)
  BY <1>3 DEF PromoOK, Ledger!Reverse, Ledger!Status
<1>4. CASE Ledger!Release(S)
  BY <1>4 DEF PromoOK, Ledger!Release, Ledger!Status
<1>5. CASE Ledger!Lapse(S)
  BY <1>5 DEF PromoOK, Ledger!Lapse
<1>6. CASE UNCHANGED promo
  BY <1>6 DEF PromoOK, promo
<1> QED BY <1>1, <1>2, <1>3, <1>4, <1>5, <1>6

LEMMA TypeInit == Init => TypeOK
<1> SUFFICES ASSUME Init PROVE PartsOK
  BY Parts
<1>1. OrderOK /\ RowsOK /\ AccessOK /\ MoneyOK
  BY DEF Init, OrderOK, RowsOK, AccessOK, MoneyOK, TxnRow, TxnStatus, EnrollmentStatus, Money
<1>2. PromoOK
  BY DEF Init, PromoOK, Ledger!Status
<1>3. ReqOK
  BY IdleType DEF Init, ReqOK, Idle
<1>4. HistoryOK
  BY BoundsAssumption DEF Init, HistoryOK
<1> QED BY <1>1, <1>2, <1>3, <1>4 DEF PartsOK

\* A step of a request touches either the promo tables or the transactions.
LEMMA FramePromo ==
    ASSUME PartsOK, UNCHANGED <<order, txn, access, money, history>>, PromoOK', ReqOK'
    PROVE  TypeOK'
<1>1. OrderOK' /\ RowsOK' /\ AccessOK' /\ MoneyOK' /\ HistoryOK'
  BY DEF PartsOK, OrderOK, RowsOK, AccessOK, MoneyOK, HistoryOK, access, history
<1> QED
  BY <1>1 DEF TypeOK, OrderOK, RowsOK, AccessOK, PromoOK, MoneyOK, ReqOK, HistoryOK

LEMMA FrameRows ==
    ASSUME PartsOK, UNCHANGED <<order, access, promo, money>>, RowsOK', HistoryOK', ReqOK'
    PROVE  TypeOK'
<1>1. OrderOK' /\ AccessOK' /\ PromoOK' /\ MoneyOK'
  BY DEF PartsOK, OrderOK, AccessOK, PromoOK, MoneyOK, access, promo
<1> QED
  BY <1>1 DEF TypeOK, OrderOK, RowsOK, AccessOK, PromoOK, MoneyOK, ReqOK, HistoryOK

LEMMA UnchangedPromoType == ASSUME PromoOK, UNCHANGED promo PROVE PromoOK'
BY DEF PromoOK, promo

LEMMA GiveBackType == ASSUME PromoOK, NEW t \in Txn, GiveBack(t) PROVE PromoOK'
<1>1. Ledger!Release({t}) \/ UNCHANGED promo
  BY DEF GiveBack
<1>2. {t} \in SUBSET Txn
  OBVIOUS
<1> QED BY <1>1, <1>2, LedgerType

LEMMA TakeBackType == ASSUME PromoOK, NEW t \in Txn, TakeBack(t) PROVE PromoOK'
<1>1. Ledger!Reverse(t) \/ UNCHANGED promo
  BY DEF TakeBack
<1> QED BY <1>1, LedgerType

\* A checkout that fails at the provider goes on to abort, knowing what it has saved; a session's ends.
LEMMA InitiateFailsTo ==
    ASSUME ReqOK, NEW p \in Proc, InitiateFails(p)
    PROVE  \/ End(p)
           \/ \E r \in Request :
                /\ req' = [req EXCEPT ![p] = r]
                /\ r.txn = req[p].txn /\ r.meta = req[p].meta
                /\ r.pc \in {"abortRelease", "abortSave"} /\ r.status \in {"pending", "failed"}
<1> SUFFICES ASSUME ~End(p)
             PROVE  \E r \in Request :
                      /\ req' = [req EXCEPT ![p] = r]
                      /\ r.txn = req[p].txn /\ r.meta = req[p].meta
                      /\ r.pc \in {"abortRelease", "abortSave"} /\ r.status \in {"pending", "failed"}
  OBVIOUS
<1>1. PICK s \in {"pending", "failed"}, next \in {"abortRelease", "abortSave"} :
          req' = [req EXCEPT ![p].pc = next, ![p].status = s]
  BY DEF InitiateFails
<1>2. req \in [Proc -> Request]
  BY DEF ReqOK
<1> DEFINE r == [req[p] EXCEPT !.pc = next, !.status = s]
<1>5. next \in Step \cup {"idle"} /\ s \in TxnStatus /\ req[p] \in Request
  BY <1>2 DEF Step, CheckoutSteps, TxnStatus
<1>3. /\ r \in Request /\ r.txn = req[p].txn /\ r.meta = req[p].meta
      /\ r.pc = next /\ r.status = s
  BY <1>5 DEF Request
<1>4. req' = [req EXCEPT ![p] = r]
  BY <1>1, <1>2 DEF Request
<1> QED BY <1>3, <1>4

\* A checkout at no cost goes on to its promo code, or without one to the grant.
LEMMA FreeInsertTo ==
    ASSUME ReqOK, NEW p \in Proc, FreeInsert(p)
    PROVE  /\ req[p].pc = "freeInsert" /\ req[p].txn \in Txn
           /\ \E r \in Request :
                /\ req' = [req EXCEPT ![p] = r]
                /\ r.txn = req[p].txn /\ r.meta = req[p].meta /\ r.status = "success"
                /\ r.pc \in {"freeReserve", "grantFind"}
                /\ r.pc = "freeReserve" <=> HasPromo(req[p].txn)
<1> DEFINE next == IF HasPromo(req[p].txn) THEN "freeReserve" ELSE "grantFind"
           r == [req[p] EXCEPT !.status = "success", !.pc = next]
<1>1. req[p].pc = "freeInsert" /\ req' = [req EXCEPT ![p] = r]
  BY DEF FreeInsert
<1>2. next \in {"freeReserve", "grantFind"} /\ (next = "freeReserve" <=> HasPromo(req[p].txn))
  OBVIOUS
<1> HIDE DEF next
<1>5. req[p] \in Request
  BY DEF ReqOK
<1>6. next \in Step \cup {"idle"} /\ "success" \in TxnStatus
  BY <1>2 DEF Step, CheckoutSteps, FulfilSteps, TxnStatus
<1>3. /\ r \in Request /\ r.txn = req[p].txn /\ r.meta = req[p].meta
      /\ r.status = "success" /\ r.pc = next
  BY <1>5, <1>6 DEF Request
<1>4. req[p].txn \in Txn
  BY <1>1 DEF ReqOK
<1> HIDE DEF r
<1> QED BY <1>1, <1>2, <1>3, <1>4

\* Checkouts.
LEMMA TypeCheckout ==
    ASSUME PartsOK, NEW p \in Proc,
           \/ \E t \in Txn : CheckoutBegin(p, t)
           \/ CancelFind(p) \/ CancelRelease(p) \/ CancelUpdate(p)
           \/ Insert(p) \/ Reserve(p) \/ ReserveRefused(p)
           \/ Initiate(p) \/ InitiateFails(p) \/ AbortRelease(p) \/ AbortSave(p)
    PROVE  TypeOK'
<1>0. RowsOK /\ PromoOK /\ ReqOK /\ HistoryOK
  BY DEF PartsOK
<1>1. ASSUME NEW t \in Txn, CheckoutBegin(p, t) PROVE TypeOK'
  <2>1. ReqOK'
    BY <1>0, <1>1, IdleType DEF CheckoutBegin, ReqOK, Request, Idle, Step, CheckoutSteps, TxnStatus
  <2>2. PromoOK' BY <1>0, <1>1, UnchangedPromoType DEF CheckoutBegin
  <2> QED BY <1>1, <2>1, <2>2, FramePromo DEF CheckoutBegin
<1>2. CASE CancelFind(p)
  <2> DEFINE found == {x \in Txn : Holder(x) = Holder(req[p].txn) /\ txn[x].status = "pending"}
             step == IF found = {} THEN "insert" ELSE "cancelRelease"
             r == [req[p] EXCEPT !.stale = found, !.pc = step]
  <2>0. req' = [req EXCEPT ![p] = r]
    BY <1>2 DEF CancelFind
  <2>1. ReqOK'
    <3>1. found \in SUBSET Txn /\ step \in Step
      BY DEF Step, CheckoutSteps
    <3> HIDE DEF found, step
    <3>2. r \in Request /\ r.txn = req[p].txn /\ req[p].txn \in Txn
      BY <1>0, <1>2, <3>1 DEF CancelFind, ReqOK, Request
    <3> QED BY <1>0, <2>0, <3>2, ReqType
  <2>2. PromoOK' BY <1>0, <1>2, UnchangedPromoType DEF CancelFind
  <2> QED BY <1>2, <2>1, <2>2, FramePromo DEF CancelFind
<1>3. CASE CancelRelease(p)
  <2>1. ReqOK'
    BY <1>0, <1>3, GotoType DEF CancelRelease, Step, CheckoutSteps
  <2>2. {x \in req[p].stale : redemption[x] = "reserved"} \in SUBSET Txn
    BY <1>0 DEF ReqOK, Request
  <2>3. req[p].txn \in Txn
    BY <1>0, <1>3 DEF CancelRelease, ReqOK
  <2>4. PromoOK' BY <1>0, <1>3, <2>2, <2>3, LedgerType DEF CancelRelease
  <2> QED BY <1>3, <2>1, <2>4, FramePromo DEF CancelRelease
<1>4. CASE CancelUpdate(p)
  <2>1. req[p].stale \subseteq Txn
    BY <1>0 DEF ReqOK, Request
  <2> DEFINE r == [req[p] EXCEPT !.pc = "insert", !.stale = {}]
  <2>2. ReqOK'
    <3>1. r \in Request /\ r.txn = req[p].txn /\ req[p].txn \in Txn
      BY <1>0, <1>4 DEF CancelUpdate, ReqOK, Request, Step, CheckoutSteps
    <3>2. req' = [req EXCEPT ![p] = r]
      BY <1>4 DEF CancelUpdate
    <3> QED BY <1>0, <3>1, <3>2, ReqType
  <2>3. RowsOK'
    BY <1>0, <1>4 DEF CancelUpdate, RowsOK, TxnRow, TxnStatus
  <2>4. HistoryOK'
    BY <1>0, <1>4, <2>1 DEF CancelUpdate, HistoryOK
  <2> QED BY <1>4, <2>2, <2>3, <2>4, FrameRows DEF CancelUpdate
<1>5. CASE Insert(p)
  <2>1. ReqOK'
    BY <1>0, <1>5, GotoType DEF Insert, Step, CheckoutSteps
  <2>2. RowsOK'
    BY <1>0, <1>5 DEF Insert, RowsOK, TxnRow, TxnStatus
  <2>3. HistoryOK'
    BY <1>0, <1>5 DEF Insert, HistoryOK, history
  <2> QED BY <1>5, <2>1, <2>2, <2>3, FrameRows DEF Insert
<1>6. CASE Reserve(p)
  <2>1. ReqOK' /\ req[p].txn \in Txn
    BY <1>0, <1>6, GotoType DEF Reserve, Step, CheckoutSteps, ReqOK
  <2>2. PromoOK' BY <1>0, <1>6, <2>1, LedgerType DEF Reserve
  <2> QED BY <1>6, <2>1, <2>2, FramePromo DEF Reserve
<1>7. CASE ReserveRefused(p)
  <2>1. ReqOK' BY <1>0, <1>7, EndType DEF ReserveRefused
  <2>2. PromoOK' BY <1>0, <1>7, UnchangedPromoType DEF ReserveRefused
  <2> QED BY <1>7, <2>1, <2>2, FramePromo DEF ReserveRefused
<1>8. CASE Initiate(p)
  <2>1. req[p].txn \in Txn
    BY <1>0, <1>8 DEF Initiate, ReqOK
  <2>2. ReqOK' BY <1>0, <1>8, EndType DEF Initiate
  <2>3. RowsOK' /\ HistoryOK'
    BY <1>0, <1>8, <2>1, SaveType DEF Initiate, TxnStatus
  <2>4. MoneyOK'
    BY <1>8 DEF PartsOK, MoneyOK, Initiate, Money
  <2>5. OrderOK' /\ AccessOK' /\ PromoOK'
    BY <1>8 DEF PartsOK, OrderOK, AccessOK, PromoOK, Initiate, access, promo
  <2> QED
    BY <2>2, <2>3, <2>4, <2>5
    DEF TypeOK, OrderOK, RowsOK, AccessOK, PromoOK, MoneyOK, ReqOK, HistoryOK
<1>9. CASE InitiateFails(p)
  <2>1. req[p].txn \in Txn
    BY <1>0, <1>9 DEF InitiateFails, ReqOK
  <2>2. ReqOK'
    <3>1. CASE End(p) BY <1>0, <3>1, EndType
    <3>2. ASSUME NEW r \in Request, req' = [req EXCEPT ![p] = r], r.txn = req[p].txn PROVE ReqOK'
      BY <1>0, <2>1, <3>2, ReqType
    <3> QED BY <1>0, <1>9, <3>1, <3>2, InitiateFailsTo
  <2>3. RowsOK' /\ HistoryOK'
    <3>1. CASE UNCHANGED <<txn, history>>
      BY <1>0, <3>1 DEF RowsOK, HistoryOK, history
    <3>2. CASE Save(p, "failed")
      BY <1>0, <2>1, <3>2, SaveType DEF TxnStatus
    <3> QED BY <1>9, <3>1, <3>2 DEF InitiateFails
  <2> QED BY <1>9, <2>2, <2>3, FrameRows DEF InitiateFails
<1>10. CASE AbortRelease(p)
  <2>1. ReqOK' /\ req[p].txn \in Txn
    BY <1>0, <1>10, GotoType DEF AbortRelease, Step, CheckoutSteps, ReqOK
  <2>2. PromoOK' BY <1>0, <1>10, <2>1, GiveBackType DEF AbortRelease
  <2> QED BY <1>10, <2>1, <2>2, FramePromo DEF AbortRelease
<1>11. CASE AbortSave(p)
  <2>1. req[p].txn \in Txn
    BY <1>0, <1>11 DEF AbortSave, ReqOK
  <2>2. ReqOK' BY <1>0, <1>11, EndType DEF AbortSave
  <2>3. RowsOK' /\ HistoryOK'
    BY <1>0, <1>11, <2>1, SaveType DEF AbortSave, TxnStatus
  <2> QED BY <1>11, <2>2, <2>3, FrameRows DEF AbortSave
<1> QED BY <1>1, <1>2, <1>3, <1>4, <1>5, <1>6, <1>7, <1>8, <1>9, <1>10, <1>11

\* Free checkouts and webhooks.
LEMMA TypeFreeAndHooks ==
    ASSUME PartsOK, NEW p \in Proc,
           \/ FreeInsert(p) \/ FreePromo(p) \/ FreeUndo(p) \/ FreeFail(p)
           \/ \E t \in Txn : \E ev \in Event : Deliver(p, t, ev)
           \/ HookSave(p) \/ FailRelease(p) \/ FailSave(p)
    PROVE  TypeOK'
<1>0. RowsOK /\ PromoOK /\ ReqOK /\ HistoryOK
  BY DEF PartsOK
<1>1. CASE FreeInsert(p)
  <2>1. PICK r \in Request : req' = [req EXCEPT ![p] = r] /\ r.txn = req[p].txn /\ req[p].txn \in Txn
    BY <1>0, <1>1, FreeInsertTo
  <2>3. ReqOK' BY <1>0, <2>1, ReqType
  <2>4. RowsOK'
    BY <1>0, <1>1 DEF FreeInsert, RowsOK, TxnRow, TxnStatus
  <2>5. HistoryOK'
    BY <1>0, <1>1 DEF FreeInsert, HistoryOK, history
  <2> QED BY <1>1, <2>3, <2>4, <2>5, FrameRows DEF FreeInsert
<1>2. CASE FreePromo(p)
  <2>1. req[p].txn \in Txn
    BY <1>0, <1>2 DEF FreePromo, ReqOK
  <2>2. ReqOK'
    <3>1. req[p].pc # "idle" /\ (Goto(p, "freeRedeem") \/ Goto(p, "grantFind"))
      BY <1>2 DEF FreePromo
    <3> QED BY <1>0, <3>1, GotoType DEF Step, CheckoutSteps, FulfilSteps
  <2>3. PromoOK'
    BY <1>0, <1>2, <2>1, LedgerType DEF FreePromo
  <2> QED BY <1>2, <2>2, <2>3, FramePromo DEF FreePromo
<1>3. CASE FreeUndo(p)
  <2>1. ReqOK' /\ req[p].txn \in Txn
    BY <1>0, <1>3, GotoType DEF FreeUndo, Step, CheckoutSteps, ReqOK
  <2>2. PromoOK' BY <1>0, <1>3, <2>1, TakeBackType DEF FreeUndo
  <2> QED BY <1>3, <2>1, <2>2, FramePromo DEF FreeUndo
<1>4. CASE FreeFail(p)
  <2>1. ReqOK' BY <1>0, <1>4, EndType DEF FreeFail
  <2>2. [status |-> "failed", meta |-> {"fulfillmentError"}] \in TxnRow
    BY DEF TxnRow, TxnStatus, MetaKey
  <2>3. RowsOK' BY <1>0, <1>4, <2>2 DEF FreeFail, RowsOK
  <2>4. HistoryOK' BY <1>0, <1>4 DEF FreeFail, HistoryOK, history
  <2> QED BY <1>4, <2>1, <2>3, <2>4, FrameRows DEF FreeFail
<1>5. ASSUME NEW t \in Txn, NEW ev \in Event, Deliver(p, t, ev) PROVE TypeOK'
  <2> DEFINE next == IF order[t].provider = "paymob" THEN "hookSave"
                     ELSE Reaction(t, ev, txn[t].status)
             r == [Idle EXCEPT !.txn = t, !.ev = ev, !.pc = next,
                               !.status = txn[t].status, !.meta = txn[t].meta]
  <2>1. next \in Step \cup {"idle"}
    BY DEF Reaction, Step, HookSteps, FulfilSteps
  <2>2. txn[t].status \in TxnStatus /\ txn[t].meta \in SUBSET MetaKey
    BY <1>0 DEF RowsOK, TxnRow
  <2>3. req' = [req EXCEPT ![p] = r]
    BY <1>5 DEF Deliver
  <2> HIDE DEF next
  <2>4. r \in Request /\ r.txn = t
    BY <2>1, <2>2, IdleType DEF Request, Idle
  <2>5. ReqOK' BY <1>0, <2>3, <2>4, ReqType
  <2>6. RowsOK' BY <1>0, <1>5 DEF Deliver, RowsOK
  <2>7. HistoryOK'
    <3>1. news < MaxNews /\ news' = news + 1 /\ UNCHANGED <<fulfilments, overwritten, crashed>>
      BY <1>5 DEF Deliver
    <3>2. news' \in 0..MaxNews
      BY <1>0, <3>1, BoundsAssumption DEF HistoryOK
    <3> QED BY <1>0, <3>1, <3>2 DEF HistoryOK
  <2> QED BY <1>5, <2>5, <2>6, <2>7, FrameRows DEF Deliver
<1>6. CASE HookSave(p)
  <2>1. req[p].txn \in Txn /\ req[p].status \in TxnStatus
    BY <1>0, <1>6 DEF HookSave, ReqOK, Request
  <2>2. ReqOK'
    <3> DEFINE next == Reaction(req[p].txn, req[p].ev, req[p].status)
    <3>1. next \in Step \cup {"idle"}
      BY DEF Reaction, Step, HookSteps, FulfilSteps
    <3>2. IF next = "idle" THEN End(p) ELSE Goto(p, next)
      BY <1>6 DEF HookSave
    <3>3. req[p].pc # "idle"
      BY <1>6 DEF HookSave
    <3> HIDE DEF next
    <3>4. CASE next = "idle"
      BY <1>0, <3>2, <3>4, EndType
    <3>5. CASE next # "idle"
      <4>1. next \in Step BY <3>1, <3>5
      <4>2. Goto(p, next) BY <3>2, <3>5
      <4>3. PICK step \in Step : step = next BY <4>1
      <4> QED BY <1>0, <3>3, <4>2, <4>3, GotoType DEF Goto
    <3> QED BY <3>4, <3>5
  <2>3. RowsOK' /\ HistoryOK'
    <3>1. PICK s \in TxnStatus : s = req[p].status BY <2>1
    <3>2. Save(p, s) BY <1>6, <3>1 DEF HookSave, Save
    <3> QED BY <1>0, <2>1, <3>2, SaveType
  <2> QED BY <1>6, <2>2, <2>3, FrameRows DEF HookSave
<1>7. CASE FailRelease(p)
  <2>1. ReqOK' /\ req[p].txn \in Txn
    BY <1>0, <1>7, GotoType DEF FailRelease, Step, HookSteps, ReqOK
  <2>2. PromoOK' BY <1>0, <1>7, <2>1, GiveBackType DEF FailRelease
  <2> QED BY <1>7, <2>1, <2>2, FramePromo DEF FailRelease
<1>8. CASE FailSave(p)
  <2>1. req[p].txn \in Txn
    BY <1>0, <1>8 DEF FailSave, ReqOK
  <2>2. ReqOK' BY <1>0, <1>8, EndType DEF FailSave
  <2>3. RowsOK' /\ HistoryOK'
    BY <1>0, <1>8, <2>1, SaveType DEF FailSave, TxnStatus
  <2> QED BY <1>8, <2>2, <2>3, FrameRows DEF FailSave
<1> QED BY <1>1, <1>2, <1>3, <1>4, <1>5, <1>6, <1>7, <1>8

\* Fulfilment and refunds.
LEMMA TypeFulfilAndRefund ==
    ASSUME PartsOK, NEW p \in Proc,
           \/ Claim(p) \/ Redeem(p) \/ GrantFind(p) \/ GrantWrite(p) \/ Throw(p)
           \/ Mark(p) \/ MarkError(p)
           \/ RefundClaim(p) \/ RefundRevoke(p) \/ RefundMark(p) \/ RefundReverse(p)
    PROVE  TypeOK'
<1>0. OrderOK /\ RowsOK /\ AccessOK /\ PromoOK /\ ReqOK /\ HistoryOK
  BY DEF PartsOK
<1>1. req[p].pc # "idle" /\ req[p].txn \in Txn
  BY <1>0 DEF ReqOK, Claim, Redeem, GrantFind, GrantWrite, Throw, Mark, MarkError,
     RefundClaim, RefundRevoke, RefundMark, RefundReverse
<1>2. Holder(req[p].txn) \in User \X Ref
  BY <1>0, <1>1, Orders
<1>3. CASE Claim(p)
  <2>1. ReqOK'
    <3>1. End(p) \/ Goto(p, "redeem") \/ Goto(p, "grantFind")
      BY <1>3 DEF Claim
    <3> QED BY <1>0, <1>1, <3>1, EndType, GotoType DEF Step, FulfilSteps
  <2>2. RowsOK'
    BY <1>0, <1>3 DEF Claim, RowsOK, TxnRow, TxnStatus
  <2>3. HistoryOK'
    BY <1>0, <1>1, <1>3 DEF Claim, HistoryOK
  <2> QED BY <1>3, <2>1, <2>2, <2>3, FrameRows DEF Claim
<1>4. CASE Redeem(p)
  <2>1. ReqOK'
    BY <1>0, <1>4, GotoType DEF Redeem, Step, FulfilSteps
  <2>2. PromoOK' BY <1>0, <1>1, <1>4, LedgerType DEF Redeem
  <2> QED BY <1>4, <2>1, <2>2, FramePromo DEF Redeem
<1>5. CASE GrantFind(p)
  <2>1. PromoOK' BY <1>0, <1>5, UnchangedPromoType DEF GrantFind
  <2>2. ReqOK'
    <3>1. CASE Goto(p, "mark") \/ Goto(p, "grantWrite")
      BY <1>0, <1>1, <3>1, GotoType DEF Step, FulfilSteps
    <3>2. CASE Kind(req[p].txn) = "course"
      <4> DEFINE look == enrollment[Holder(req[p].txn)]
                 step == IF look = "active" THEN "mark" ELSE "grantWrite"
                 r == [req[p] EXCEPT !.look = look, !.pc = step]
      <4>1. look \in EnrollmentStatus /\ step \in Step
        BY <1>0, <1>2 DEF AccessOK, Step, FulfilSteps
      <4>2. req' = [req EXCEPT ![p] = r]
        BY <1>5, <3>2 DEF GrantFind
      <4> HIDE DEF look, step
      <4>3. r \in Request /\ r.txn = req[p].txn
        BY <1>0, <4>1 DEF ReqOK, Request
      <4> QED BY <1>0, <1>1, <4>2, <4>3, ReqType
    <3> QED BY <1>5, <3>1, <3>2 DEF GrantFind
  <2> QED BY <1>5, <2>1, <2>2, FramePromo DEF GrantFind
<1>6. CASE GrantWrite(p)
  <2>1. ReqOK'
    BY <1>0, <1>6, GotoType DEF GrantWrite, Step, FulfilSteps
  <2>2. AccessOK'
    <3>1. CASE Kind(req[p].txn) = "plan" /\ subs' = [subs EXCEPT ![req[p].txn] = Append(@, "active")]
               /\ UNCHANGED <<enrollment, seat>>
      <4>1. Append(subs[req[p].txn], "active") \in Seq(SubStatus)
        BY <1>0, <1>1 DEF AccessOK, SubStatus
      <4> QED BY <1>0, <3>1, <4>1 DEF AccessOK
    <3>2. CASE enrollment' = [enrollment EXCEPT ![Holder(req[p].txn)] = "active"]
               /\ UNCHANGED <<subs, seat>>
      BY <1>0, <1>2, <3>2 DEF AccessOK, EnrollmentStatus
    <3>3. CASE seat' = [seat EXCEPT ![Holder(req[p].txn)] = TRUE]
               /\ UNCHANGED <<enrollment, subs>>
      BY <1>0, <1>2, <3>3 DEF AccessOK
    <3> QED BY <1>6, <3>1, <3>2, <3>3 DEF GrantWrite
  <2>3. OrderOK' /\ RowsOK' /\ PromoOK' /\ MoneyOK' /\ HistoryOK'
    BY <1>6 DEF GrantWrite, PartsOK, OrderOK, RowsOK, PromoOK, MoneyOK, HistoryOK, promo, history
  <2> QED
    BY <2>1, <2>2, <2>3
    DEF TypeOK, OrderOK, RowsOK, AccessOK, PromoOK, MoneyOK, ReqOK, HistoryOK
<1>7. CASE Throw(p)
  <2>1. Goto(p, "freeUndo") \/ Goto(p, "markError")
    BY <1>7 DEF Throw
  <2>2. ReqOK'
    BY <1>0, <1>1, <2>1, GotoType DEF Step, CheckoutSteps, FulfilSteps
  <2>3. PromoOK' BY <1>0, <1>7, UnchangedPromoType DEF Throw
  <2> QED BY <1>7, <2>2, <2>3, FramePromo DEF Throw
<1>8. CASE Mark(p) \/ MarkError(p)
  <2>1. PICK keys \in SUBSET MetaKey : UpdateMeta(p, keys)
    BY <1>8 DEF Mark, MarkError, MetaKey
  <2>2. RowsOK' /\ HistoryOK' BY <1>0, <1>1, <2>1, UpdateMetaType
  <2>3. ReqOK' BY <1>0, <1>8, EndType DEF Mark, MarkError
  <2> QED BY <1>8, <2>2, <2>3, FrameRows DEF Mark, MarkError
<1>9. CASE RefundClaim(p)
  <2>1. ReqOK'
    <3>1. End(p) \/ Goto(p, "refundRevoke")
      BY <1>9 DEF RefundClaim
    <3> QED BY <1>0, <1>1, <3>1, EndType, GotoType DEF Step, HookSteps
  <2>2. RowsOK'
    BY <1>0, <1>9 DEF RefundClaim, RowsOK, TxnRow, TxnStatus
  <2>3. HistoryOK'
    BY <1>0, <1>9 DEF RefundClaim, HistoryOK, history
  <2> QED BY <1>9, <2>1, <2>2, <2>3, FrameRows DEF RefundClaim
<1>10. CASE RefundRevoke(p)
  <2> DEFINE t == req[p].txn
             n == Len(subs[t])
  <2>1. ReqOK'
    BY <1>0, <1>10, GotoType DEF RefundRevoke, Step, HookSteps
  <2>2. enrollment' \in [User \X Ref -> EnrollmentStatus]
    BY <1>0, <1>2, <1>10 DEF RefundRevoke, AccessOK, EnrollmentStatus
  <2>3. subs' \in [Txn -> Seq(SubStatus)]
    <3>1. subs[t] \in Seq(SubStatus) /\ n \in Nat
      BY <1>0, <1>1 DEF AccessOK
    <3>0. CASE UNCHANGED <<enrollment, subs>>
      BY <1>0, <3>0 DEF AccessOK
    <3>2. CASE n > 0 /\ ~ UNCHANGED <<enrollment, subs>>
      <4>1. n \in 1..Len(subs[t]) /\ "cancelled" \in SubStatus
        BY <3>1, <3>2 DEF SubStatus
      <4>2. [subs[t] EXCEPT ![n] = "cancelled"] \in Seq(SubStatus)
        BY <3>1, <4>1, ExceptSeq
      <4>3. subs' = [subs EXCEPT ![t] = [subs[t] EXCEPT ![n] = "cancelled"]]
        BY <1>10, <3>2 DEF RefundRevoke
      <4> QED BY <1>0, <4>2, <4>3 DEF AccessOK
    <3>3. CASE ~(n > 0)
      BY <1>0, <1>10, <3>3 DEF RefundRevoke, AccessOK
    <3> QED BY <3>0, <3>2, <3>3
  <2>4. AccessOK'
    BY <1>0, <1>10, <2>2, <2>3 DEF RefundRevoke, AccessOK
  <2>5. OrderOK' /\ RowsOK' /\ PromoOK' /\ MoneyOK' /\ HistoryOK'
    BY <1>10 DEF RefundRevoke, PartsOK, OrderOK, RowsOK, PromoOK, MoneyOK, HistoryOK, promo, history
  <2> QED
    BY <2>1, <2>4, <2>5
    DEF TypeOK, OrderOK, RowsOK, AccessOK, PromoOK, MoneyOK, ReqOK, HistoryOK
<1>11. CASE RefundMark(p)
  <2>1. UpdateMeta(p, {}) /\ (Goto(p, "refundReverse") \/ End(p))
    BY <1>11 DEF RefundMark
  <2>2. {} \in SUBSET MetaKey OBVIOUS
  <2>3. RowsOK' /\ HistoryOK' BY <1>0, <1>1, <2>1, <2>2, UpdateMetaType
  <2>4. ReqOK' BY <1>0, <1>1, <2>1, EndType, GotoType DEF Step, HookSteps
  <2> QED BY <1>11, <2>3, <2>4, FrameRows DEF RefundMark
<1>12. CASE RefundReverse(p)
  <2>1. ReqOK' BY <1>0, <1>12, EndType DEF RefundReverse
  <2>2. CASE TakeBack(req[p].txn)
    <3>1. PromoOK' BY <1>0, <1>1, <2>2, TakeBackType
    <3> QED BY <1>12, <2>1, <3>1, FramePromo DEF RefundReverse
  <2>3. CASE UNCHANGED promo
    <3>1. PromoOK' BY <1>0, <2>3 DEF PromoOK, promo
    <3> QED BY <1>12, <2>1, <3>1, FramePromo DEF RefundReverse
  <2> QED BY <1>12, <2>2, <2>3 DEF RefundReverse
<1> QED BY <1>3, <1>4, <1>5, <1>6, <1>7, <1>8, <1>9, <1>10, <1>11, <1>12

\* The provider, the clock, a crash.
LEMMA TypeRest ==
    ASSUME PartsOK,
           \/ \E t \in Txn : Pay(t) \/ Lapse(t)
           \/ \E p \in Proc : Crash(p)
    PROVE  TypeOK'
<1>1. ASSUME NEW t \in Txn, Pay(t) PROVE TypeOK'
  <2>1. MoneyOK'
    BY <1>1 DEF Pay, PartsOK, MoneyOK, Money
  <2>2. OrderOK' /\ RowsOK' /\ AccessOK' /\ PromoOK' /\ ReqOK' /\ HistoryOK'
    BY <1>1 DEF Pay, PartsOK, OrderOK, RowsOK, AccessOK, PromoOK, ReqOK, HistoryOK,
       access, promo, history
  <2> QED
    BY <2>1, <2>2 DEF TypeOK, OrderOK, RowsOK, AccessOK, PromoOK, MoneyOK, ReqOK, HistoryOK
<1>2. ASSUME NEW t \in Txn, Lapse(t) PROVE TypeOK'
  <2>1. {t} \in SUBSET Txn OBVIOUS
  <2>2. PromoOK'
    BY <1>2, <2>1, LedgerType DEF Lapse, PartsOK
  <2>3. ReqOK' BY <1>2 DEF Lapse, PartsOK, ReqOK
  <2> QED BY <1>2, <2>2, <2>3, FramePromo DEF Lapse
<1>3. ASSUME NEW p \in Proc, Crash(p) PROVE TypeOK'
  <2>1. ReqOK' BY <1>3, EndType DEF Crash, PartsOK
  <2>2. RowsOK' BY <1>3 DEF Crash, PartsOK, RowsOK
  <2>3. req[p].txn \in Txn
    BY <1>3 DEF Crash, PartsOK, ReqOK
  <2>4. HistoryOK'
    BY <1>3, <2>3 DEF Crash, PartsOK, HistoryOK
  <2> QED BY <1>3, <2>1, <2>2, <2>4, FrameRows DEF Crash
<1> QED BY <1>1, <1>2, <1>3

\* Every variable always holds what its table, column or request can hold.
THEOREM Types == Spec => []TypeOK
<1>1. Init => TypeOK BY TypeInit
<1>2. TypeOK /\ [Next]_vars => TypeOK'
  <2> SUFFICES ASSUME TypeOK, [Next]_vars PROVE TypeOK' OBVIOUS
  <2>1. PartsOK BY Parts
  <2>2. CASE UNCHANGED vars
    BY <2>2 DEF vars, TypeOK
  <2>3. ASSUME NEW p \in Proc, Continue(p) PROVE TypeOK'
    BY <2>1, <2>3, TypeCheckout, TypeFreeAndHooks, TypeFulfilAndRefund DEF Continue
  <2>4. CASE Next
    BY <2>1, <2>3, <2>4, TypeCheckout, TypeFreeAndHooks, TypeRest DEF Next
  <2> QED BY <2>2, <2>4
<1> QED BY <1>1, <1>2, PTL DEF Spec

(***************************************************************************)
(* NothingUnpaid                                                           *)
(***************************************************************************)
\* NothingUnpaid is about the tables; requests are what changes them, so the
\* invariant is about what they are on the way to write. A request on its way to a
\* grant has been paid for, and an entity that says SUCCESS or REFUNDED was read when
\* that was so: a stale save may bring an old status back, never an unpaid one.
Granting == {"claim", "redeem", "grantFind", "grantWrite"}
FreeSteps == {"freeInsert", "freeReserve", "freeRedeem"}

RequestPaid(r) ==
    /\ r.pc \in Granting => Paid(r.txn)
    /\ r.pc \in FreeSteps => IsFree(r.txn)
    /\ r.pc = "hookSave" /\ r.ev = "success" => Paid(r.txn)
    /\ r.pc # "idle" /\ r.status \in {"success", "refunded"} => Paid(r.txn)

EntitiesPaid == \A p \in Proc : RequestPaid(req[p])

\* What is paid stays paid, because a payment is opened once: the checkout that will
\* open it is alone with its transaction.
Opening == {"cancelFind", "cancelRelease", "cancelUpdate", "insert", "reserve", "initiate"}

OpenedOnce ==
    \A p \in Proc : req[p].pc \in Opening =>
        /\ money[req[p].txn] = "unopened"
        /\ \A q \in Proc : q # p /\ req[q].pc # "idle" => req[q].txn # req[p].txn

IInv == TypeOK /\ NothingUnpaid /\ EntitiesPaid /\ OpenedOnce

\* What a step of request p leaves in its memory, whichever step it was.
Becomes(p, r) ==
    /\ req' = [req EXCEPT ![p] = r]
    /\ r.pc = "idle" \/ r.txn = req[p].txn
    /\ r.pc \in Opening => req[p].pc \in Opening
    /\ RequestPaid(r)

LEMMA EndBecomes ==
    ASSUME NEW p \in Proc, End(p)
    PROVE  \E r \in Request : Becomes(p, r)
<1>1. Idle.pc = "idle" /\ RequestPaid(Idle) /\ "idle" \notin Opening
  BY DEF Idle, RequestPaid, Granting, FreeSteps, Opening
<1>2. Becomes(p, Idle)
  BY <1>1 DEF End, Becomes
<1> QED BY <1>2, IdleType

LEMMA GotoBecomes ==
    ASSUME ReqOK, EntitiesPaid, NEW p \in Proc, req[p].pc # "idle", NEW s \in Step, Goto(p, s),
           s \in Opening => req[p].pc \in Opening,
           s \in Granting => Paid(req[p].txn),
           s \in FreeSteps => IsFree(req[p].txn),
           s # "hookSave"
    PROVE  \E r \in Request : Becomes(p, r)
<1> DEFINE r == [req[p] EXCEPT !.pc = s]
<1>1. req[p] \in Request
  BY DEF ReqOK
<1>2. r \in Request /\ r.pc = s /\ r.txn = req[p].txn /\ r.status = req[p].status
  BY <1>1 DEF Request
<1>3. req' = [req EXCEPT ![p] = r]
  BY DEF Goto
<1>4. RequestPaid(r)
  BY <1>2 DEF EntitiesPaid, RequestPaid
<1> QED BY <1>2, <1>3, <1>4 DEF Becomes

LEMMA Continues ==
    ASSUME TypeOK, EntitiesPaid, NEW p \in Proc, Continue(p)
    PROVE  /\ req[p].pc # "idle" /\ req[p].txn \in Txn
           /\ \E r \in Request : Becomes(p, r)
<1>0. ReqOK
  BY DEF TypeOK, ReqOK
<1>1. req[p].pc # "idle"
  BY DEF Continue, CancelFind, CancelRelease, CancelUpdate, Insert, Reserve, ReserveRefused,
     Initiate, InitiateFails, AbortRelease, AbortSave, FreeInsert, FreePromo, FreeUndo, FreeFail,
     HookSave, FailRelease, FailSave, Claim, Redeem, GrantFind, GrantWrite, Throw, Mark, MarkError,
     RefundClaim, RefundRevoke, RefundMark, RefundReverse
<1>2. req[p].txn \in Txn /\ req[p] \in Request
  BY <1>0, <1>1 DEF ReqOK
<1> SUFFICES \E r \in Request : Becomes(p, r)
  BY <1>1, <1>2
<1>3. RequestPaid(req[p])
  BY DEF EntitiesPaid
<1>4. CASE \/ ReserveRefused(p) \/ Initiate(p) \/ AbortSave(p) \/ FreeFail(p) \/ FailSave(p)
           \/ Mark(p) \/ MarkError(p) \/ RefundReverse(p)
  <2>1. End(p)
    BY <1>4 DEF ReserveRefused, Initiate, AbortSave, FreeFail, FailSave, Mark, MarkError, RefundReverse
  <2> QED BY <1>1, <1>2, <2>1, EndBecomes
<1>5. CASE CancelFind(p)
  <2> DEFINE found == {x \in Txn : Holder(x) = Holder(req[p].txn) /\ txn[x].status = "pending"}
             step == IF found = {} THEN "insert" ELSE "cancelRelease"
             r == [req[p] EXCEPT !.stale = found, !.pc = step]
  <2>1. req' = [req EXCEPT ![p] = r] /\ req[p].pc = "cancelFind"
    BY <1>5 DEF CancelFind
  <2>2. found \in SUBSET Txn /\ step \in {"insert", "cancelRelease"}
    OBVIOUS
  <2> HIDE DEF found, step
  <2>3. r \in Request /\ r.txn = req[p].txn /\ r.pc = step /\ r.status = req[p].status
    BY <1>2, <2>2 DEF Request, Step, CheckoutSteps
  <2>4. RequestPaid(r)
    BY <1>1, <1>3, <2>2, <2>3 DEF RequestPaid, Granting, FreeSteps
  <2>5. Becomes(p, r)
    BY <2>1, <2>3, <2>4 DEF Becomes, Opening
  <2> QED BY <1>1, <1>2, <2>3, <2>5
<1>6. CASE CancelUpdate(p)
  <2> DEFINE r == [req[p] EXCEPT !.pc = "insert", !.stale = {}]
  <2>1. req' = [req EXCEPT ![p] = r] /\ req[p].pc = "cancelUpdate"
    BY <1>6 DEF CancelUpdate
  <2>2. r \in Request /\ r.txn = req[p].txn /\ r.pc = "insert" /\ r.status = req[p].status
    BY <1>2 DEF Request, Step, CheckoutSteps
  <2>3. RequestPaid(r)
    BY <1>1, <1>3, <2>2 DEF RequestPaid, Granting, FreeSteps
  <2>4. Becomes(p, r)
    BY <2>1, <2>2, <2>3 DEF Becomes, Opening
  <2> QED BY <1>1, <1>2, <2>2, <2>4
<1>7. CASE CancelRelease(p) \/ Insert(p) \/ Reserve(p)
  <2>1. PICK s \in {"cancelUpdate", "reserve", "initiate"} : Goto(p, s)
    BY <1>7 DEF CancelRelease, Insert, Reserve
  <2>2. req[p].pc \in Opening
    BY <1>7 DEF CancelRelease, Insert, Reserve, Opening
  <2>3. s \in Step /\ s \notin Granting /\ s \notin FreeSteps /\ s # "hookSave"
    BY DEF Step, CheckoutSteps, Granting, FreeSteps
  <2> QED BY <1>0, <1>1, <1>2, <2>1, <2>2, <2>3, GotoBecomes
<1>8. CASE \/ AbortRelease(p) \/ FreeUndo(p) \/ FailRelease(p) \/ Throw(p)
           \/ RefundClaim(p) \/ RefundRevoke(p) \/ RefundMark(p)
  <2>1. \/ End(p)
        \/ \E s \in {"abortRelease", "abortSave", "freeFail", "failSave", "freeUndo", "markError",
                    "refundRevoke", "refundMark", "refundReverse"} : Goto(p, s)
    BY <1>8 DEF AbortRelease, FreeUndo, FailRelease, Throw, RefundClaim,
       RefundRevoke, RefundMark
  <2>2. ASSUME NEW s \in {"abortRelease", "abortSave", "freeFail", "failSave", "freeUndo",
                          "markError", "refundRevoke", "refundMark", "refundReverse"}, Goto(p, s)
        PROVE  \E r \in Request : Becomes(p, r)
    <3>1. /\ s \in Step /\ s \notin Opening /\ s \notin Granting /\ s \notin FreeSteps
          /\ s # "hookSave"
      BY DEF Step, CheckoutSteps, HookSteps, FulfilSteps, Opening, Granting, FreeSteps
    <3> QED BY <1>0, <1>1, <2>2, <3>1, GotoBecomes
  <2> QED BY <1>1, <1>2, <2>1, <2>2, EndBecomes
<1>9. CASE FreeInsert(p)
  <2>1. PICK r \in Request : /\ req' = [req EXCEPT ![p] = r] /\ req[p].pc = "freeInsert"
                             /\ r.txn = req[p].txn /\ r.pc \in {"freeReserve", "grantFind"}
    BY <1>0, <1>9, FreeInsertTo
  <2>2. RequestPaid(r)
    BY <1>3, <2>1 DEF RequestPaid, Granting, FreeSteps, Paid
  <2>3. Becomes(p, r)
    BY <2>1, <2>2 DEF Becomes, Opening
  <2> QED BY <1>1, <1>2, <2>3
<1>10. CASE FreePromo(p)
  <2>1. IsFree(req[p].txn) /\ Paid(req[p].txn)
    BY <1>3, <1>10 DEF FreePromo, RequestPaid, FreeSteps, Paid
  <2>2. PICK s \in {"freeRedeem", "grantFind"} : Goto(p, s)
    BY <1>10 DEF FreePromo
  <2>3. s \in Step /\ s \notin Opening /\ s # "hookSave"
    BY DEF Step, CheckoutSteps, FulfilSteps, Opening
  <2> QED BY <1>0, <1>1, <1>2, <2>1, <2>2, <2>3, GotoBecomes
<1>11. CASE HookSave(p)
  <2> DEFINE next == Reaction(req[p].txn, req[p].ev, req[p].status)
  <2>1. IF next = "idle" THEN End(p) ELSE Goto(p, next)
    BY <1>11 DEF HookSave
  <2>2. next \in {"claim", "failRelease", "failSave", "refundClaim", "idle"}
    BY DEF Reaction
  <2>3. next = "claim" => Paid(req[p].txn)
    BY <1>3, <1>11 DEF HookSave, Reaction, RequestPaid
  <2> HIDE DEF next
  <2>4. CASE next = "idle"
    BY <1>1, <1>2, <2>1, <2>4, EndBecomes
  <2>5. CASE next # "idle"
    <3>1. PICK s \in {"claim", "failRelease", "failSave", "refundClaim"} : s = next
      BY <2>2, <2>5
    <3>2. Goto(p, s)
      BY <2>1, <2>5, <3>1 DEF Goto
    <3>3. /\ s \in Step /\ s \notin Opening /\ s \notin FreeSteps /\ s # "hookSave"
          /\ s \in Granting => s = "claim"
      BY DEF Step, HookSteps, FulfilSteps, Opening, FreeSteps, Granting
    <3> QED BY <1>0, <1>1, <1>2, <2>3, <3>1, <3>2, <3>3, GotoBecomes
  <2> QED BY <2>4, <2>5
<1>12. CASE Claim(p) \/ Redeem(p) \/ GrantWrite(p) \/ GrantFind(p)
  <2>1. Paid(req[p].txn)
    BY <1>3, <1>12 DEF Claim, Redeem, GrantWrite, GrantFind, RequestPaid, Granting
  <2>2. ASSUME NEW s \in {"redeem", "grantFind", "grantWrite", "mark"}, Goto(p, s)
        PROVE  \E r \in Request : Becomes(p, r)
    <3>1. s \in Step /\ s \notin Opening /\ s \notin FreeSteps /\ s # "hookSave"
      BY DEF Step, FulfilSteps, Opening, FreeSteps
    <3> QED BY <1>0, <1>1, <2>1, <2>2, <3>1, GotoBecomes
  <2>3. CASE Kind(req[p].txn) = "course" /\ GrantFind(p)
    <3> DEFINE look == enrollment[Holder(req[p].txn)]
               step == IF look = "active" THEN "mark" ELSE "grantWrite"
               r == [req[p] EXCEPT !.look = look, !.pc = step]
    <3>1. Holder(req[p].txn) \in User \X Ref
      BY <1>2, Orders DEF TypeOK, OrderOK
    <3>2. look \in EnrollmentStatus /\ step \in {"mark", "grantWrite"}
      BY <3>1 DEF TypeOK
    <3>3. req' = [req EXCEPT ![p] = r]
      BY <2>3 DEF GrantFind
    <3> HIDE DEF look, step
    <3>4. r \in Request /\ r.txn = req[p].txn /\ r.pc = step
      BY <1>2, <3>2 DEF Request, Step, FulfilSteps
    <3>5. RequestPaid(r) /\ step \notin Opening
      BY <2>1, <3>2, <3>4 DEF RequestPaid, FreeSteps, Opening
    <3>6. Becomes(p, r)
      BY <3>3, <3>4, <3>5 DEF Becomes
    <3> QED BY <3>4, <3>6
  <2>4. CASE ~(Kind(req[p].txn) = "course" /\ GrantFind(p))
    <3>1. End(p) \/ \E s \in {"redeem", "grantFind", "grantWrite", "mark"} : Goto(p, s)
      BY <1>12, <2>4 DEF Claim, Redeem, GrantWrite, GrantFind
    <3> QED BY <2>2, <3>1, EndBecomes
  <2> QED BY <1>1, <1>2, <2>3, <2>4
<1>13. CASE InitiateFails(p)
  <2>1. ASSUME NEW r \in Request, req' = [req EXCEPT ![p] = r], r.txn = req[p].txn,
               r.pc \in {"abortRelease", "abortSave"}, r.status \in {"pending", "failed"}
        PROVE  \E x \in Request : Becomes(p, x)
    <3>1. RequestPaid(r)
      BY <2>1 DEF RequestPaid, Granting, FreeSteps
    <3>2. Becomes(p, r)
      BY <2>1, <3>1 DEF Becomes, Opening
    <3> QED BY <3>2
  <2> QED BY <1>0, <1>1, <1>13, <2>1, InitiateFailsTo, EndBecomes
<1> QED BY <1>4, <1>5, <1>6, <1>7, <1>8, <1>9, <1>10, <1>11, <1>12, <1>13 DEF Continue

LEMMA Moneyless ==
    ASSUME NEW p \in Proc, Continue(p)
    PROVE  order' = order /\ (money' = money \/ Initiate(p))
<1>1. CASE \/ CancelFind(p) \/ CancelRelease(p) \/ CancelUpdate(p)
           \/ Insert(p) \/ Reserve(p) \/ ReserveRefused(p)
  BY <1>1 DEF CancelFind, CancelRelease, CancelUpdate, Insert, Reserve, ReserveRefused
<1>2. CASE Initiate(p) \/ InitiateFails(p) \/ AbortRelease(p) \/ AbortSave(p)
  BY <1>2 DEF Initiate, InitiateFails, AbortRelease, AbortSave
<1>3. CASE FreeInsert(p) \/ FreePromo(p) \/ FreeUndo(p) \/ FreeFail(p)
  BY <1>3 DEF FreeInsert, FreePromo, FreeUndo, FreeFail
<1>4. CASE HookSave(p) \/ FailRelease(p) \/ FailSave(p)
  BY <1>4 DEF HookSave, FailRelease, FailSave
<1>5. CASE Claim(p) \/ Redeem(p) \/ GrantFind(p)
  BY <1>5 DEF Claim, Redeem, GrantFind
<1>6. CASE GrantWrite(p) \/ Throw(p) \/ Mark(p) \/ MarkError(p)
  BY <1>6 DEF GrantWrite, Throw, Mark, MarkError
<1>7. CASE RefundClaim(p) \/ RefundRevoke(p) \/ RefundMark(p) \/ RefundReverse(p)
  BY <1>7 DEF RefundClaim, RefundRevoke, RefundMark, RefundReverse
<1> QED BY <1>1, <1>2, <1>3, <1>4, <1>5, <1>6, <1>7 DEF Continue

\* Nobody changes an order, and a payment moves at the provider or when it is opened.
LEMMA Frame ==
    ASSUME [Next]_vars
    PROVE  /\ order' = order
           /\ money' = money \/ (\E p \in Proc : Initiate(p)) \/ (\E x \in Txn : Pay(x))
<1>1. ASSUME NEW p \in Proc, Continue(p)
      PROVE  order' = order /\ (money' = money \/ Initiate(p))
  BY <1>1, Moneyless
<1>2. ASSUME NEW p \in Proc, NEW t \in Txn, NEW ev \in Event, Deliver(p, t, ev)
      PROVE  order' = order /\ money' = money
  BY <1>2 DEF Deliver
<1>3. ASSUME NEW p \in Proc, NEW t \in Txn, CheckoutBegin(p, t)
      PROVE  order' = order /\ money' = money
  BY <1>3 DEF CheckoutBegin
<1>4. ASSUME NEW p \in Proc, Crash(p) PROVE order' = order /\ money' = money
  BY <1>4 DEF Crash
<1>5. ASSUME NEW t \in Txn, Pay(t) \/ Lapse(t) PROVE order' = order /\ (money' = money \/ Pay(t))
  BY <1>5 DEF Pay, Lapse
<1>6. CASE UNCHANGED vars
  BY <1>6 DEF vars
<1> QED BY <1>1, <1>2, <1>3, <1>4, <1>5, <1>6 DEF Next

\* The payment of a transaction changes in these ways only: what is paid stays paid.
LEMMA PaidStays ==
    ASSUME TypeOK, OpenedOnce, [Next]_vars, NEW t \in Txn, Paid(t)
    PROVE  Paid(t)'
<1>1. order' = order
  BY Frame
<1>2. CASE \E p \in Proc : Initiate(p)
  <2>1. PICK p \in Proc : Initiate(p)
    BY <1>2
  <2>2. money[req[p].txn] = "unopened"
    BY <2>1 DEF OpenedOnce, Initiate, Opening
  <2>3. money[t] \in {"paid", "refunded"} => money'[t] = money[t]
    BY <2>1, <2>2 DEF Initiate, TypeOK
  <2> QED BY <1>1, <2>3 DEF Paid, IsFree
<1>3. CASE \E x \in Txn : Pay(x)
  <2>1. money[t] \in {"paid", "refunded"} => money'[t] \in {"paid", "refunded"}
    BY <1>3 DEF Pay, TypeOK
  <2> QED BY <1>1, <2>1 DEF Paid, IsFree
<1>4. CASE money' = money
  BY <1>1, <1>4 DEF Paid, IsFree
<1> QED BY <1>2, <1>3, <1>4, Frame

\* Every step leaves all requests alone, or changes one of them.
LEMMA RequestStep ==
    ASSUME TypeOK, NothingUnpaid, EntitiesPaid, Next
    PROVE  \/ req' = req
           \/ \E p \in Proc : \E r \in Request :
                 req' = [req EXCEPT ![p] = r] /\ RequestPaid(r) /\ (r.pc # "idle" => r.txn \in Txn)
<1>1. ASSUME NEW p \in Proc, Continue(p)
      PROVE  \E r \in Request :
                 req' = [req EXCEPT ![p] = r] /\ RequestPaid(r) /\ (r.pc # "idle" => r.txn \in Txn)
  BY <1>1, Continues DEF Becomes
<1>2. ASSUME NEW p \in Proc, NEW t \in Txn, CheckoutBegin(p, t)
      PROVE  \E r \in Request :
                 req' = [req EXCEPT ![p] = r] /\ RequestPaid(r) /\ (r.pc # "idle" => r.txn \in Txn)
  <2> DEFINE step == IF IsFree(t) THEN "freeInsert" ELSE "cancelFind"
             r == [Idle EXCEPT !.txn = t, !.status = "pending", !.pc = step]
  <2>1. req' = [req EXCEPT ![p] = r]
    BY <1>2 DEF CheckoutBegin
  <2>2. step \in {"freeInsert", "cancelFind"} /\ (step = "freeInsert" => IsFree(t))
    OBVIOUS
  <2> HIDE DEF step
  <2>3. r \in Request /\ r.txn = t /\ r.pc = step /\ r.status = "pending"
    BY <2>2, IdleType DEF Idle, Request, Step, CheckoutSteps, TxnStatus
  <2>4. RequestPaid(r)
    BY <2>2, <2>3 DEF RequestPaid, Granting, FreeSteps
  <2> QED BY <2>1, <2>3, <2>4
<1>3. ASSUME NEW p \in Proc, NEW t \in Txn, NEW ev \in Event, Deliver(p, t, ev)
      PROVE  \E r \in Request :
                 req' = [req EXCEPT ![p] = r] /\ RequestPaid(r) /\ (r.pc # "idle" => r.txn \in Txn)
  <2> DEFINE next == IF order[t].provider = "paymob" THEN "hookSave"
                     ELSE Reaction(t, ev, txn[t].status)
             r == [Idle EXCEPT !.txn = t, !.ev = ev, !.pc = next,
                               !.status = txn[t].status, !.meta = txn[t].meta]
  <2>1. req' = [req EXCEPT ![p] = r]
    BY <1>3 DEF Deliver
  <2>2. ev = "success" => Paid(t)
    BY <1>3 DEF Deliver, News, Paid, TypeOK, Money
  <2>3. next \in {"hookSave", "claim", "failRelease", "failSave", "refundClaim", "idle"}
    BY DEF Reaction
  <2>4. next = "claim" => ev = "success"
    BY DEF Reaction
  <2>5. txn[t].status \in TxnStatus /\ txn[t].meta \in SUBSET MetaKey
    BY DEF TypeOK, TxnRow
  <2>6. txn[t].status \in {"success", "refunded"} => Paid(t)
    BY DEF NothingUnpaid
  <2> HIDE DEF next
  <2>7. /\ r \in Request /\ r.txn = t /\ r.pc = next /\ r.status = txn[t].status /\ r.ev = ev
    BY <2>3, <2>5, IdleType DEF Idle, Request, Step, HookSteps, FulfilSteps
  <2>8. RequestPaid(r)
    BY <2>2, <2>3, <2>4, <2>6, <2>7 DEF RequestPaid, Granting, FreeSteps
  <2> QED BY <2>1, <2>7, <2>8
<1>4. ASSUME NEW p \in Proc, Crash(p)
      PROVE  \E r \in Request :
                 req' = [req EXCEPT ![p] = r] /\ RequestPaid(r) /\ (r.pc # "idle" => r.txn \in Txn)
  <2>1. Idle.pc = "idle" /\ RequestPaid(Idle)
    BY DEF Idle, RequestPaid, Granting, FreeSteps
  <2> QED BY <1>4, <2>1, IdleType DEF Crash, End
<1>5. CASE \E t \in Txn : Pay(t) \/ Lapse(t)
  BY <1>5 DEF Pay, Lapse
<1> QED BY <1>1, <1>2, <1>3, <1>4, <1>5 DEF Next

LEMMA EntitiesStep ==
    ASSUME TypeOK, NothingUnpaid, EntitiesPaid, OpenedOnce, [Next]_vars
    PROVE  EntitiesPaid'
<1>0. ASSUME NEW r \in Request, RequestPaid(r), r.pc # "idle" => r.txn \in Txn
      PROVE  RequestPaid(r)'
  <2>1. CASE r.pc = "idle"
    BY <2>1 DEF RequestPaid, Granting, FreeSteps
  <2>2. CASE r.pc # "idle"
    <3>1. Paid(r.txn) => Paid(r.txn)'
      BY <1>0, <2>2, PaidStays
    <3>2. order' = order
      BY Frame
    <3>3. IsFree(r.txn) => IsFree(r.txn)'
      BY <3>2 DEF IsFree
    <3> QED BY <1>0, <3>1, <3>3 DEF RequestPaid
  <2> QED BY <2>1, <2>2
<1>1. ASSUME NEW q \in Proc PROVE RequestPaid(req[q])'
  <2>1. req[q] \in Request /\ (req[q].pc # "idle" => req[q].txn \in Txn) /\ RequestPaid(req[q])
    BY DEF TypeOK, EntitiesPaid
  <2>2. PICK r \in Request :
            req'[q] = r /\ RequestPaid(r) /\ (r.pc # "idle" => r.txn \in Txn)
    <3>1. CASE req' = req
      BY <2>1, <3>1
    <3>2. CASE Next /\ req' # req
      <4>1. PICK p \in Proc, r \in Request :
                req' = [req EXCEPT ![p] = r] /\ RequestPaid(r) /\ (r.pc # "idle" => r.txn \in Txn)
        BY <3>2, RequestStep
      <4>2. req'[q] = r \/ req'[q] = req[q]
        BY <4>1 DEF TypeOK
      <4> QED BY <2>1, <4>1, <4>2
    <3> QED BY <3>1, <3>2 DEF vars
  <2>3. RequestPaid(r)'
    BY <1>0, <2>2
  <2> QED BY <2>2, <2>3 DEF RequestPaid
<1> QED BY <1>1 DEF EntitiesPaid

\* The requests of one step, seen by the checkout that is alone with its transaction.
LEMMA OpenedStep ==
    ASSUME TypeOK, EntitiesPaid, OpenedOnce, [Next]_vars
    PROVE  OpenedOnce'
<1>1. ASSUME NEW p \in Proc, Continue(p) PROVE OpenedOnce'
  <2>1. PICK r \in Request : Becomes(p, r)
    BY <1>1, Continues
  <2>2. req[p].pc # "idle" /\ req[p].txn \in Txn
    BY <1>1, Continues
  <2>3. ASSUME NEW q \in Proc, q # p PROVE req'[q] = req[q]
    BY <2>1, <2>3 DEF Becomes, TypeOK
  <2>4. req'[p] = r
    BY <2>1 DEF Becomes, TypeOK
  <2>5. ASSUME NEW q \in Proc, req'[q].pc \in Opening
        PROVE  /\ req[q].pc \in Opening /\ req'[q].txn = req[q].txn
               /\ money[req[q].txn] = "unopened"
               /\ \A x \in Proc : x # q /\ req[x].pc # "idle" => req[x].txn # req[q].txn
    <3>1. "idle" \notin Opening
      BY DEF Opening
    <3>2. req[q].pc \in Opening /\ req'[q].txn = req[q].txn
      BY <2>1, <2>3, <2>4, <2>5, <3>1 DEF Becomes
    <3> QED BY <3>2 DEF OpenedOnce
  <2>6. ASSUME NEW q \in Proc, req'[q].pc \in Opening
        PROVE  money'[req'[q].txn] = "unopened"
    <3>1. CASE Initiate(p)
      <4>1. req' = [req EXCEPT ![p] = Idle]
        BY <3>1 DEF Initiate, End
      <4>2. q # p
        BY <2>6, <4>1 DEF TypeOK, Idle, Opening
      <4>3. req[q].txn # req[p].txn
        BY <2>2, <2>5, <2>6, <4>2
      <4> QED BY <2>5, <2>6, <3>1, <4>3 DEF Initiate, TypeOK
    <3>2. CASE ~Initiate(p)
      <4>1. money' = money
        BY <1>1, <3>2, Moneyless
      <4> QED BY <2>5, <2>6, <4>1
    <3> QED BY <3>1, <3>2
  <2>7. ASSUME NEW q \in Proc, req'[q].pc \in Opening,
               NEW x \in Proc, x # q, req'[x].pc # "idle"
        PROVE  req'[x].txn # req'[q].txn
    <3>1. req[x].pc # "idle" /\ req'[x].txn = req[x].txn
      BY <2>1, <2>2, <2>3, <2>4, <2>7 DEF Becomes
    <3> QED BY <2>5, <2>7, <3>1
  <2> QED BY <2>6, <2>7 DEF OpenedOnce
<1>2. ASSUME NEW p \in Proc, NEW t \in Txn, CheckoutBegin(p, t) PROVE OpenedOnce'
  <2>1. /\ req[p].pc = "idle" /\ money' = money /\ money[t] = "unopened"
        /\ \A q \in Proc : req[q].txn # t
    BY <1>2 DEF CheckoutBegin, IsFresh, Busy
  <2>2. ASSUME NEW q \in Proc, q # p PROVE req'[q] = req[q]
    BY <1>2, <2>2 DEF CheckoutBegin, TypeOK
  <2>3. req'[p].txn = t
    BY <1>2 DEF CheckoutBegin, TypeOK, Idle
  <2>4. ASSUME NEW q \in Proc, req'[q].pc \in Opening
        PROVE  money'[req'[q].txn] = "unopened"
    BY <2>1, <2>2, <2>3, <2>4 DEF OpenedOnce
  <2>5. ASSUME NEW q \in Proc, req'[q].pc \in Opening,
               NEW x \in Proc, x # q, req'[x].pc # "idle"
        PROVE  req'[x].txn # req'[q].txn
    <3>1. CASE q = p
      BY <2>1, <2>2, <2>3, <2>5, <3>1
    <3>2. CASE x = p
      BY <2>1, <2>2, <2>3, <2>5, <3>2
    <3>3. CASE q # p /\ x # p
      BY <2>2, <2>5, <3>3 DEF OpenedOnce
    <3> QED BY <3>1, <3>2, <3>3
  <2> QED BY <2>4, <2>5 DEF OpenedOnce
<1>3. ASSUME NEW p \in Proc, NEW t \in Txn, NEW ev \in Event, Deliver(p, t, ev) PROVE OpenedOnce'
  <2>1. money' = money /\ money[t] # "unopened"
    BY <1>3 DEF Deliver, News
  <2>2. ASSUME NEW q \in Proc, q # p PROVE req'[q] = req[q]
    BY <1>3, <2>2 DEF Deliver, TypeOK
  <2>3. req'[p].txn = t /\ req'[p].pc \notin Opening
    BY <1>3 DEF Deliver, TypeOK, Idle, Reaction, Opening
  <2>4. ASSUME NEW q \in Proc, req'[q].pc \in Opening
        PROVE  q # p /\ money'[req'[q].txn] = "unopened"
    BY <2>1, <2>2, <2>3, <2>4 DEF OpenedOnce
  <2>5. ASSUME NEW q \in Proc, req'[q].pc \in Opening,
               NEW x \in Proc, x # q, req'[x].pc # "idle"
        PROVE  req'[x].txn # req'[q].txn
    <3>1. CASE x = p
      BY <2>1, <2>3, <2>4, <2>5, <3>1
    <3>2. CASE x # p
      BY <2>2, <2>4, <2>5, <3>2 DEF OpenedOnce
    <3> QED BY <3>1, <3>2
  <2> QED BY <2>4, <2>5 DEF OpenedOnce
<1>4. ASSUME NEW p \in Proc, Crash(p) PROVE OpenedOnce'
  <2>1. money' = money /\ req' = [req EXCEPT ![p] = Idle]
    BY <1>4 DEF Crash, End
  <2>2. ASSUME NEW q \in Proc, req'[q].pc # "idle" PROVE req'[q] = req[q]
    BY <2>1, <2>2 DEF TypeOK, Idle
  <2>3. "idle" \notin Opening
    BY DEF Opening
  <2> QED BY <2>1, <2>2, <2>3 DEF OpenedOnce
<1>5. ASSUME NEW t \in Txn, Pay(t) \/ Lapse(t) PROVE OpenedOnce'
  <2>1. req' = req
    BY <1>5 DEF Pay, Lapse
  <2>2. ASSUME NEW x \in Txn, money[x] = "unopened" PROVE money'[x] = "unopened"
    BY <1>5, <2>2 DEF Pay, Lapse, TypeOK
  <2>3. ASSUME NEW p \in Proc, req[p].pc \in Opening
        PROVE  req[p].txn \in Txn /\ money[req[p].txn] = "unopened"
    BY <2>3 DEF OpenedOnce, TypeOK, Opening
  <2> QED BY <2>1, <2>2, <2>3 DEF OpenedOnce
<1>6. CASE UNCHANGED vars
  BY <1>6 DEF vars, OpenedOnce
<1> QED BY <1>1, <1>2, <1>3, <1>4, <1>5, <1>6 DEF Next

\* What a step must do to the rows to keep NothingUnpaid: a status, a subscription, an
\* enrollment or a seat that is new belongs to a transaction that has been paid.
LEMMA RowsPaid ==
    ASSUME TypeOK, NothingUnpaid, OpenedOnce, [Next]_vars,
           \A t \in Txn : txn'[t].status \in {"success", "refunded"} =>
               txn[t].status \in {"success", "refunded"} \/ Paid(t),
           \A t \in Txn : subs'[t] # << >> => subs[t] # << >> \/ Paid(t),
           \A h \in User \X Ref : enrollment'[h] # "none" \/ seat'[h] =>
               enrollment[h] # "none" \/ seat[h] \/ \E t \in Txn : Holder(t) = h /\ Paid(t)
    PROVE  NothingUnpaid'
<1>1. ASSUME NEW t \in Txn, Paid(t) PROVE Paid(t)'
  BY <1>1, PaidStays
<1>2. ASSUME NEW t \in Txn PROVE Holder(t)' = Holder(t)
  BY Frame DEF Holder
<1>3. \A t \in Txn : txn'[t].status \in {"success", "refunded"} => Paid(t)'
  BY <1>1 DEF NothingUnpaid
<1>4. \A t \in Txn : subs'[t] # << >> => Paid(t)'
  BY <1>1 DEF NothingUnpaid
<1>5. ASSUME NEW h \in User \X Ref, enrollment'[h] # "none" \/ seat'[h]
      PROVE  \E t \in Txn : Holder(t)' = h /\ Paid(t)'
  <2>1. PICK t \in Txn : Holder(t) = h /\ Paid(t)
    BY <1>5 DEF NothingUnpaid
  <2> QED BY <1>1, <1>2, <2>1
<1> QED BY <1>3, <1>4, <1>5 DEF NothingUnpaid

LEMMA NothingUnpaidStep ==
    ASSUME TypeOK, NothingUnpaid, EntitiesPaid, OpenedOnce, [Next]_vars
    PROVE  NothingUnpaid'
<1>1. CASE UNCHANGED <<txn, access>>
  BY <1>1, RowsPaid DEF access
<1>2. ASSUME NEW p \in Proc, NEW s \in TxnStatus, Save(p, s), req[p].pc # "idle", UNCHANGED access,
             s \in {"success", "refunded"} => Paid(req[p].txn)
      PROVE  NothingUnpaid'
  <2>1. req[p].txn \in Txn
    BY <1>2 DEF TypeOK
  <2>2. \A t \in Txn : txn'[t].status \in {"success", "refunded"} =>
            txn[t].status \in {"success", "refunded"} \/ Paid(t)
    BY <1>2, <2>1 DEF Save, TypeOK
  <2> QED BY <1>2, <2>2, RowsPaid DEF access
<1>3. ASSUME NEW p \in Proc, NEW keys \in SUBSET MetaKey, UpdateMeta(p, keys), UNCHANGED access
      PROVE  NothingUnpaid'
  <2>1. \A t \in Txn : txn'[t].status = txn[t].status
    BY <1>3 DEF UpdateMeta, TypeOK, TxnRow
  <2> QED BY <1>3, <2>1, RowsPaid DEF access
<1>4. ASSUME NEW p \in Proc, NEW t \in Txn, CheckoutBegin(p, t) PROVE NothingUnpaid'
  BY <1>1, <1>4 DEF CheckoutBegin
<1>5. ASSUME NEW p \in Proc, NEW t \in Txn, NEW ev \in Event, Deliver(p, t, ev) PROVE NothingUnpaid'
  BY <1>1, <1>5 DEF Deliver
<1>6. ASSUME NEW p \in Proc, Crash(p) PROVE NothingUnpaid'
  BY <1>1, <1>6 DEF Crash
<1>7. ASSUME NEW t \in Txn, Pay(t) \/ Lapse(t) PROVE NothingUnpaid'
  BY <1>1, <1>7 DEF Pay, Lapse
<1>8. ASSUME NEW p \in Proc, Continue(p) PROVE NothingUnpaid'
  <2>0. req[p].pc # "idle" /\ req[p].txn \in Txn /\ RequestPaid(req[p])
    BY <1>8, Continues DEF EntitiesPaid
  <2>1. CASE \/ CancelFind(p) \/ CancelRelease(p) \/ Reserve(p) \/ ReserveRefused(p)
             \/ AbortRelease(p) \/ FreePromo(p) \/ FreeUndo(p) \/ FailRelease(p) \/ Redeem(p)
             \/ GrantFind(p) \/ Throw(p) \/ RefundReverse(p)
    BY <1>1, <2>1 DEF CancelFind, CancelRelease, Reserve, ReserveRefused, AbortRelease, FreePromo,
       FreeUndo, FailRelease, Redeem, GrantFind, Throw, RefundReverse
  <2>2. CASE CancelUpdate(p)
    <3>1. \A t \in Txn : txn'[t].status \in {"success", "refunded"} =>
              txn[t].status \in {"success", "refunded"}
      BY <2>2 DEF CancelUpdate, TypeOK, TxnRow
    <3> QED BY <2>2, <3>1, RowsPaid DEF CancelUpdate, access
  <2>3. CASE Insert(p)
    <3>1. \A t \in Txn : txn'[t].status \in {"success", "refunded"} =>
              txn[t].status \in {"success", "refunded"}
      BY <2>3 DEF Insert, TypeOK, TxnRow
    <3> QED BY <2>3, <3>1, RowsPaid DEF Insert, access
  <2>4. CASE Initiate(p)
    <3>1. Save(p, "pending") /\ UNCHANGED access
      BY <2>4 DEF Initiate
    <3> QED BY <1>2, <2>0, <3>1 DEF TxnStatus
  <2>5. CASE InitiateFails(p)
    <3>1. UNCHANGED access /\ (UNCHANGED txn \/ Save(p, "failed"))
      BY <2>5 DEF InitiateFails
    <3> QED BY <1>1, <1>2, <2>0, <3>1 DEF TxnStatus
  <2>6. CASE AbortSave(p) \/ FailSave(p)
    <3>1. Save(p, "failed") /\ UNCHANGED access
      BY <2>6 DEF AbortSave, FailSave
    <3> QED BY <1>2, <2>0, <3>1 DEF TxnStatus
  <2>7. CASE FreeInsert(p)
    <3>1. Paid(req[p].txn)
      BY <2>0, <2>7 DEF FreeInsert, RequestPaid, FreeSteps, Paid
    <3>2. \A t \in Txn : txn'[t].status \in {"success", "refunded"} =>
              txn[t].status \in {"success", "refunded"} \/ Paid(t)
      BY <2>0, <2>7, <3>1 DEF FreeInsert, TypeOK
    <3> QED BY <2>7, <3>2, RowsPaid DEF FreeInsert, access
  <2>8. CASE FreeFail(p)
    <3>1. \A t \in Txn : txn'[t].status \in {"success", "refunded"} =>
              txn[t].status \in {"success", "refunded"}
      BY <2>8 DEF FreeFail, TypeOK
    <3> QED BY <2>8, <3>1, RowsPaid DEF FreeFail, access
  <2>9. CASE HookSave(p)
    <3>1. PICK s \in TxnStatus : s = req[p].status
      BY DEF TypeOK, Request
    <3>2. Save(p, s) /\ UNCHANGED access
      BY <2>9, <3>1 DEF HookSave, Save
    <3>3. s \in {"success", "refunded"} => Paid(req[p].txn)
      BY <2>0, <3>1 DEF RequestPaid
    <3> QED BY <1>2, <2>0, <3>2, <3>3
  <2>10. CASE Claim(p)
    <3>1. Paid(req[p].txn)
      BY <2>0, <2>10 DEF Claim, RequestPaid, Granting
    <3>2. \A t \in Txn : txn'[t].status \in {"success", "refunded"} =>
              txn[t].status \in {"success", "refunded"} \/ Paid(t)
      BY <2>0, <2>10, <3>1 DEF Claim, TypeOK
    <3> QED BY <2>10, <3>2, RowsPaid DEF Claim, access
  <2>11. CASE GrantWrite(p)
    <3>1. Paid(req[p].txn)
      BY <2>0, <2>11 DEF GrantWrite, RequestPaid, Granting
    <3>2. \A t \in Txn : subs'[t] # << >> => subs[t] # << >> \/ Paid(t)
      BY <2>0, <2>11, <3>1 DEF GrantWrite, TypeOK
    <3>3. \A h \in User \X Ref : enrollment'[h] # "none" \/ seat'[h] =>
              enrollment[h] # "none" \/ seat[h] \/ h = Holder(req[p].txn)
      BY <2>11 DEF GrantWrite, TypeOK
    <3>4. txn' = txn
      BY <2>11 DEF GrantWrite
    <3> QED BY <2>0, <3>1, <3>2, <3>3, <3>4, RowsPaid
  <2>12. CASE Mark(p) \/ MarkError(p) \/ RefundMark(p)
    <3>1. PICK keys \in SUBSET MetaKey : UpdateMeta(p, keys)
      BY <2>12 DEF Mark, MarkError, RefundMark, MetaKey
    <3>2. UNCHANGED access
      BY <2>12 DEF Mark, MarkError, RefundMark
    <3> QED BY <1>3, <3>1, <3>2
  <2>13. CASE RefundClaim(p)
    <3>1. \A t \in Txn : txn'[t].status \in {"success", "refunded"} =>
              txn[t].status \in {"success", "refunded"}
      BY <2>13 DEF RefundClaim, TypeOK
    <3> QED BY <2>13, <3>1, RowsPaid DEF RefundClaim, access
  <2>14. CASE RefundRevoke(p)
    <3>1. \A t \in Txn : subs'[t] # << >> => subs[t] # << >>
      BY <2>0, <2>14 DEF RefundRevoke, TypeOK
    <3>2. \A h \in User \X Ref : enrollment'[h] # "none" => enrollment[h] # "none"
      BY <2>14 DEF RefundRevoke, TypeOK
    <3>3. txn' = txn /\ seat' = seat
      BY <2>14 DEF RefundRevoke
    <3> QED BY <3>1, <3>2, <3>3, RowsPaid
  <2> QED
    BY <1>8, <2>1, <2>2, <2>3, <2>4, <2>5, <2>6, <2>7, <2>8, <2>9, <2>10, <2>11, <2>12, <2>13, <2>14
    DEF Continue
<1>9. CASE UNCHANGED vars
  BY <1>1, <1>9 DEF vars, access
<1> QED BY <1>4, <1>5, <1>6, <1>7, <1>8, <1>9 DEF Next

\* The induction: types, what the tables say was paid, what requests are on the way to
\* write, and the one opening of each payment.
LEMMA Inductive == Spec => []IInv
<1>1. Init => IInv
  <2> SUFFICES ASSUME Init PROVE IInv OBVIOUS
  <2>1. TypeOK BY TypeInit
  <2>2. NothingUnpaid BY DEF Init, NothingUnpaid
  <2>3. EntitiesPaid
    BY DEF Init, EntitiesPaid, RequestPaid, Idle, Granting, FreeSteps
  <2>4. OpenedOnce BY DEF Init, OpenedOnce, Idle, Opening
  <2> QED BY <2>1, <2>2, <2>3, <2>4 DEF IInv
<1>2. TypeOK' /\ IInv /\ [Next]_vars => IInv'
  BY NothingUnpaidStep, EntitiesStep, OpenedStep DEF IInv
<1> QED BY <1>1, <1>2, Types, PTL DEF Spec

\* Nobody gets anything for nothing.
THEOREM Earned == Spec => []NothingUnpaid
<1>1. IInv => NothingUnpaid BY DEF IInv
<1> QED BY <1>1, Inductive, PTL

\* What has been paid for stays paid for: a payment is opened at the provider only once.
THEOREM PaidForGood == Spec => [][\A t \in Txn : Paid(t) => Paid(t)']_vars
<1>1. IInv /\ [Next]_vars => [\A t \in Txn : Paid(t) => Paid(t)']_vars
  BY PaidStays DEF IInv
<1> QED BY <1>1, Inductive, PTL DEF Spec

(***************************************************************************)
(* Where each request can be, and what it knows of the payment             *)
(***************************************************************************)
OpenSteps == Opening \cup {"abortRelease", "abortSave"}
RefundSteps == {"refundClaim", "refundRevoke", "refundMark", "refundReverse"}
LateSteps == (HookSteps \cup FulfilSteps) \ {"grantFind", "grantWrite", "mark"}
Unopened(t) == money[t] = "unopened"

\* A checkout works on a payment that is not open yet, a webhook on one that is; a
\* request that is going to save a row FAILED has read it PENDING or was told of a wrong
\* amount, one that is going to refund was told of a refund.
Sound(r) ==
    r.pc # "idle" =>
        /\ r.status # "none"
        /\ r.pc \in CheckoutSteps => Unopened(r.txn)
        /\ r.pc \in OpenSteps => ~IsFree(r.txn)
        /\ r.pc \in CheckoutSteps \ OpenSteps => IsFree(r.txn)
        /\ r.pc \in LateSteps => ~Unopened(r.txn)
        /\ Unopened(r.txn) => r.pc \in OpenSteps \/ IsFree(r.txn)
        /\ Unopened(r.txn) => r.meta = {}
        /\ r.pc \in {"failRelease", "failSave"} => r.status = "pending" \/ money[r.txn] = "wrong"
        /\ r.pc = "hookSave" /\ r.ev = "mismatch" => money[r.txn] = "wrong"
        /\ (r.pc = "hookSave" /\ r.ev = "refund") \/ r.pc \in RefundSteps => money[r.txn] = "refunded"

AllSound == \A p \in Proc : Sound(req[p])

\* Nothing free is opened at the provider.
FreeUnopened == \A t \in Txn : IsFree(t) => Unopened(t)

\* A checkout, free or not, is alone with its transaction.
Alone ==
    \A p \in Proc : \A q \in Proc :
        p # q /\ req[p].pc # "idle" /\ req[q].pc # "idle" /\ req[p].txn = req[q].txn =>
            ~Unopened(req[p].txn)

Placed == AllSound /\ FreeUnopened /\ Alone


LEMMA Busily ==
    ASSUME TypeOK, NEW p \in Proc, Continue(p)
    PROVE  req[p].pc # "idle" /\ req[p].txn \in Txn
<1>1. req[p].pc # "idle"
  BY DEF Continue, CancelFind, CancelRelease, CancelUpdate, Insert, Reserve, ReserveRefused,
     Initiate, InitiateFails, AbortRelease, AbortSave, FreeInsert, FreePromo, FreeUndo, FreeFail,
     HookSave, FailRelease, FailSave, Claim, Redeem, GrantFind, GrantWrite, Throw, Mark, MarkError,
     RefundClaim, RefundRevoke, RefundMark, RefundReverse
<1> QED BY <1>1 DEF TypeOK

\* What a step of request p leaves in its memory: the same transaction, as it was read.
SoundlyBecomes(p, r) ==
    /\ req' = [req EXCEPT ![p] = r]
    /\ r.pc = "idle" \/ (r.txn = req[p].txn /\ r.meta = req[p].meta)
    /\ Sound(r)

LEMMA EndSoundly ==
    ASSUME NEW p \in Proc, End(p)
    PROVE  \E r \in Request : SoundlyBecomes(p, r)
<1>1. Idle.pc = "idle" /\ Sound(Idle)
  BY DEF Idle, Sound
<1> QED BY <1>1, IdleType DEF End, SoundlyBecomes

LEMMA GotoSoundly ==
    ASSUME ReqOK, NEW p \in Proc, NEW s \in Step, Goto(p, s), Sound([req[p] EXCEPT !.pc = s])
    PROVE  \E r \in Request : SoundlyBecomes(p, r)
<1> DEFINE r == [req[p] EXCEPT !.pc = s]
<1>1. req[p] \in Request
  BY DEF ReqOK
<1>2. r \in Request /\ r.txn = req[p].txn /\ r.meta = req[p].meta
  BY <1>1 DEF Request
<1>3. SoundlyBecomes(p, r)
  BY <1>2 DEF Goto, SoundlyBecomes
<1> QED BY <1>2, <1>3

LEMMA ContinuesSoundly ==
    ASSUME TypeOK, AllSound, FreeUnopened, NEW p \in Proc, Continue(p)
    PROVE  \E r \in Request : SoundlyBecomes(p, r)
<1> DEFINE t == req[p].txn
           at(s) == [req[p] EXCEPT !.pc = s]
<1>0. ReqOK
  BY DEF TypeOK, ReqOK
<1>2. req[p].pc # "idle" /\ req[p] \in Request /\ req[p].txn \in Txn /\ Sound(req[p])
  BY <1>0, Busily DEF ReqOK, AllSound
<1>3. ASSUME NEW s \in Step
      PROVE  /\ at(s).pc = s /\ at(s).txn = req[p].txn /\ at(s).meta = req[p].meta
             /\ at(s).status = req[p].status /\ at(s).ev = req[p].ev
  BY <1>2 DEF Request
<1>4. CASE \/ ReserveRefused(p) \/ Initiate(p) \/ AbortSave(p) \/ FreeFail(p) \/ FailSave(p)
           \/ Mark(p) \/ MarkError(p) \/ RefundReverse(p)
  <2>1. End(p)
    BY <1>4 DEF ReserveRefused, Initiate, AbortSave, FreeFail, FailSave, Mark, MarkError, RefundReverse
  <2> QED BY <2>1, EndSoundly
<1>5. CASE CancelFind(p)
  <2> DEFINE found == {x \in Txn : Holder(x) = Holder(req[p].txn) /\ txn[x].status = "pending"}
             step == IF found = {} THEN "insert" ELSE "cancelRelease"
             r == [req[p] EXCEPT !.stale = found, !.pc = step]
  <2>1. req' = [req EXCEPT ![p] = r] /\ req[p].pc = "cancelFind"
    BY <1>5 DEF CancelFind
  <2>2. found \in SUBSET Txn /\ step \in {"insert", "cancelRelease"}
    OBVIOUS
  <2> HIDE DEF found, step
  <2>3. /\ r \in Request /\ r.txn = req[p].txn /\ r.pc = step /\ r.status = req[p].status
        /\ r.meta = req[p].meta
    BY <1>2, <2>2 DEF Request, Step, CheckoutSteps
  <2>4. Sound(r)
    BY <1>2, <2>1, <2>2, <2>3 DEF Sound, OpenSteps, Opening, CheckoutSteps, LateSteps, HookSteps,
       FulfilSteps, RefundSteps
  <2>5. SoundlyBecomes(p, r)
    BY <2>1, <2>3, <2>4 DEF SoundlyBecomes
  <2> QED BY <2>3, <2>5
<1>6. CASE CancelUpdate(p)
  <2> DEFINE r == [req[p] EXCEPT !.pc = "insert", !.stale = {}]
  <2>1. req' = [req EXCEPT ![p] = r] /\ req[p].pc = "cancelUpdate"
    BY <1>6 DEF CancelUpdate
  <2>2. /\ r \in Request /\ r.txn = req[p].txn /\ r.pc = "insert" /\ r.status = req[p].status
        /\ r.meta = req[p].meta
    BY <1>2 DEF Request, Step, CheckoutSteps
  <2>3. Sound(r)
    BY <1>2, <2>1, <2>2 DEF Sound, OpenSteps, Opening, CheckoutSteps, LateSteps, HookSteps,
       FulfilSteps, RefundSteps
  <2>4. SoundlyBecomes(p, r)
    BY <2>1, <2>2, <2>3 DEF SoundlyBecomes
  <2> QED BY <2>2, <2>4
<1>7. CASE CancelRelease(p) \/ Insert(p) \/ Reserve(p) \/ AbortRelease(p)
  <2>1. req[p].pc \in OpenSteps
    BY <1>7 DEF CancelRelease, Insert, Reserve, AbortRelease, OpenSteps, Opening
  <2>2. End(p) \/ \E s \in {"cancelUpdate", "reserve", "initiate", "abortRelease", "abortSave"} : Goto(p, s)
    BY <1>7 DEF CancelRelease, Insert, Reserve, AbortRelease
  <2>3. ASSUME NEW s \in {"cancelUpdate", "reserve", "initiate", "abortRelease", "abortSave"}, Goto(p, s)
        PROVE  \E r \in Request : SoundlyBecomes(p, r)
    <3>1. s \in Step
      BY DEF Step, CheckoutSteps
    <3>2. Sound(at(s))
      BY <1>2, <1>3, <2>1, <3>1 DEF Sound, OpenSteps, Opening, CheckoutSteps, LateSteps, HookSteps,
         FulfilSteps, RefundSteps
    <3> QED BY <1>0, <2>3, <3>1, <3>2, GotoSoundly
  <2> QED BY <2>2, <2>3, EndSoundly
<1>8. CASE FreeInsert(p)
  <2>1. PICK r \in Request : /\ req' = [req EXCEPT ![p] = r] /\ req[p].pc = "freeInsert"
                             /\ r.txn = req[p].txn /\ r.meta = req[p].meta /\ r.status = "success"
                             /\ r.pc \in {"freeReserve", "grantFind"}
    BY <1>0, <1>8, FreeInsertTo
  <2>2. r \in Request
    OBVIOUS
  <2>3. Sound(r)
    BY <1>2, <2>1, <2>2 DEF Sound, OpenSteps, Opening, CheckoutSteps, LateSteps, HookSteps,
       FulfilSteps, RefundSteps
  <2>4. SoundlyBecomes(p, r)
    BY <2>1, <2>2, <2>3 DEF SoundlyBecomes
  <2> QED BY <2>2, <2>4
<1>9. CASE FreePromo(p) \/ FreeUndo(p)
  <2>1. req[p].pc \in {"freeReserve", "freeRedeem", "freeUndo"}
    BY <1>9 DEF FreePromo, FreeUndo
  <2>2. PICK s \in {"freeRedeem", "grantFind", "freeFail"} : Goto(p, s)
    BY <1>9 DEF FreePromo, FreeUndo
  <2>3. s \in Step
    BY DEF Step, CheckoutSteps, FulfilSteps
  <2>4. Sound(at(s))
    BY <1>2, <1>3, <2>1, <2>3 DEF Sound, OpenSteps, Opening, CheckoutSteps, LateSteps, HookSteps,
       FulfilSteps, RefundSteps
  <2> QED BY <1>0, <2>2, <2>3, <2>4, GotoSoundly
<1>10. CASE HookSave(p)
  <2> DEFINE next == Reaction(req[p].txn, req[p].ev, req[p].status)
  <2>1. req[p].pc = "hookSave" /\ IF next = "idle" THEN End(p) ELSE Goto(p, next)
    BY <1>10 DEF HookSave
  <2>2. next \in {"claim", "failRelease", "failSave", "refundClaim", "idle"}
    BY DEF Reaction
  <2>3. /\ next \in {"failRelease", "failSave"} => req[p].ev = "mismatch" \/ req[p].status = "pending"
        /\ next = "refundClaim" => req[p].ev = "refund"
    BY DEF Reaction
  <2> HIDE DEF next
  <2>4. CASE next = "idle"
    BY <2>1, <2>4, EndSoundly
  <2>5. CASE next # "idle"
    <3>1. PICK s \in {"claim", "failRelease", "failSave", "refundClaim"} : s = next
      BY <2>2, <2>5
    <3>2. Goto(p, s)
      BY <2>1, <2>5, <3>1 DEF Goto
    <3>3. s \in Step
      BY DEF Step, HookSteps, FulfilSteps
    <3>4. Sound(at(s))
      BY <1>2, <1>3, <2>1, <2>3, <3>1, <3>3 DEF Sound, OpenSteps, Opening, CheckoutSteps, LateSteps,
         HookSteps, FulfilSteps, RefundSteps
    <3> QED BY <1>0, <3>2, <3>3, <3>4, GotoSoundly
  <2> QED BY <2>4, <2>5
<1>11. CASE FailRelease(p) \/ RefundClaim(p) \/ RefundRevoke(p) \/ RefundMark(p)
  <2>1. /\ req[p].pc \in {"failRelease", "refundClaim", "refundRevoke", "refundMark"}
        /\ \/ End(p)
           \/ \E s \in {"failSave", "refundRevoke", "refundMark", "refundReverse"} :
                 Goto(p, s) /\ (s = "failSave" => req[p].pc = "failRelease")
                            /\ (s # "failSave" => req[p].pc # "failRelease")
    BY <1>11 DEF FailRelease, RefundClaim, RefundRevoke, RefundMark
  <2>2. ASSUME NEW s \in {"failSave", "refundRevoke", "refundMark", "refundReverse"}, Goto(p, s),
               s = "failSave" => req[p].pc = "failRelease",
               s # "failSave" => req[p].pc # "failRelease"
        PROVE  \E r \in Request : SoundlyBecomes(p, r)
    <3>1. s \in Step
      BY DEF Step, HookSteps
    <3>2. Sound(at(s))
      BY <1>2, <1>3, <2>1, <2>2, <3>1 DEF Sound, OpenSteps, Opening, CheckoutSteps, LateSteps, HookSteps,
         FulfilSteps, RefundSteps
    <3> QED BY <1>0, <2>2, <3>1, <3>2, GotoSoundly
  <2> QED BY <2>1, <2>2, EndSoundly
<1>12. CASE Throw(p)
  <2>1. req[p].pc \in {"freeReserve", "freeRedeem", "redeem", "grantFind", "grantWrite", "mark"}
    BY <1>12 DEF Throw
  <2>2. PICK s \in {"freeUndo", "markError"} : Goto(p, s) /\ (s = "freeUndo" <=> IsFree(req[p].txn))
    BY <1>12 DEF Throw
  <2>3. s \in Step
    BY DEF Step, CheckoutSteps, FulfilSteps
  <2>4. IsFree(req[p].txn) => Unopened(req[p].txn)
    BY <1>2 DEF FreeUnopened
  <2>5. Sound(at(s))
    BY <1>2, <1>3, <2>1, <2>2, <2>3, <2>4 DEF Sound, OpenSteps, Opening, CheckoutSteps, LateSteps,
       HookSteps, FulfilSteps, RefundSteps
  <2> QED BY <1>0, <2>2, <2>3, <2>5, GotoSoundly
<1>13. CASE Claim(p) \/ Redeem(p) \/ GrantWrite(p) \/ GrantFind(p)
  <2>1. req[p].pc \in {"claim", "redeem", "grantWrite", "grantFind"}
    BY <1>13 DEF Claim, Redeem, GrantWrite, GrantFind
  <2>2. ASSUME NEW s \in {"redeem", "grantFind", "grantWrite", "mark"}, Goto(p, s),
               s = "redeem" => req[p].pc = "claim"
        PROVE  \E r \in Request : SoundlyBecomes(p, r)
    <3>1. s \in Step
      BY DEF Step, FulfilSteps
    <3>2. Sound(at(s))
      BY <1>2, <1>3, <2>1, <2>2, <3>1 DEF Sound, OpenSteps, Opening, CheckoutSteps, LateSteps, HookSteps,
         FulfilSteps, RefundSteps
    <3> QED BY <1>0, <2>2, <3>1, <3>2, GotoSoundly
  <2>3. CASE Kind(req[p].txn) = "course" /\ GrantFind(p)
    <3> DEFINE look == enrollment[Holder(req[p].txn)]
               step == IF look = "active" THEN "mark" ELSE "grantWrite"
               r == [req[p] EXCEPT !.look = look, !.pc = step]
    <3>1. Holder(req[p].txn) \in User \X Ref
      BY <1>2, Orders DEF TypeOK, OrderOK
    <3>2. look \in EnrollmentStatus /\ step \in {"mark", "grantWrite"}
      BY <3>1 DEF TypeOK
    <3>3. req' = [req EXCEPT ![p] = r]
      BY <2>3 DEF GrantFind
    <3> HIDE DEF look, step
    <3>4. /\ r \in Request /\ r.txn = req[p].txn /\ r.pc = step /\ r.status = req[p].status
          /\ r.meta = req[p].meta
      BY <1>2, <3>2 DEF Request, Step, FulfilSteps
    <3>5. Sound(r)
      BY <1>2, <2>1, <3>2, <3>4 DEF Sound, OpenSteps, Opening, CheckoutSteps, LateSteps, HookSteps,
         FulfilSteps, RefundSteps
    <3>6. SoundlyBecomes(p, r)
      BY <3>3, <3>4, <3>5 DEF SoundlyBecomes
    <3> QED BY <3>4, <3>6
  <2>4. CASE ~(Kind(req[p].txn) = "course" /\ GrantFind(p))
    <3>1. \/ End(p)
          \/ \E s \in {"redeem", "grantFind", "grantWrite", "mark"} :
                Goto(p, s) /\ (s = "redeem" => req[p].pc = "claim")
      BY <1>13, <2>4 DEF Claim, Redeem, GrantWrite, GrantFind
    <3> QED BY <2>2, <3>1, EndSoundly
  <2> QED BY <2>3, <2>4
<1>14. CASE InitiateFails(p)
  <2>1. req[p].pc = "initiate"
    BY <1>14 DEF InitiateFails
  <2>2. ASSUME NEW r \in Request, req' = [req EXCEPT ![p] = r], r.txn = req[p].txn, r.meta = req[p].meta,
               r.pc \in {"abortRelease", "abortSave"}, r.status \in {"pending", "failed"}
        PROVE  \E x \in Request : SoundlyBecomes(p, x)
    <3>1. Sound(r)
      BY <1>2, <2>1, <2>2 DEF Sound, OpenSteps, Opening, CheckoutSteps, LateSteps, HookSteps,
         FulfilSteps, RefundSteps
    <3>2. SoundlyBecomes(p, r)
      BY <2>2, <3>1 DEF SoundlyBecomes
    <3> QED BY <3>2
  <2> QED BY <1>0, <1>14, <2>2, InitiateFailsTo, EndSoundly
<1> QED BY <1>4, <1>5, <1>6, <1>7, <1>8, <1>9, <1>10, <1>11, <1>12, <1>13, <1>14 DEF Continue
(***************************************************************************)
(* The row while its checkout goes on                                      *)
(***************************************************************************)
BeforeInsert == {"cancelFind", "cancelRelease", "cancelUpdate", "insert", "freeInsert"}

FreshRows ==
    /\ \A t \in Txn : txn[t].status = "none" =>
           /\ Unopened(t) /\ txn[t].meta = {}
           /\ \A p \in Proc : req[p].pc # "idle" /\ req[p].txn = t => req[p].pc \in BeforeInsert
    /\ \A p \in Proc : req[p].pc # "idle" /\ Unopened(req[p].txn) => txn[req[p].txn].meta = {}


\* A request that comes in: a checkout of a transaction nobody has, or a webhook of a
\* payment that has been opened, whose handler has just read the row.
Comes(r) ==
    \/ /\ r.pc \in {"cancelFind", "freeInsert"} /\ r.meta = {}
       /\ Unopened(r.txn) /\ ~Busy(r.txn) /\ txn[r.txn].status = "none"
    \/ /\ r.pc \in {"hookSave", "claim", "failRelease", "failSave", "refundClaim"}
       /\ ~Unopened(r.txn) /\ r.meta = txn[r.txn].meta

Arrives(p, r) ==
    /\ req[p].pc = "idle" /\ req' = [req EXCEPT ![p] = r] /\ r.txn \in Txn
    /\ Comes(r) /\ Sound(r)
    /\ UNCHANGED <<order, txn, access, promo, money, fulfilments, overwritten, crashed>>

LEMMA Arrival ==
    ASSUME TypeOK, FreeUnopened, FreshRows, NEW p \in Proc, NEW t \in Txn,
           CheckoutBegin(p, t) \/ \E ev \in Event : Deliver(p, t, ev)
    PROVE  \E r \in Request : Arrives(p, r)
<1>1. CASE CheckoutBegin(p, t)
  <2> DEFINE step == IF IsFree(t) THEN "freeInsert" ELSE "cancelFind"
             r == [Idle EXCEPT !.txn = t, !.status = "pending", !.pc = step]
  <2>1. req' = [req EXCEPT ![p] = r] /\ req[p].pc = "idle"
    BY <1>1 DEF CheckoutBegin
  <2>2. step \in {"freeInsert", "cancelFind"} /\ (step = "freeInsert" <=> IsFree(t))
    OBVIOUS
  <2> HIDE DEF step
  <2>3. /\ r \in Request /\ r.txn = t /\ r.pc = step /\ r.status = "pending" /\ r.meta = {}
    BY <2>2, IdleType DEF Idle, Request, Step, CheckoutSteps, TxnStatus
  <2>4. Unopened(t) /\ ~Busy(t) /\ txn[t].status = "none"
    BY <1>1 DEF CheckoutBegin, IsFresh, Unopened
  <2>5. Sound(r)
    BY <2>2, <2>3, <2>4 DEF Sound, OpenSteps, Opening, CheckoutSteps, LateSteps, HookSteps,
       FulfilSteps, RefundSteps
  <2>6. Comes(r)
    BY <2>2, <2>3, <2>4 DEF Comes
  <2>7. UNCHANGED <<order, txn, access, promo, money, fulfilments, overwritten, crashed>>
    BY <1>1 DEF CheckoutBegin, history
  <2> QED BY <2>1, <2>3, <2>5, <2>6, <2>7 DEF Arrives
<1>2. ASSUME NEW ev \in Event, Deliver(p, t, ev) PROVE \E r \in Request : Arrives(p, r)
  <2> DEFINE next == IF order[t].provider = "paymob" THEN "hookSave"
                     ELSE Reaction(t, ev, txn[t].status)
             r == [Idle EXCEPT !.txn = t, !.ev = ev, !.pc = next,
                               !.status = txn[t].status, !.meta = txn[t].meta]
  <2>1. req' = [req EXCEPT ![p] = r] /\ req[p].pc = "idle" /\ next # "idle"
    BY <1>2 DEF Deliver
  <2>2. /\ ~Unopened(t)
        /\ ev = "mismatch" => money[t] = "wrong"
        /\ ev = "refund" => money[t] = "refunded"
        /\ order[t].provider # "paymob" => ev \in {"declined", "success"}
    BY <1>2 DEF Deliver, News, TypeOK, Money, Unopened
  <2>3. /\ next \in {"hookSave", "claim", "failRelease", "failSave", "refundClaim", "idle"}
        /\ next \in {"failRelease", "failSave"} => ev = "mismatch" \/ txn[t].status = "pending"
        /\ next = "refundClaim" => ev = "refund"
    BY DEF Reaction
  <2>4. txn[t].status \in TxnStatus /\ txn[t].meta \in SUBSET MetaKey /\ txn[t].status # "none"
    BY <2>2 DEF TypeOK, TxnRow, FreshRows
  <2>5. ~IsFree(t)
    BY <2>2 DEF FreeUnopened
  <2>6. UNCHANGED <<order, txn, access, promo, money, fulfilments, overwritten, crashed>>
    BY <1>2 DEF Deliver
  <2> HIDE DEF next
  <2>7. /\ r \in Request /\ r.txn = t /\ r.pc = next /\ r.status = txn[t].status /\ r.ev = ev
        /\ r.meta = txn[t].meta
    BY <2>3, <2>4, IdleType DEF Idle, Request, Step, HookSteps, FulfilSteps
  <2>8. Sound(r)
    BY <2>2, <2>3, <2>4, <2>5, <2>7 DEF Sound, OpenSteps, Opening, CheckoutSteps, LateSteps, HookSteps,
       FulfilSteps, RefundSteps
  <2>9. Comes(r)
    BY <2>1, <2>2, <2>3, <2>7 DEF Comes
  <2> QED BY <2>1, <2>6, <2>7, <2>8, <2>9 DEF Arrives
<1> QED BY <1>1, <1>2

\* What a step of request p does with the rows of the transactions.
SavesAs(p, s) ==
    /\ Save(p, s)
    /\ \/ s = "pending" /\ req[p].pc = "initiate" /\ End(p)
       \/ s = "failed" /\ req[p].pc \in {"initiate", "abortSave", "failSave"}
       \/ s = req[p].status /\ req[p].pc = "hookSave"

Marks(p, keys) ==
    /\ UpdateMeta(p, keys)
    /\ \/ req[p].pc = "mark" /\ keys = {"fulfilled"} /\ End(p)
       \/ req[p].pc = "markError" /\ keys = {"fulfillmentError"} /\ End(p)
       \/ req[p].pc = "refundMark" /\ keys = {}

LEMMA RowSteps ==
    ASSUME NEW p \in Proc, Continue(p)
    PROVE  /\ crashed' = crashed /\ (fulfilments' = fulfilments \/ Claim(p))
           /\ \/ UNCHANGED <<txn, overwritten>>
              \/ \E s \in {"pending", "failed", req[p].status} : SavesAs(p, s)
              \/ \E keys \in SUBSET {"fulfilled", "fulfillmentError"} : Marks(p, keys)
              \/ CancelUpdate(p) \/ Insert(p) \/ FreeInsert(p) \/ FreeFail(p)
              \/ Claim(p) \/ RefundClaim(p)
<1>1. CASE \/ CancelFind(p) \/ CancelRelease(p) \/ Reserve(p) \/ ReserveRefused(p) \/ AbortRelease(p)
           \/ FreePromo(p) \/ FreeUndo(p) \/ FailRelease(p) \/ Redeem(p)
  BY <1>1 DEF CancelFind, CancelRelease, Reserve, ReserveRefused, AbortRelease, FreePromo,
     FreeUndo, FailRelease, Redeem, history
<1>2. CASE GrantFind(p) \/ GrantWrite(p) \/ Throw(p) \/ RefundRevoke(p) \/ RefundReverse(p)
  BY <1>2 DEF GrantFind, GrantWrite, Throw, RefundRevoke, RefundReverse, history
<1>3. CASE Initiate(p)
  BY <1>3 DEF Initiate, SavesAs, Save
<1>4. CASE InitiateFails(p)
  BY <1>4 DEF InitiateFails, SavesAs, Save, history
<1>5. CASE AbortSave(p) \/ FailSave(p)
  BY <1>5 DEF AbortSave, FailSave, SavesAs, Save
<1>6. CASE HookSave(p)
  BY <1>6 DEF HookSave, SavesAs, Save
<1>7. CASE Mark(p) \/ MarkError(p) \/ RefundMark(p)
  BY <1>7 DEF Mark, MarkError, RefundMark, Marks, UpdateMeta
<1>8. CASE CancelUpdate(p) \/ Insert(p) \/ FreeInsert(p) \/ FreeFail(p) \/ Claim(p) \/ RefundClaim(p)
  BY <1>8 DEF CancelUpdate, Insert, FreeInsert, FreeFail, Claim, RefundClaim, history
<1> QED BY <1>1, <1>2, <1>3, <1>4, <1>5, <1>6, <1>7, <1>8 DEF Continue

LEMMA SoundKept ==
    ASSUME NEW r \in Request, Sound(r), order' = order, r.pc = "idle" \/ money'[r.txn] = money[r.txn]
    PROVE  Sound(r)'
BY DEF Sound, Unopened, IsFree

LEMMA SoundPaid ==
    ASSUME TypeOK, NEW x \in Txn, Pay(x), NEW r \in Request, Sound(r), r.pc # "idle" => r.txn \in Txn
    PROVE  Sound(r)'
<1>1. CASE r.pc = "idle" \/ r.txn # x
  <2>1. order' = order /\ (r.pc = "idle" \/ money'[r.txn] = money[r.txn])
    BY <1>1 DEF Pay, TypeOK
  <2> QED BY <2>1, SoundKept
<1>2. CASE r.pc # "idle" /\ r.txn = x
  <2>1. /\ order' = order /\ money[x] \in {"open", "paid"} /\ money'[x] \in {"paid", "wrong", "refunded"}
    BY <1>2 DEF Pay, TypeOK
  <2>2. /\ ~Unopened(x) /\ ~Unopened(x)' /\ (IsFree(x)' <=> IsFree(x))
        /\ money[x] # "wrong" /\ money[x] # "refunded"
    BY <2>1 DEF Unopened, IsFree
  <2> QED BY <1>2, <2>2 DEF Sound
<1> QED BY <1>1, <1>2

LEMMA PlacedStep ==
    ASSUME TypeOK, Placed, FreshRows, [Next]_vars
    PROVE  Placed'
<1>0. AllSound /\ FreeUnopened /\ Alone
  BY DEF Placed
<1>1. order' = order
  BY Frame
<1>2. ASSUME NEW p \in Proc, Continue(p) PROVE Placed'
  <2>1. PICK r \in Request : SoundlyBecomes(p, r)
    BY <1>0, <1>2, ContinuesSoundly
  <2>2. req[p].pc # "idle" /\ req[p].txn \in Txn /\ Sound(req[p])
    BY <1>0, <1>2, Busily DEF AllSound
  <2>3. money' = money \/ Initiate(p)
    BY <1>2, Moneyless
  <2>4. Initiate(p) => Unopened(req[p].txn) /\ ~IsFree(req[p].txn)
    BY <2>2 DEF Initiate, Sound, CheckoutSteps, OpenSteps, Opening
  <2>5. ASSUME NEW q \in Proc PROVE Sound(req[q])'
    <3>1. req[q] \in Request /\ Sound(req[q]) /\ (req[q].pc # "idle" => req[q].txn \in Txn)
      BY <1>0 DEF TypeOK, AllSound
    <3>2. CASE q = p
      <4>1. req'[p] = r /\ Sound(r)
        BY <2>1 DEF SoundlyBecomes, TypeOK
      <4>2. r.pc = "idle" \/ money' = money
        BY <2>3, <4>1 DEF Initiate, End, Idle, TypeOK
      <4>3. Sound(r)'
        BY <1>1, <4>1, <4>2, SoundKept
      <4> QED BY <3>2, <4>1, <4>3 DEF Sound
    <3>3. CASE q # p
      <4>1. req'[q] = req[q]
        BY <2>1, <3>3 DEF SoundlyBecomes, TypeOK
      <4>2. req[q].pc = "idle" \/ money'[req[q].txn] = money[req[q].txn]
        <5>1. CASE money' = money BY <5>1
        <5>2. CASE Initiate(p) /\ req[q].pc # "idle"
          <6>1. req[q].txn # req[p].txn
            BY <1>0, <2>2, <2>4, <3>3, <5>2 DEF Alone
          <6> QED BY <3>1, <5>2, <6>1 DEF Initiate, TypeOK
        <5> QED BY <2>3, <5>1, <5>2
      <4>3. PICK e \in Request : e = req[q]
        BY <3>1
      <4>4. Sound(e)'
        BY <1>1, <3>1, <4>2, <4>3, SoundKept
      <4> QED BY <4>1, <4>3, <4>4 DEF Sound
    <3> QED BY <3>2, <3>3
  <2>6. FreeUnopened'
    BY <1>0, <1>1, <2>2, <2>3, <2>4 DEF FreeUnopened, IsFree, Unopened, Initiate, TypeOK
  <2>7. ASSUME NEW x \in Txn, Unopened(x)' PROVE Unopened(x)
    BY <2>3, <2>4, <2>7 DEF Unopened, Initiate, TypeOK
  <2>8. ASSUME NEW q \in Proc, req'[q].pc # "idle"
        PROVE  req[q].pc # "idle" /\ req'[q].txn = req[q].txn /\ req[q].txn \in Txn
    BY <2>1, <2>2, <2>8 DEF SoundlyBecomes, TypeOK
  <2>9. Alone'
    <3> SUFFICES ASSUME NEW a \in Proc, NEW b \in Proc, a # b, req'[a].pc # "idle", req'[b].pc # "idle",
                        req'[a].txn = req'[b].txn, Unopened(req[a].txn)'
                 PROVE  FALSE
      BY DEF Alone
    <3>1. /\ req[a].pc # "idle" /\ req'[a].txn = req[a].txn /\ req[a].txn \in Txn
          /\ req[b].pc # "idle" /\ req'[b].txn = req[b].txn
      BY <2>8
    <3>2. Unopened(req[a].txn)
      BY <2>7, <3>1 DEF Unopened
    <3> QED BY <1>0, <3>1, <3>2 DEF Alone
  <2> QED BY <2>5, <2>6, <2>9 DEF Placed, AllSound
<1>3. ASSUME NEW p \in Proc, NEW r \in Request, Arrives(p, r) PROVE Placed'
  <2>1. req' = [req EXCEPT ![p] = r] /\ money' = money /\ Sound(r) /\ Comes(r) /\ r.txn \in Txn
    BY <1>3 DEF Arrives
  <2>2. ASSUME NEW q \in Proc PROVE Sound(req[q])'
    <3>1. PICK e \in Request : e = req'[q] /\ Sound(e)
      BY <1>0, <2>1 DEF AllSound, TypeOK
    <3>2. Sound(e)'
      BY <1>1, <2>1, <3>1, SoundKept
    <3> QED BY <3>1, <3>2 DEF Sound
  <2>3. FreeUnopened'
    BY <1>0, <1>1, <2>1 DEF FreeUnopened, IsFree, Unopened
  <2>4. Alone'
    <3> SUFFICES ASSUME NEW a \in Proc, NEW b \in Proc, a # b, req'[a].pc # "idle", req'[b].pc # "idle",
                        req'[a].txn = req'[b].txn, Unopened(req[a].txn)'
                 PROVE  FALSE
      BY DEF Alone
    <3>1. Unopened(req'[a].txn)
      BY <2>1 DEF Unopened
    <3>2. CASE a # p /\ b # p
      BY <1>0, <2>1, <3>1, <3>2 DEF Alone, TypeOK
    <3>3. CASE a = p \/ b = p
      <4>1. PICK q \in {a, b} : q # p /\ req[q].txn = r.txn
        BY <2>1, <3>3 DEF TypeOK
      <4>2. Busy(r.txn) /\ Unopened(r.txn)
        BY <2>1, <3>1, <3>3, <4>1 DEF Busy, TypeOK
      <4> QED BY <2>1, <4>2 DEF Comes
    <3> QED BY <3>2, <3>3
  <2> QED BY <2>2, <2>3, <2>4 DEF Placed, AllSound
<1>4. ASSUME NEW p \in Proc, Crash(p) PROVE Placed'
  <2>1. req' = [req EXCEPT ![p] = Idle] /\ money' = money
    BY <1>4 DEF Crash, End
  <2>2. Idle.pc = "idle" /\ Sound(Idle)
    BY DEF Idle, Sound
  <2>3. ASSUME NEW q \in Proc PROVE Sound(req[q])'
    <3>1. PICK e \in Request : e = req'[q] /\ Sound(e)
      BY <1>0, <2>1, <2>2, IdleType DEF AllSound, TypeOK
    <3>2. Sound(e)'
      BY <1>1, <2>1, <3>1, SoundKept
    <3> QED BY <3>1, <3>2 DEF Sound
  <2>4. FreeUnopened'
    BY <1>0, <1>1, <2>1 DEF FreeUnopened, IsFree, Unopened
  <2>5. ASSUME NEW q \in Proc, req'[q].pc # "idle" PROVE req'[q] = req[q]
    BY <2>1, <2>2, <2>5 DEF TypeOK
  <2>6. Alone'
    BY <1>0, <2>1, <2>5 DEF Alone, Unopened
  <2> QED BY <2>3, <2>4, <2>6 DEF Placed, AllSound
<1>5. ASSUME NEW x \in Txn, Pay(x) PROVE Placed'
  <2>1. req' = req
    BY <1>5 DEF Pay
  <2>2. ASSUME NEW q \in Proc PROVE Sound(req[q])'
    <3>1. PICK e \in Request : e = req[q] /\ Sound(e) /\ (e.pc # "idle" => e.txn \in Txn)
      BY <1>0 DEF AllSound, TypeOK
    <3>2. Sound(e)'
      BY <1>5, <3>1, SoundPaid
    <3> QED BY <2>1, <3>1, <3>2 DEF Sound
  <2>3. ASSUME NEW t \in Txn PROVE Unopened(t)' <=> Unopened(t)
    BY <1>5, <2>3 DEF Pay, Unopened, TypeOK
  <2>4. FreeUnopened'
    BY <1>0, <1>1, <2>3 DEF FreeUnopened, IsFree
  <2>5. Alone'
    <3>1. \A p \in Proc : req[p].pc # "idle" => req[p].txn \in Txn
      BY DEF TypeOK
    <3>2. ASSUME NEW p \in Proc, req[p].pc # "idle" PROVE Unopened(req[p].txn)' <=> Unopened(req[p].txn)
      BY <2>1, <2>3, <3>1, <3>2 DEF Unopened
    <3> QED BY <1>0, <2>1, <3>2 DEF Alone
  <2> QED BY <2>2, <2>4, <2>5 DEF Placed, AllSound
<1>6. CASE UNCHANGED <<order, money, req>>
  BY <1>0, <1>6 DEF Placed, AllSound, FreeUnopened, Alone, Sound, IsFree, Unopened
<1>7. ASSUME NEW x \in Txn, Lapse(x) PROVE Placed'
  BY <1>6, <1>7 DEF Lapse
<1>8. CASE UNCHANGED vars
  BY <1>6, <1>8 DEF vars
<1> QED BY <1>0, <1>2, <1>3, <1>4, <1>5, <1>7, <1>8, Arrival DEF Next

LEMMA StatusOnly ==
    ASSUME TypeOK, NEW own \in Txn, NEW s \in TxnStatus, txn' = [txn EXCEPT ![own].status = s],
           NEW t \in Txn
    PROVE  txn'[t].meta = txn[t].meta /\ IF t = own THEN txn'[t].status = s ELSE txn'[t] = txn[t]
<1> DEFINE row == [txn[own] EXCEPT !.status = s]
<1>1. txn' = [txn EXCEPT ![own] = row]
  OBVIOUS
<1>2. row.meta = txn[own].meta /\ row.status = s
  BY DEF TypeOK, TxnRow
<1> HIDE DEF row
<1> QED BY <1>1, <1>2 DEF TypeOK

LEMMA MetaOnly ==
    ASSUME TypeOK, NEW p \in Proc, NEW keys, UpdateMeta(p, keys), req[p].txn \in Txn, NEW t \in Txn
    PROVE  /\ txn'[t].status = txn[t].status
           /\ IF t = req[p].txn THEN txn'[t].meta = req[p].meta \cup keys ELSE txn'[t] = txn[t]
<1> DEFINE own == req[p].txn
           m == req[p].meta \cup keys
           row == [txn[own] EXCEPT !.meta = m]
<1>1. txn' = [txn EXCEPT ![own] = row]
  BY DEF UpdateMeta
<1>2. row.meta = m /\ row.status = txn[own].status
  BY DEF TypeOK, TxnRow
<1> HIDE DEF row
<1> QED BY <1>1, <1>2 DEF TypeOK

LEMMA CancelRows ==
    ASSUME TypeOK, NEW p \in Proc, CancelUpdate(p), NEW t \in Txn
    PROVE  /\ txn'[t].meta = txn[t].meta
           /\ t \in req[p].stale => txn'[t].status = "failed"
           /\ t \notin req[p].stale => txn'[t] = txn[t]
<1> DEFINE row == [txn[t] EXCEPT !.status = "failed"]
<1>1. txn'[t] = IF t \in req[p].stale THEN row ELSE txn[t]
  BY DEF CancelUpdate
<1>2. row.meta = txn[t].meta /\ row.status = "failed"
  BY DEF TypeOK, TxnRow
<1> QED BY <1>1, <1>2

\* A row that is inserted stays.
LEMMA StaysInserted ==
    ASSUME TypeOK, Placed, FreshRows, NEW p \in Proc, Continue(p), NEW t \in Txn,
           txn'[t].status = "none"
    PROVE  /\ txn[t].status = "none" /\ txn'[t] = txn[t]
           /\ req[p].txn = t => req[p].pc \in {"cancelFind", "cancelRelease", "cancelUpdate"}
<1> DEFINE own == req[p].txn
<1>0. req[p].pc # "idle" /\ own \in Txn /\ Sound(req[p])
  BY Busily DEF Placed, AllSound
<1>1. CASE UNCHANGED txn
  <2>1. txn[t].status = "none"
    BY <1>1
  <2>2. own = t => req[p].pc \in BeforeInsert
    BY <1>0, <2>1 DEF FreshRows
  <2>3. own = t => req[p].pc \notin {"insert", "freeInsert"}
    BY <1>0, <1>1, <2>1 DEF Continue, CancelFind, CancelRelease, CancelUpdate, Insert, Reserve,
       ReserveRefused, Initiate, InitiateFails, AbortRelease, AbortSave, FreeInsert, FreePromo, FreeUndo,
       FreeFail, HookSave, FailRelease, FailSave, Claim, Redeem, GrantFind, GrantWrite, Throw, Mark,
       MarkError, RefundClaim, RefundRevoke, RefundMark, RefundReverse, TypeOK, TxnRow
  <2> QED BY <1>1, <2>1, <2>2, <2>3 DEF BeforeInsert
<1>2. ASSUME NEW s \in {"pending", "failed", req[p].status}, SavesAs(p, s)
      PROVE  txn[t].status = "none" /\ txn'[t] = txn[t] /\ own # t
  <2>1. s # "none" /\ txn' = [txn EXCEPT ![own] = [status |-> s, meta |-> req[p].meta]]
    BY <1>0, <1>2 DEF SavesAs, Save, Sound
  <2> QED BY <1>0, <2>1 DEF TypeOK
<1>3. ASSUME NEW keys \in SUBSET {"fulfilled", "fulfillmentError"}, Marks(p, keys)
      PROVE  txn[t].status = "none" /\ txn'[t] = txn[t] /\ own # t
  <2>1. txn' = [txn EXCEPT ![own].meta = req[p].meta \cup keys] /\ req[p].pc \notin BeforeInsert
    BY <1>3 DEF Marks, UpdateMeta, BeforeInsert
  <2>2. txn'[t].status = txn[t].status
    BY <2>1 DEF TypeOK, TxnRow
  <2>3. own # t
    BY <1>0, <2>1, <2>2 DEF FreshRows
  <2> QED BY <2>1, <2>2, <2>3 DEF TypeOK
<1>4. CASE CancelUpdate(p)
  <2>1. txn[t].status = "none" /\ txn'[t] = txn[t]
    BY <1>4, CancelRows
  <2>2. req[p].pc = "cancelUpdate"
    BY <1>4 DEF CancelUpdate
  <2> QED BY <2>1, <2>2
<1>5. CASE Insert(p) \/ FreeInsert(p) \/ FreeFail(p)
  <2>1. txn[t].status = "none" /\ txn'[t] = txn[t] /\ own # t
    BY <1>0, <1>5 DEF Insert, FreeInsert, FreeFail, TypeOK, TxnRow
  <2> QED BY <2>1
<1>6. CASE Claim(p) \/ RefundClaim(p)
  <2>0. PICK s \in {"success", "refunded"} :
            txn' = txn \/ txn' = [txn EXCEPT ![own].status = s]
    BY <1>6 DEF Claim, RefundClaim
  <2>1. txn[t].status = "none" /\ txn'[t] = txn[t]
    BY <1>0, <2>0 DEF TypeOK, TxnRow
  <2>2. own # t
    BY <1>0, <1>6, <2>1 DEF Claim, RefundClaim, FreshRows, BeforeInsert
  <2> QED BY <2>1, <2>2
<1> QED BY <1>1, <1>2, <1>3, <1>4, <1>5, <1>6, RowSteps

LEMMA FreshStep ==
    ASSUME TypeOK, Placed, FreshRows, [Next]_vars
    PROVE  FreshRows'
<1>0. AllSound /\ FreeUnopened /\ Alone
  BY DEF Placed
<1>1. ASSUME NEW p \in Proc, Continue(p) PROVE FreshRows'
  <2> DEFINE own == req[p].txn
  <2>1. PICK r \in Request : SoundlyBecomes(p, r)
    BY <1>0, <1>1, ContinuesSoundly
  <2>2. req[p].pc # "idle" /\ own \in Txn /\ Sound(req[p])
    BY <1>0, <1>1, Busily DEF AllSound
  <2>3. ASSUME NEW q \in Proc, q # p PROVE req'[q] = req[q]
    BY <2>1, <2>3 DEF SoundlyBecomes, TypeOK
  <2>4. req'[p] = r /\ (r.pc = "idle" \/ (r.txn = own /\ r.meta = req[p].meta))
    BY <2>1 DEF SoundlyBecomes, TypeOK
  <2>5. money' = money \/ Initiate(p)
    BY <1>1, Moneyless
  <2>6. ASSUME NEW t \in Txn, txn'[t].status = "none"
        PROVE  /\ Unopened(t)' /\ txn'[t].meta = {}
               /\ \A q \in Proc : req'[q].pc # "idle" /\ req'[q].txn = t => req'[q].pc \in BeforeInsert
    <3>1. /\ txn[t].status = "none" /\ txn'[t] = txn[t]
          /\ own = t => req[p].pc \in {"cancelFind", "cancelRelease", "cancelUpdate"}
      BY <1>1, <2>6, StaysInserted
    <3>2. Unopened(t) /\ txn[t].meta = {}
      BY <3>1 DEF FreshRows
    <3>3. Unopened(t)'
      BY <2>2, <2>5, <3>1, <3>2 DEF Unopened, Initiate, TypeOK
    <3>4. ASSUME NEW q \in Proc, req'[q].pc # "idle", req'[q].txn = t PROVE req'[q].pc \in BeforeInsert
      <4>1. CASE q # p
        BY <2>3, <3>1, <3>4, <4>1 DEF FreshRows
      <4>2. CASE q = p
        <5>1. req[p].pc \in {"cancelFind", "cancelRelease", "cancelUpdate"}
          BY <2>4, <3>1, <3>4, <4>2
        <5>2. CancelFind(p) \/ CancelRelease(p) \/ CancelUpdate(p)
          BY <1>1, <5>1 DEF Continue, CancelFind, CancelRelease, CancelUpdate, Insert, Reserve,
             ReserveRefused, Initiate, InitiateFails, AbortRelease, AbortSave, FreeInsert, FreePromo,
             FreeUndo, FreeFail, HookSave, FailRelease, FailSave, Claim, Redeem, GrantFind, GrantWrite,
             Throw, Mark, MarkError, RefundClaim, RefundRevoke, RefundMark, RefundReverse
        <5>3. req[p] \in Request /\ req \in [Proc -> Request]
          BY DEF TypeOK
        <5>4. req'[p].pc \in {"insert", "cancelRelease", "cancelUpdate"}
          <6>1. CASE CancelFind(p)
            <7> DEFINE found == {x \in Txn : Holder(x) = Holder(req[p].txn) /\ txn[x].status = "pending"}
                       step == IF found = {} THEN "insert" ELSE "cancelRelease"
            <7>1. req' = [req EXCEPT ![p] = [req[p] EXCEPT !.stale = found, !.pc = step]]
              BY <6>1 DEF CancelFind
            <7>2. step \in {"insert", "cancelRelease"}
              OBVIOUS
            <7> HIDE DEF found, step
            <7> QED BY <5>3, <7>1, <7>2 DEF Request
          <6>2. CASE CancelRelease(p)
            BY <5>3, <6>2 DEF CancelRelease, Goto, Request
          <6>3. CASE CancelUpdate(p)
            <7> DEFINE e == [req[p] EXCEPT !.pc = "insert", !.stale = {}]
            <7>1. req' = [req EXCEPT ![p] = e]
              BY <6>3 DEF CancelUpdate
            <7>2. e.pc = "insert"
              BY <5>3 DEF Request
            <7> QED BY <5>3, <7>1, <7>2
          <6> QED BY <5>2, <6>1, <6>2, <6>3
        <5> QED BY <4>2, <5>4 DEF BeforeInsert
      <4> QED BY <4>1, <4>2
    <3> QED BY <3>1, <3>2, <3>3, <3>4
  <2>7. ASSUME NEW q \in Proc, req'[q].pc # "idle", Unopened(req[q].txn)'
        PROVE  txn'[req'[q].txn].meta = {}
    <3>1. req[q].pc # "idle" /\ req'[q].txn = req[q].txn /\ req[q].txn \in Txn
      BY <2>2, <2>3, <2>4, <2>7 DEF TypeOK
    <3>2. Unopened(req[q].txn)
      BY <2>2, <2>5, <2>7, <3>1 DEF Unopened, Initiate, TypeOK
    <3>3. txn[req[q].txn].meta = {}
      BY <3>1, <3>2 DEF FreshRows
    <3>4. q # p => req[q].txn # own
      BY <1>0, <2>2, <3>1, <3>2 DEF Alone
    <3>5. CASE UNCHANGED txn
      BY <3>1, <3>3, <3>5
    <3>6. ASSUME NEW s \in {"pending", "failed", req[p].status}, SavesAs(p, s)
          PROVE  txn'[req[q].txn].meta = {}
      <4>1. txn' = [txn EXCEPT ![own] = [status |-> s, meta |-> req[p].meta]]
        BY <3>6 DEF SavesAs, Save
      <4>2. q = p => req[p].meta = {}
        BY <2>2, <3>2 DEF Sound
      <4> QED BY <3>1, <3>3, <3>4, <4>1, <4>2 DEF TypeOK
    <3>7. ASSUME NEW keys \in SUBSET {"fulfilled", "fulfillmentError"}, Marks(p, keys)
          PROVE  txn'[req[q].txn].meta = {}
      <4>1. txn' = [txn EXCEPT ![own].meta = req[p].meta \cup keys]
        BY <3>7 DEF Marks, UpdateMeta
      <4>2. q = p => keys = {} /\ req[p].meta = {}
        <5>1. q = p => ~End(p)
          BY <2>7 DEF End, Idle, TypeOK
        <5> QED BY <2>2, <3>2, <3>7, <5>1 DEF Marks, Sound
      <4> QED BY <3>1, <3>3, <3>4, <4>1, <4>2 DEF TypeOK, TxnRow
    <3>8. CASE CancelUpdate(p) \/ Insert(p) \/ FreeInsert(p) \/ Claim(p) \/ RefundClaim(p)
      <4>1. CASE CancelUpdate(p)
        BY <3>1, <3>3, <4>1, CancelRows
      <4>2. CASE Insert(p) \/ FreeInsert(p) \/ Claim(p) \/ RefundClaim(p)
        <5>0. PICK s \in {"pending", "success", "refunded"} :
                  txn' = txn \/ txn' = [txn EXCEPT ![own].status = s]
          BY <4>2 DEF Insert, FreeInsert, Claim, RefundClaim
        <5>1. ASSUME NEW x \in Txn PROVE txn'[x].meta = txn[x].meta
          BY <2>2, <5>0, StatusOnly DEF TxnStatus
        <5> QED BY <3>1, <3>3, <5>1
      <4> QED BY <3>8, <4>1, <4>2
    <3>9. CASE FreeFail(p)
      <4>1. q # p
        BY <2>7, <3>9 DEF FreeFail, End, Idle, TypeOK
      <4> QED BY <3>1, <3>3, <3>4, <3>9, <4>1 DEF FreeFail, TypeOK
    <3> QED BY <1>1, <3>1, <3>5, <3>6, <3>7, <3>8, <3>9, RowSteps
  <2> QED BY <2>6, <2>7 DEF FreshRows
<1>2. ASSUME NEW p \in Proc, NEW r \in Request, Arrives(p, r) PROVE FreshRows'
  <2>1. /\ req' = [req EXCEPT ![p] = r] /\ money' = money /\ txn' = txn /\ Comes(r) /\ r.txn \in Txn
    BY <1>2 DEF Arrives
  <2>2. txn[r.txn].status = "none" => r.pc \in BeforeInsert
    BY <2>1 DEF Comes, FreshRows, BeforeInsert
  <2>3. Unopened(r.txn) => txn[r.txn].meta = {}
    BY <2>1 DEF Comes, FreshRows
  <2>4. ASSUME NEW q \in Proc PROVE req'[q] = IF q = p THEN r ELSE req[q]
    BY <2>1 DEF TypeOK
  <2> QED BY <2>1, <2>2, <2>3, <2>4 DEF FreshRows, Unopened
<1>3. ASSUME UNCHANGED txn, \A x \in Txn : Unopened(x)' <=> Unopened(x),
             \A q \in Proc : req'[q] = req[q] \/ req'[q].pc = "idle"
      PROVE  FreshRows'
  <2>1. \A q \in Proc : req[q].pc # "idle" => req[q].txn \in Txn
    BY DEF TypeOK
  <2>2. ASSUME NEW q \in Proc, req'[q].pc # "idle", Unopened(req[q].txn)'
        PROVE  req[q].pc # "idle" /\ req'[q].txn = req[q].txn /\ Unopened(req[q].txn)
    BY <1>3, <2>1, <2>2 DEF Unopened
  <2> QED BY <1>3, <2>1, <2>2 DEF FreshRows
<1>4. ASSUME NEW p \in Proc, Crash(p) PROVE FreshRows'
  BY <1>3, <1>4 DEF Crash, End, Idle, Unopened, TypeOK
<1>5. ASSUME NEW x \in Txn, Pay(x) \/ Lapse(x) PROVE FreshRows'
  <2>1. UNCHANGED <<txn, req>> /\ \A y \in Txn : Unopened(y)' <=> Unopened(y)
    BY <1>5 DEF Pay, Lapse, Unopened, TypeOK
  <2> QED BY <1>3, <2>1
<1>6. CASE UNCHANGED vars
  BY <1>3, <1>6 DEF vars, Unopened
<1> QED BY <1>0, <1>1, <1>2, <1>4, <1>5, <1>6, Arrival DEF Next

(***************************************************************************)
(* What was paid is delivered or noted                                     *)
(***************************************************************************)
\* An entity knows no more than the row it was read from, unless the row was overwritten.
MetaKnown ==
    \A p \in Proc : req[p].pc # "idle" =>
        req[p].txn \in overwritten \/ req[p].meta \subseteq txn[req[p].txn].meta

\* The steps of a request that has claimed its transaction.
Finishing == {"redeem", "grantFind", "grantWrite", "mark", "markError",
              "freeReserve", "freeRedeem", "freeUndo", "freeFail"}

\* A SUCCESS transaction has a note, a request that is going to write one, or a mishap.
Finished ==
    \A t \in Txn : txn[t].status = "success" =>
        \/ txn[t].meta # {}
        \/ t \in overwritten \cup crashed
        \/ \E p \in Proc : req[p].txn = t /\ req[p].pc \in Finishing


LEMMA MetaGrows ==
    ASSUME TypeOK, NEW p \in Proc, Continue(p), NEW t \in Txn
    PROVE  /\ overwritten \subseteq overwritten'
           /\ \/ t \in overwritten' \/ txn[t].meta \subseteq txn'[t].meta
              \/ FreeFail(p) /\ req[p].txn = t
<1> DEFINE own == req[p].txn
<1>0. own \in Txn
  BY Busily
<1>1. CASE UNCHANGED <<txn, overwritten>>
  BY <1>1
<1>2. ASSUME NEW s \in {"pending", "failed", req[p].status}, SavesAs(p, s)
      PROVE  overwritten \subseteq overwritten' /\ (t \in overwritten' \/ txn[t].meta \subseteq txn'[t].meta)
  BY <1>0, <1>2 DEF SavesAs, Save, IsStale, TypeOK
<1>3. ASSUME NEW keys \in SUBSET {"fulfilled", "fulfillmentError"}, Marks(p, keys)
      PROVE  overwritten \subseteq overwritten' /\ (t \in overwritten' \/ txn[t].meta \subseteq txn'[t].meta)
  <2>1. UpdateMeta(p, keys)
    BY <1>3 DEF Marks
  <2>2. IF t = own THEN txn'[t].meta = req[p].meta \cup keys ELSE txn'[t] = txn[t]
    BY <1>0, <2>1, MetaOnly
  <2> QED BY <2>1, <2>2 DEF UpdateMeta
<1>4. CASE CancelUpdate(p)
  <2>1. txn'[t].meta = txn[t].meta
    BY <1>4, CancelRows
  <2>2. overwritten \subseteq overwritten'
    BY <1>4 DEF CancelUpdate
  <2> QED BY <2>1, <2>2
<1>5. CASE Insert(p) \/ FreeInsert(p) \/ Claim(p) \/ RefundClaim(p)
  <2>1. overwritten' = overwritten
    BY <1>5 DEF Insert, FreeInsert, Claim, RefundClaim, history
  <2>2. PICK s \in {"pending", "success", "refunded"} :
            txn' = txn \/ txn' = [txn EXCEPT ![own].status = s]
    BY <1>5 DEF Insert, FreeInsert, Claim, RefundClaim
  <2>3. txn'[t].meta = txn[t].meta
    BY <1>0, <2>2, StatusOnly DEF TxnStatus
  <2> QED BY <2>1, <2>3
<1>6. CASE FreeFail(p)
  BY <1>0, <1>6 DEF FreeFail, history, TypeOK
<1> QED BY <1>1, <1>2, <1>3, <1>4, <1>5, <1>6, RowSteps

LEMMA MetaStep ==
    ASSUME TypeOK, Placed, FreshRows, MetaKnown, [Next]_vars
    PROVE  MetaKnown'
<1>0. AllSound /\ FreeUnopened /\ Alone
  BY DEF Placed
<1>1. ASSUME NEW p \in Proc, Continue(p) PROVE MetaKnown'
  <2>1. PICK r \in Request : SoundlyBecomes(p, r)
    BY <1>0, <1>1, ContinuesSoundly
  <2>2. req[p].pc # "idle" /\ req[p].txn \in Txn /\ Sound(req[p])
    BY <1>0, <1>1, Busily DEF AllSound
  <2> SUFFICES ASSUME NEW q \in Proc, req'[q].pc # "idle"
               PROVE  req'[q].txn \in overwritten' \/ req'[q].meta \subseteq txn'[req'[q].txn].meta
    BY DEF MetaKnown
  <2>3. req[q].pc # "idle" /\ req'[q].txn = req[q].txn /\ req'[q].meta = req[q].meta
    BY <2>1, <2>2 DEF SoundlyBecomes, TypeOK
  <2>4. req[q].txn \in Txn /\ (req[q].txn \in overwritten \/ req[q].meta \subseteq txn[req[q].txn].meta)
    BY <2>3 DEF MetaKnown, TypeOK
  <2>5. ~(FreeFail(p) /\ req[p].txn = req[q].txn)
    <3> SUFFICES ASSUME FreeFail(p), req[p].txn = req[q].txn PROVE FALSE
      OBVIOUS
    <3>1. q # p
      BY DEF FreeFail, End, Idle, TypeOK
    <3>2. Unopened(req[p].txn)
      BY <2>2 DEF FreeFail, Sound, CheckoutSteps
    <3> QED BY <1>0, <2>2, <2>3, <3>1, <3>2 DEF Alone
  <2>6. PICK t \in Txn : t = req[q].txn
    BY <2>4
  <2>7. overwritten \subseteq overwritten' /\ (t \in overwritten' \/ txn[t].meta \subseteq txn'[t].meta)
    BY <1>1, <2>5, <2>6, MetaGrows
  <2> QED BY <2>3, <2>4, <2>6, <2>7
<1>2. ASSUME NEW p \in Proc, NEW r \in Request, Arrives(p, r) PROVE MetaKnown'
  <2>1. /\ req' = [req EXCEPT ![p] = r] /\ txn' = txn /\ overwritten' = overwritten
        /\ r.meta \subseteq txn[r.txn].meta
    BY <1>2 DEF Arrives, Comes
  <2> QED BY <2>1 DEF MetaKnown, TypeOK
<1>3. ASSUME NEW p \in Proc, Crash(p) PROVE MetaKnown'
  BY <1>3 DEF Crash, End, Idle, MetaKnown, TypeOK
<1>4. ASSUME NEW x \in Txn, Pay(x) \/ Lapse(x) PROVE MetaKnown'
  BY <1>4 DEF Pay, Lapse, history, MetaKnown
<1>5. CASE UNCHANGED vars
  BY <1>5 DEF vars, MetaKnown
<1> QED BY <1>0, <1>1, <1>2, <1>3, <1>4, <1>5, Arrival DEF Next

\* A request that has claimed goes on until it writes its note.
LEMMA FinishingGoes ==
    ASSUME TypeOK, Placed, NEW p \in Proc, Continue(p), req[p].pc \in Finishing
    PROVE  \/ req'[p].pc \in Finishing /\ req'[p].txn = req[p].txn
           \/ \E keys \in SUBSET {"fulfilled", "fulfillmentError"} : keys # {} /\ Marks(p, keys)
           \/ FreeFail(p)
<1>0. req \in [Proc -> Request] /\ req[p] \in Request
  BY DEF TypeOK
<1>1. \/ FreePromo(p) \/ FreeUndo(p) \/ FreeFail(p) \/ Redeem(p) \/ GrantFind(p) \/ GrantWrite(p)
      \/ Throw(p) \/ Mark(p) \/ MarkError(p)
  BY DEF Finishing, Continue, CancelFind, CancelRelease, CancelUpdate, Insert, Reserve, ReserveRefused,
     Initiate, InitiateFails, AbortRelease, AbortSave, FreeInsert, HookSave, FailRelease, FailSave,
     Claim, RefundClaim, RefundRevoke, RefundMark, RefundReverse
<1>2. ASSUME NEW s \in Finishing, Goto(p, s)
      PROVE  req'[p].pc \in Finishing /\ req'[p].txn = req[p].txn
  BY <1>0, <1>2 DEF Goto, Request
<1>3. CASE FreePromo(p) \/ FreeUndo(p) \/ Redeem(p) \/ GrantWrite(p) \/ Throw(p)
  <2>1. \E s \in Finishing : Goto(p, s)
    BY <1>3 DEF FreePromo, FreeUndo, Redeem, GrantWrite, Throw, Finishing
  <2> QED BY <1>2, <2>1
<1>4. CASE GrantFind(p)
  <2>1. CASE Kind(req[p].txn) = "course"
    <3> DEFINE look == enrollment[Holder(req[p].txn)]
               step == IF look = "active" THEN "mark" ELSE "grantWrite"
    <3>1. req' = [req EXCEPT ![p] = [req[p] EXCEPT !.look = look, !.pc = step]]
      BY <1>4, <2>1 DEF GrantFind
    <3>2. step \in Finishing
      BY DEF Finishing
    <3> HIDE DEF look, step
    <3> QED BY <1>0, <3>1, <3>2 DEF Request
  <2>2. CASE Kind(req[p].txn) # "course"
    <3>1. \E s \in Finishing : Goto(p, s)
      BY <1>4, <2>2 DEF GrantFind, Finishing
    <3> QED BY <1>2, <3>1
  <2> QED BY <2>1, <2>2
<1>5. CASE Mark(p) \/ MarkError(p)
  <2>1. Marks(p, {"fulfilled"}) \/ Marks(p, {"fulfillmentError"})
    BY <1>5 DEF Mark, MarkError, Marks
  <2> QED BY <2>1
<1> QED BY <1>1, <1>3, <1>4, <1>5

\* How a row becomes SUCCESS.
LEMMA BecomesSuccess ==
    ASSUME TypeOK, MetaKnown, NEW p \in Proc, Continue(p), NEW t \in Txn,
           txn[t].status # "success", txn'[t].status = "success"
    PROVE  /\ req[p].txn = t
           /\ \/ t \in overwritten' \/ txn'[t].meta # {}
              \/ req'[p].pc \in Finishing /\ req'[p].txn = t
<1> DEFINE own == req[p].txn
<1>0. own \in Txn /\ req[p] \in Request /\ req[p].pc # "idle"
  BY Busily DEF TypeOK
<1>1. CASE UNCHANGED <<txn, overwritten>>
  BY <1>1
<1>2. ASSUME NEW s \in {"pending", "failed", req[p].status}, SavesAs(p, s)
      PROVE  own = t /\ t \in overwritten'
  BY <1>0, <1>2 DEF SavesAs, Save, IsStale, TypeOK
<1>3. ASSUME NEW keys \in SUBSET {"fulfilled", "fulfillmentError"}, Marks(p, keys) PROVE FALSE
  <2>1. UpdateMeta(p, keys)
    BY <1>3 DEF Marks
  <2>2. txn'[t].status = txn[t].status
    BY <1>0, <2>1, MetaOnly
  <2> QED BY <2>2
<1>4. CASE CancelUpdate(p)
  <2>1. txn'[t] = txn[t] \/ txn'[t].status = "failed"
    BY <1>4, CancelRows
  <2> QED BY <2>1
<1>5. CASE Insert(p) \/ RefundClaim(p)
  <2>1. PICK s \in {"pending", "refunded"} :
            txn' = txn \/ txn' = [txn EXCEPT ![own].status = s]
    BY <1>5 DEF Insert, RefundClaim
  <2>2. txn'[t] = txn[t] \/ txn'[t].status = s
    BY <1>0, <2>1, StatusOnly DEF TxnStatus
  <2> QED BY <2>2
<1>6. CASE FreeInsert(p)
  <2>3. txn' = [txn EXCEPT ![own].status = "success"] /\ "success" \in TxnStatus
    BY <1>6 DEF FreeInsert, TxnStatus
  <2>1. own = t
    BY <1>0, <2>3, StatusOnly
  <2>2. PICK e \in Request : req' = [req EXCEPT ![p] = e] /\ e.txn = own /\ e.pc \in {"freeReserve", "grantFind"}
    BY <1>6, FreeInsertTo DEF TypeOK, ReqOK
  <2>4. req'[p].pc \in {"freeReserve", "grantFind"} /\ req'[p].txn = own
    BY <2>2 DEF TypeOK
  <2> QED BY <2>1, <2>4 DEF Finishing
<1>7. CASE FreeFail(p)
  BY <1>0, <1>7 DEF FreeFail, TypeOK
<1>8. CASE Claim(p)
  <2>1. txn' = txn \/ txn' = [txn EXCEPT ![own].status = "success"]
    BY <1>8 DEF Claim
  <2>2. own = t /\ txn'[t].meta = txn[t].meta
    BY <1>0, <2>1, StatusOnly DEF TxnStatus
  <2>3. CASE "fulfilled" \in req[p].meta
    <3>1. overwritten' = overwritten
      BY <1>8 DEF Claim
    <3>2. t \in overwritten \/ "fulfilled" \in txn[t].meta
      BY <1>0, <2>2, <2>3 DEF MetaKnown
    <3> QED BY <2>2, <3>1, <3>2
  <2>4. CASE "fulfilled" \notin req[p].meta
    <3>1. PICK s \in {"redeem", "grantFind"} : Goto(p, s)
      BY <1>8, <2>2, <2>4 DEF Claim
    <3>2. req'[p].pc = s /\ req'[p].txn = own
      BY <1>0, <3>1 DEF Goto, Request, TypeOK
    <3> QED BY <2>2, <3>2 DEF Finishing
  <2> QED BY <2>3, <2>4
<1> QED BY <1>1, <1>2, <1>3, <1>4, <1>5, <1>6, <1>7, <1>8, RowSteps

LEMMA FinishedStep ==
    ASSUME TypeOK, Placed, FreshRows, MetaKnown, Finished, [Next]_vars
    PROVE  Finished'
<1>0. AllSound /\ FreeUnopened /\ Alone
  BY DEF Placed
<1>1. ASSUME NEW p \in Proc, Continue(p) PROVE Finished'
  <2>1. PICK r \in Request : SoundlyBecomes(p, r)
    BY <1>0, <1>1, ContinuesSoundly
  <2>2. crashed' = crashed
    BY <1>1, RowSteps
  <2> SUFFICES ASSUME NEW t \in Txn, txn'[t].status = "success"
               PROVE  \/ txn'[t].meta # {} \/ t \in overwritten' \cup crashed'
                      \/ \E q \in Proc : req'[q].txn = t /\ req'[q].pc \in Finishing
    BY DEF Finished
  <2>3. CASE txn[t].status # "success"
    BY <1>1, <2>3, BecomesSuccess
  <2>4. CASE txn[t].status = "success"
    <3>1. ~(FreeFail(p) /\ req[p].txn = t)
      BY DEF FreeFail, TypeOK
    <3>2. overwritten \subseteq overwritten' /\ (t \in overwritten' \/ txn[t].meta \subseteq txn'[t].meta)
      BY <1>1, <3>1, MetaGrows
    <3>3. CASE txn[t].meta # {} \/ t \in overwritten \cup crashed
      BY <2>2, <3>2, <3>3
    <3>4. ASSUME NEW q \in Proc, req[q].txn = t, req[q].pc \in Finishing, q # p
          PROVE  req'[q].txn = t /\ req'[q].pc \in Finishing
      BY <2>1, <3>4 DEF SoundlyBecomes, TypeOK
    <3>5. CASE req[p].txn = t /\ req[p].pc \in Finishing
      <4>1. ASSUME NEW keys \in SUBSET {"fulfilled", "fulfillmentError"}, keys # {}, Marks(p, keys)
            PROVE  txn'[t].meta # {}
        <5>1. UpdateMeta(p, keys)
          BY <4>1 DEF Marks
        <5>2. txn'[t].meta = req[p].meta \cup keys
          BY <3>5, <5>1, MetaOnly
        <5> QED BY <4>1, <5>2
      <4> QED BY <1>1, <3>1, <3>5, <4>1, FinishingGoes
    <3> QED BY <2>4, <3>3, <3>4, <3>5 DEF Finished
  <2> QED BY <2>3, <2>4
<1>2. ASSUME NEW p \in Proc, NEW r \in Request, Arrives(p, r) PROVE Finished'
  <2>1. /\ req' = [req EXCEPT ![p] = r] /\ req[p].pc = "idle"
        /\ UNCHANGED <<txn, overwritten, crashed>>
    BY <1>2 DEF Arrives
  <2>2. ASSUME NEW q \in Proc, req[q].pc \in Finishing PROVE req'[q] = req[q]
    BY <2>1, <2>2 DEF Finishing, TypeOK
  <2> QED BY <2>1, <2>2 DEF Finished
<1>3. ASSUME NEW p \in Proc, Crash(p) PROVE Finished'
  <2>1. /\ req' = [req EXCEPT ![p] = Idle] /\ UNCHANGED <<txn, overwritten>>
        /\ crashed' = crashed \cup {req[p].txn}
    BY <1>3 DEF Crash, End
  <2>2. ASSUME NEW q \in Proc, NEW t \in Txn, req[q].txn = t, req[q].pc \in Finishing
        PROVE  t \in crashed' \/ (req'[q].txn = t /\ req'[q].pc \in Finishing)
    BY <2>1, <2>2 DEF TypeOK
  <2>3. crashed \subseteq crashed'
    BY <2>1
  <2> QED BY <2>1, <2>2, <2>3 DEF Finished
<1>4. ASSUME NEW x \in Txn, Pay(x) \/ Lapse(x) PROVE Finished'
  BY <1>4 DEF Pay, Lapse, history, Finished
<1>5. CASE UNCHANGED vars
  BY <1>5 DEF vars, Finished
<1> QED BY <1>0, <1>1, <1>2, <1>3, <1>4, <1>5, Arrival DEF Next

(***************************************************************************)
(* What was claimed stays claimed                                          *)
(***************************************************************************)
\* The row says that it was paid, or would if nothing stale had been saved over it.
Firm(t) == txn[t].status \in {"success", "refunded"} \/ t \in overwritten

RefundedRows ==
    \A t \in Txn : txn[t].status = "refunded" => money[t] = "refunded" \/ t \in overwritten

Claimed ==
    \A t \in Txn : fulfilments[t] > 0 => ~Unopened(t) /\ Paid(t) /\ Firm(t)

\* A promo code is used up by a transaction that is, and a free checkout that is about
\* to write FAILED has given it back.
Redeemed ==
    /\ \A t \in Txn : redemption[t] = "completed" => Paid(t) /\ Firm(t)
    /\ \A p \in Proc : req[p].pc \in {"redeem", "freeReserve", "freeRedeem"} => Firm(req[p].txn)
    /\ \A p \in Proc : req[p].pc = "freeFail" => redemption[req[p].txn] # "completed"

LEMMA RefundStays ==
    ASSUME TypeOK, Placed, [Next]_vars, NEW t \in Txn
    PROVE  /\ money[t] = "refunded" => money'[t] = "refunded"
           /\ ~Unopened(t) => ~Unopened(t)'
<1>1. CASE money' = money
  BY <1>1 DEF Unopened
<1>2. ASSUME NEW p \in Proc, Initiate(p)
      PROVE  /\ money[t] = "refunded" => money'[t] = "refunded"
             /\ ~Unopened(t) => ~Unopened(t)'
  <2>1. Sound(req[p]) /\ req[p].pc = "initiate"
    BY <1>2 DEF Placed, AllSound, Initiate
  <2>2. Unopened(req[p].txn)
    BY <2>1 DEF Sound, CheckoutSteps
  <2> QED BY <1>2, <2>2 DEF Initiate, Unopened, TypeOK
<1>3. ASSUME NEW x \in Txn, Pay(x)
      PROVE  /\ money[t] = "refunded" => money'[t] = "refunded"
             /\ ~Unopened(t) => ~Unopened(t)'
  BY <1>3 DEF Pay, Unopened, TypeOK
<1> QED BY <1>1, <1>2, <1>3, Frame

\* Nothing but the undoing of a free checkout, and a stale save, takes a status back from
\* a transaction that was paid.
LEMMA FirmStays ==
    ASSUME TypeOK, Placed, NEW p \in Proc, Continue(p), NEW t \in Txn, Paid(t), Firm(t),
           ~(FreeFail(p) /\ req[p].txn = t)
    PROVE  Firm(t)'
<1> DEFINE own == req[p].txn
<1>0. own \in Txn /\ req[p] \in Request /\ req[p].pc # "idle" /\ Sound(req[p])
  BY Busily DEF TypeOK, Placed, AllSound
<1>1. ASSUME own = t, req[p].pc \in OpenSteps PROVE FALSE
  <2>1. Unopened(t) /\ ~IsFree(t)
    BY <1>0, <1>1 DEF Sound, OpenSteps, Opening, CheckoutSteps
  <2> QED BY <2>1 DEF Paid, Unopened
<1>2. t \in overwritten => t \in overwritten'
  BY MetaGrows
<1>3. CASE t \in overwritten \/ UNCHANGED txn
  BY <1>2, <1>3 DEF Firm
<1>4. ASSUME NEW s \in {"pending", "failed", req[p].status}, SavesAs(p, s)
      PROVE  Firm(t)'
  <2>1. CASE own # t
    BY <1>0, <1>2, <1>4, <2>1 DEF SavesAs, Save, Firm, TypeOK
  <2>2. CASE own = t /\ IsStale(p)
    BY <1>4, <2>2 DEF SavesAs, Save, Firm
  <2>3. CASE own = t /\ ~IsStale(p)
    <3>1. txn[t].status = req[p].status
      BY <2>3 DEF IsStale
    <3>2. req[p].pc \in {"initiate", "abortSave"} => FALSE
      BY <1>1, <2>3 DEF OpenSteps, Opening
    <3>3. req[p].pc = "failSave" => t \in overwritten
      <4>1. money[t] = "wrong" => ~Paid(t)
        BY DEF Paid, Placed, FreeUnopened, Unopened
      <4> QED BY <1>0, <2>3, <3>1, <4>1 DEF Sound, Firm
    <3>4. req[p].pc = "hookSave" => Firm(t)'
      BY <1>2, <1>4, <2>3, <3>1 DEF SavesAs, Save, Firm, TypeOK
    <3> QED BY <1>3, <1>4, <3>2, <3>3, <3>4 DEF SavesAs
  <2> QED BY <2>1, <2>2, <2>3
<1>5. ASSUME NEW keys \in SUBSET {"fulfilled", "fulfillmentError"}, Marks(p, keys) PROVE Firm(t)'
  <2>1. UpdateMeta(p, keys)
    BY <1>5 DEF Marks
  <2>2. txn'[t].status = txn[t].status
    BY <1>0, <2>1, MetaOnly
  <2> QED BY <1>2, <2>2 DEF Firm
<1>6. CASE CancelUpdate(p)
  <2>1. CASE t \notin req[p].stale
    BY <1>2, <1>6, <2>1, CancelRows DEF Firm
  <2>2. CASE t \in req[p].stale
    BY <1>2, <1>6, <2>2 DEF CancelUpdate, Firm
  <2> QED BY <2>1, <2>2
<1>7. CASE Insert(p)
  <2>1. own # t
    BY <1>1, <1>7 DEF Insert, OpenSteps, Opening
  <2>2. txn' = [txn EXCEPT ![own].status = "pending"] /\ "pending" \in TxnStatus
    BY <1>7 DEF Insert, TxnStatus
  <2>3. txn'[t] = txn[t]
    BY <1>0, <2>1, <2>2, StatusOnly
  <2> QED BY <1>2, <2>3 DEF Firm
<1>8. CASE FreeInsert(p) \/ Claim(p) \/ RefundClaim(p)
  <2>1. PICK s \in {"success", "refunded"} : txn' = txn \/ txn' = [txn EXCEPT ![own].status = s]
    BY <1>8 DEF FreeInsert, Claim, RefundClaim
  <2>2. txn'[t] = txn[t] \/ txn'[t].status = s
    BY <1>0, <2>1, StatusOnly DEF TxnStatus
  <2> QED BY <1>2, <2>2 DEF Firm
<1>9. CASE FreeFail(p)
  BY <1>0, <1>2, <1>9 DEF FreeFail, Firm, TypeOK
<1> QED BY <1>3, <1>4, <1>5, <1>6, <1>7, <1>8, <1>9, RowSteps

LEMMA RefundedStep ==
    ASSUME TypeOK, Placed, FreshRows, RefundedRows, [Next]_vars
    PROVE  RefundedRows'
<1>1. ASSUME UNCHANGED <<txn, overwritten>> PROVE RefundedRows'
  BY <1>1, RefundStays DEF RefundedRows
<1>2. ASSUME NEW p \in Proc, Continue(p) PROVE RefundedRows'
  <2> DEFINE own == req[p].txn
  <2>0. own \in Txn /\ req[p] \in Request /\ req[p].pc # "idle" /\ Sound(req[p])
    BY <1>2, Busily DEF TypeOK, Placed, AllSound
  <2> SUFFICES ASSUME NEW t \in Txn, txn'[t].status = "refunded"
               PROVE  money[t] = "refunded" \/ t \in overwritten'
    BY RefundStays DEF RefundedRows
  <2>1. t \in overwritten => t \in overwritten'
    BY <1>2, MetaGrows
  <2>2. CASE txn[t].status = "refunded"
    BY <2>1, <2>2 DEF RefundedRows
  <2>3. ASSUME NEW s \in {"pending", "failed", req[p].status}, SavesAs(p, s), txn[t].status # "refunded"
        PROVE  t \in overwritten'
    BY <2>0, <2>3 DEF SavesAs, Save, IsStale, TypeOK
  <2>4. ASSUME NEW keys \in SUBSET {"fulfilled", "fulfillmentError"}, Marks(p, keys)
        PROVE  txn'[t].status = txn[t].status
    BY <2>0, <2>4, MetaOnly DEF Marks
  <2>5. CASE CancelUpdate(p) /\ txn[t].status # "refunded"
    BY <2>5, CancelRows
  <2>6. CASE Insert(p) \/ FreeInsert(p) \/ Claim(p)
    <3>1. PICK s \in {"pending", "success"} : txn' = txn \/ txn' = [txn EXCEPT ![own].status = s]
      BY <2>6 DEF Insert, FreeInsert, Claim
    <3>2. txn'[t] = txn[t] \/ txn'[t].status = s
      BY <2>0, <3>1, StatusOnly DEF TxnStatus
    <3> QED BY <2>2, <3>2
  <2>7. CASE FreeFail(p)
    BY <2>0, <2>2, <2>7 DEF FreeFail, TypeOK
  <2>8. CASE RefundClaim(p)
    <3>1. money[own] = "refunded"
      BY <2>0, <2>8 DEF RefundClaim, Sound, RefundSteps
    <3>2. txn' = txn \/ txn' = [txn EXCEPT ![own].status = "refunded"]
      BY <2>8 DEF RefundClaim
    <3>3. t = own \/ txn'[t] = txn[t]
      BY <2>0, <3>2, StatusOnly DEF TxnStatus
    <3> QED BY <2>2, <3>1, <3>3
  <2>9. CASE UNCHANGED txn
    BY <2>2, <2>9
  <2> QED BY <1>2, <2>2, <2>3, <2>4, <2>5, <2>6, <2>7, <2>8, <2>9, RowSteps
<1>3. ASSUME NEW p \in Proc, NEW r \in Request, Arrives(p, r) PROVE RefundedRows'
  BY <1>1, <1>3 DEF Arrives
<1>4. ASSUME NEW p \in Proc, Crash(p) PROVE RefundedRows'
  BY <1>1, <1>4 DEF Crash
<1>5. ASSUME NEW x \in Txn, Pay(x) \/ Lapse(x) PROVE RefundedRows'
  BY <1>1, <1>5 DEF Pay, Lapse, history
<1>6. CASE UNCHANGED vars
  BY <1>1, <1>6 DEF vars
<1> QED BY <1>2, <1>3, <1>4, <1>5, <1>6, Arrival DEF Next, Placed

\* A transaction is claimed by a request of its own, when it is not SUCCESS.
LEMMA Claims ==
    ASSUME TypeOK, NEW p \in Proc, Continue(p), NEW t \in Txn, fulfilments'[t] # fulfilments[t]
    PROVE  /\ Claim(p) /\ req[p].txn = t /\ txn[t].status # "success" /\ txn'[t].status = "success"
           /\ fulfilments'[t] > 1 => fulfilments[t] > 0
<1>1. Claim(p)
  BY RowSteps
<1>2. req[p].txn \in Txn
  BY Busily
<1>3. /\ fulfilments' # fulfilments => txn[req[p].txn].status # "success"
      /\ txn[req[p].txn].status # "success" => txn' = [txn EXCEPT ![req[p].txn].status = "success"]
      /\ \/ fulfilments' = fulfilments
         \/ fulfilments' = [fulfilments EXCEPT ![req[p].txn] = IF @ < 2 THEN @ + 1 ELSE 2]
  BY <1>1 DEF Claim
<1>4. /\ req[p].txn = t
      /\ fulfilments'[t] > 1 => fulfilments[t] > 0
  BY <1>2, <1>3 DEF TypeOK
<1>5. txn'[t].status = "success"
  BY <1>2, <1>3, <1>4, StatusOnly DEF TxnStatus
<1> QED BY <1>1, <1>3, <1>4, <1>5

LEMMA ClaimedStep ==
    ASSUME IInv, Placed, FreshRows, Claimed, [Next]_vars
    PROVE  Claimed'
<1>0. TypeOK /\ EntitiesPaid /\ OpenedOnce
  BY DEF IInv
<1>1. ASSUME NEW t \in Txn, fulfilments[t] > 0,
             Paid(t) /\ Firm(t) => Firm(t)'
      PROVE  ~Unopened(t)' /\ Paid(t)' /\ Firm(t)'
  BY <1>0, <1>1, RefundStays, PaidStays DEF Claimed
<1>2. ASSUME NEW p \in Proc, Continue(p) PROVE Claimed'
  <2>0. req[p].txn \in Txn /\ req[p].pc # "idle" /\ Sound(req[p]) /\ RequestPaid(req[p])
    BY <1>0, <1>2, Busily DEF Placed, AllSound, EntitiesPaid
  <2> SUFFICES ASSUME NEW t \in Txn, fulfilments'[t] > 0
               PROVE  ~Unopened(t)' /\ Paid(t)' /\ Firm(t)'
    BY DEF Claimed
  <2>1. CASE fulfilments'[t] = fulfilments[t]
    <3>1. ~Unopened(t)
      BY <2>1 DEF Claimed
    <3>2. ~(FreeFail(p) /\ req[p].txn = t)
      BY <2>0, <3>1 DEF FreeFail, Sound, CheckoutSteps
    <3> QED BY <1>0, <1>1, <1>2, <2>1, <3>2, FirmStays
  <2>2. CASE fulfilments'[t] # fulfilments[t]
    <3>1. Claim(p) /\ req[p].txn = t /\ txn'[t].status = "success"
      BY <1>0, <1>2, <2>2, Claims
    <3>2. ~Unopened(t) /\ Paid(t)
      BY <2>0, <3>1 DEF Claim, Sound, LateSteps, FulfilSteps, RequestPaid, Granting
    <3> QED BY <1>0, <3>1, <3>2, RefundStays, PaidStays DEF Firm
  <2> QED BY <2>1, <2>2
<1>3. ASSUME UNCHANGED <<txn, overwritten, fulfilments>> PROVE Claimed'
  BY <1>1, <1>3 DEF Firm, Claimed
<1>4. ASSUME NEW p \in Proc, NEW r \in Request, Arrives(p, r) PROVE Claimed'
  BY <1>3, <1>4 DEF Arrives
<1>5. ASSUME NEW p \in Proc, Crash(p) PROVE Claimed'
  BY <1>3, <1>5 DEF Crash
<1>6. ASSUME NEW x \in Txn, Pay(x) \/ Lapse(x) PROVE Claimed'
  BY <1>3, <1>6 DEF Pay, Lapse, history
<1>7. CASE UNCHANGED vars
  BY <1>3, <1>7 DEF vars
<1> QED BY <1>0, <1>2, <1>4, <1>5, <1>6, <1>7, Arrival DEF Next, Placed

LEMMA OnceStep ==
    ASSUME IInv, Placed, FreshRows, RefundedRows, Claimed, FulfilledOnceUnlessOverwritten, [Next]_vars
    PROVE  FulfilledOnceUnlessOverwritten'
<1>0. TypeOK
  BY DEF IInv
<1>1. ASSUME fulfilments' = fulfilments, overwritten \subseteq overwritten'
      PROVE  FulfilledOnceUnlessOverwritten'
  BY <1>0, <1>1, RefundStays DEF FulfilledOnceUnlessOverwritten
<1>2. ASSUME NEW p \in Proc, Continue(p) PROVE FulfilledOnceUnlessOverwritten'
  <2> SUFFICES ASSUME NEW t \in Txn, fulfilments'[t] > 1
               PROVE  t \in overwritten' \/ money'[t] = "refunded"
    BY DEF FulfilledOnceUnlessOverwritten
  <2>1. t \in overwritten => t \in overwritten'
    BY <1>0, <1>2, MetaGrows
  <2>2. t \in overwritten \/ money[t] = "refunded"
    <3>1. CASE fulfilments'[t] = fulfilments[t]
      BY <3>1 DEF FulfilledOnceUnlessOverwritten
    <3>2. CASE fulfilments'[t] # fulfilments[t]
      <4>1. fulfilments[t] > 0 /\ txn[t].status # "success"
        BY <1>0, <1>2, <3>2, Claims
      <4> QED BY <4>1 DEF Claimed, Firm, RefundedRows
    <3> QED BY <3>1, <3>2
  <2> QED BY <1>0, <2>1, <2>2, RefundStays
<1>3. ASSUME NEW p \in Proc, NEW r \in Request, Arrives(p, r) PROVE FulfilledOnceUnlessOverwritten'
  BY <1>1, <1>3 DEF Arrives
<1>4. ASSUME NEW p \in Proc, Crash(p) PROVE FulfilledOnceUnlessOverwritten'
  BY <1>1, <1>4 DEF Crash
<1>5. ASSUME NEW x \in Txn, Pay(x) \/ Lapse(x) PROVE FulfilledOnceUnlessOverwritten'
  BY <1>1, <1>5 DEF Pay, Lapse, history
<1>6. CASE UNCHANGED vars
  BY <1>1, <1>6 DEF vars
<1> QED BY <1>0, <1>2, <1>3, <1>4, <1>5, <1>6, Arrival DEF Next, Placed

(***************************************************************************)
(* Promo codes used up                                                     *)
(***************************************************************************)
LEMMA PromoSteps ==
    ASSUME TypeOK, NEW p \in Proc, Continue(p), NEW t \in Txn
    PROVE  /\ redemption[t] # "completed" /\ redemption'[t] = "completed" =>
                  req[p].txn = t /\ req[p].pc \in {"redeem", "freeRedeem"}
           /\ redemption[t] = "completed" /\ redemption'[t] # "completed" =>
                  req[p].txn = t /\ (FreeUndo(p) \/ RefundReverse(p))
           /\ req[p].txn = t /\ FreeUndo(p) => redemption'[t] # "completed"
           /\ req[p].txn = t /\ (Redeem(p) \/ (FreePromo(p) /\ req[p].pc = "freeRedeem")) =>
                  redemption'[t] = "completed"
<1> DEFINE own == req[p].txn
<1>0. own \in Txn /\ redemption \in [Txn -> Ledger!Status]
  BY Busily DEF TypeOK
<1>1. CASE UNCHANGED promo /\ ~Redeem(p) /\ ~FreeUndo(p) /\ ~FreePromo(p)
  BY <1>1 DEF promo
<1>2. ASSUME NEW S \in SUBSET Txn, Ledger!Release(S)
      PROVE  redemption[t] = "completed" <=> redemption'[t] = "completed"
  BY <1>0, <1>2 DEF Ledger!Release
<1>3. CASE CancelRelease(p)
  <2>1. {x \in req[p].stale : redemption[x] = "reserved"} \in SUBSET Txn
    BY DEF TypeOK, Request
  <2>2. redemption[t] = "completed" <=> redemption'[t] = "completed"
    BY <1>2, <1>3, <2>1 DEF CancelRelease
  <2>3. ~Redeem(p) /\ ~FreeUndo(p) /\ ~FreePromo(p)
    BY <1>3 DEF CancelRelease, Redeem, FreeUndo, FreePromo
  <2> QED BY <2>2, <2>3
<1>4. CASE AbortRelease(p) \/ FailRelease(p)
  <2>1. Ledger!Release({own}) \/ UNCHANGED promo
    BY <1>4 DEF AbortRelease, FailRelease, GiveBack
  <2>2. redemption[t] = "completed" <=> redemption'[t] = "completed"
    BY <1>0, <1>2, <2>1 DEF promo
  <2>3. ~Redeem(p) /\ ~FreeUndo(p) /\ ~FreePromo(p)
    BY <1>4 DEF AbortRelease, FailRelease, Redeem, FreeUndo, FreePromo
  <2> QED BY <2>2, <2>3
<1>5. CASE Reserve(p)
  <2>1. redemption[own] = "none" /\ redemption' = [redemption EXCEPT ![own] = "reserved"]
    BY <1>5 DEF Reserve, Ledger!Admit
  <2>2. ~Redeem(p) /\ ~FreeUndo(p) /\ ~FreePromo(p)
    BY <1>5 DEF Reserve, Redeem, FreeUndo, FreePromo
  <2> QED BY <1>0, <2>1, <2>2
<1>6. CASE FreePromo(p)
  <2>1. CASE req[p].pc = "freeReserve"
    <3>1. redemption[own] = "none" /\ redemption' = [redemption EXCEPT ![own] = "reserved"]
      BY <1>6, <2>1 DEF FreePromo, Ledger!Admit
    <3>2. ~Redeem(p) /\ ~FreeUndo(p)
      BY <2>1 DEF Redeem, FreeUndo
    <3> QED BY <1>0, <2>1, <3>1, <3>2
  <2>2. CASE req[p].pc = "freeRedeem"
    <3>1. redemption' = [redemption EXCEPT ![own] = "completed"]
      BY <1>6, <2>2 DEF FreePromo, Ledger!Complete
    <3>2. ~Redeem(p) /\ ~FreeUndo(p)
      BY <2>2 DEF Redeem, FreeUndo
    <3> QED BY <1>0, <2>2, <3>1, <3>2
  <2> QED BY <1>6, <2>1, <2>2 DEF FreePromo
<1>7. CASE Redeem(p)
  <2>1. /\ req[p].pc = "redeem"
        /\ \/ redemption' = [redemption EXCEPT ![own] = "completed"]
           \/ redemption[own] = "completed" /\ redemption' = redemption
    BY <1>7 DEF Redeem, Ledger!Complete, Ledger!Admit, promo
  <2>2. ~FreeUndo(p) /\ ~FreePromo(p)
    BY <2>1 DEF FreeUndo, FreePromo
  <2> QED BY <1>0, <2>1, <2>2
<1>8. CASE FreeUndo(p) \/ RefundReverse(p)
  <2>1. \/ redemption' = [redemption EXCEPT ![own] = "reversed"]
        \/ redemption' = redemption /\ (FreeUndo(p) => redemption[own] # "completed")
    BY <1>8 DEF FreeUndo, RefundReverse, TakeBack, Ledger!Reverse, promo
  <2>2. ~Redeem(p) /\ ~FreePromo(p)
    BY <1>8 DEF Redeem, FreePromo, FreeUndo, RefundReverse
  <2> QED BY <1>0, <1>8, <2>1, <2>2
<1>9. CASE \/ CancelFind(p) \/ CancelUpdate(p) \/ Insert(p) \/ ReserveRefused(p) \/ Initiate(p)
           \/ InitiateFails(p) \/ AbortSave(p) \/ FreeInsert(p) \/ FreeFail(p)
  <2>1. ~Redeem(p) /\ ~FreeUndo(p) /\ ~FreePromo(p)
    BY <1>9 DEF CancelFind, CancelUpdate, Insert, ReserveRefused, Initiate, InitiateFails, AbortSave,
       FreeInsert, FreeFail, Redeem, FreeUndo, FreePromo
  <2> QED
    BY <1>1, <1>9, <2>1 DEF CancelFind, CancelUpdate, Insert, ReserveRefused, Initiate, InitiateFails,
       AbortSave, FreeInsert, FreeFail
<1>10. CASE \/ HookSave(p) \/ FailSave(p) \/ Claim(p) \/ GrantFind(p) \/ GrantWrite(p) \/ Throw(p)
            \/ Mark(p) \/ MarkError(p) \/ RefundClaim(p) \/ RefundRevoke(p) \/ RefundMark(p)
  <2>1. UNCHANGED promo
    BY <1>10 DEF HookSave, FailSave, Claim, GrantFind, GrantWrite, Throw, Mark, MarkError, RefundClaim,
       RefundRevoke, RefundMark
  <2>2. redemption' = redemption
    BY <2>1 DEF promo
  <2>3. ~FreeUndo(p) /\ ~Redeem(p) /\ ~FreePromo(p)
    BY <1>10 DEF HookSave, FailSave, Claim, GrantFind, GrantWrite, Throw, Mark, MarkError, RefundClaim,
       RefundRevoke, RefundMark, FreeUndo, Redeem, FreePromo, Goto, TypeOK, Request
  <2> QED BY <2>2, <2>3
<1> QED BY <1>3, <1>4, <1>5, <1>6, <1>7, <1>8, <1>9, <1>10 DEF Continue

\* The steps at which something is owed to the transaction, and who gets there.
Owing == {"redeem", "freeReserve", "freeRedeem", "freeFail", "grantFind", "grantWrite", "mark"}

LEMMA OwingSteps ==
    ASSUME TypeOK, NEW p \in Proc, Continue(p), req'[p].pc \in Owing
    PROVE  \/ /\ Claim(p) /\ txn'[req[p].txn].status = "success"
              /\ req'[p].pc = IF HasPromo(req[p].txn) THEN "redeem" ELSE "grantFind"
           \/ FreeInsert(p) /\ req'[p].pc = IF HasPromo(req[p].txn) THEN "freeReserve" ELSE "grantFind"
           \/ FreePromo(p) /\ req[p].pc = "freeReserve" /\ req'[p].pc = "freeRedeem"
           \/ FreePromo(p) /\ req[p].pc = "freeRedeem" /\ req'[p].pc = "grantFind"
           \/ FreeUndo(p) /\ req'[p].pc = "freeFail"
           \/ Redeem(p) /\ req'[p].pc = "grantFind"
           \/ GrantFind(p) /\ req'[p].pc \in {"grantWrite", "mark"}
           \/ GrantWrite(p) /\ req'[p].pc = "mark"
<1> DEFINE own == req[p].txn
<1>0. own \in Txn /\ req \in [Proc -> Request] /\ req[p] \in Request
  BY Busily DEF TypeOK
<1>1. ASSUME NEW s, Goto(p, s) PROVE req'[p].pc = s
  BY <1>0, <1>1 DEF Goto, Request
<1>2. ASSUME End(p) PROVE FALSE
  BY <1>0, <1>2 DEF End, Idle, Owing
<1>3. CASE \/ ReserveRefused(p) \/ Initiate(p) \/ AbortSave(p) \/ FreeFail(p) \/ FailSave(p)
           \/ Mark(p) \/ MarkError(p) \/ RefundReverse(p)
  BY <1>2, <1>3 DEF ReserveRefused, Initiate, AbortSave, FreeFail, FailSave, Mark, MarkError, RefundReverse
<1>4. CASE CancelFind(p)
  <2> DEFINE found == {x \in Txn : Holder(x) = Holder(req[p].txn) /\ txn[x].status = "pending"}
             step == IF found = {} THEN "insert" ELSE "cancelRelease"
  <2>1. req' = [req EXCEPT ![p] = [req[p] EXCEPT !.stale = found, !.pc = step]]
    BY <1>4 DEF CancelFind
  <2>2. step \notin Owing
    BY DEF Owing
  <2> HIDE DEF found, step
  <2> QED BY <1>0, <2>1, <2>2 DEF Request
<1>5. CASE CancelUpdate(p)
  <2> DEFINE e == [req[p] EXCEPT !.pc = "insert", !.stale = {}]
  <2>1. req' = [req EXCEPT ![p] = e] /\ e.pc = "insert"
    BY <1>0, <1>5 DEF CancelUpdate, Request
  <2> QED BY <1>0, <2>1 DEF Owing
<1>6. CASE \/ CancelRelease(p) \/ Insert(p) \/ Reserve(p) \/ AbortRelease(p)
           \/ FailRelease(p) \/ Throw(p) \/ RefundClaim(p) \/ RefundRevoke(p) \/ RefundMark(p)
  <2>1. \E s \in {"cancelUpdate", "reserve", "initiate", "abortRelease", "abortSave", "failSave",
                  "freeUndo", "markError", "refundRevoke", "refundMark", "refundReverse"} : Goto(p, s)
    BY <1>2, <1>6 DEF CancelRelease, Insert, Reserve, AbortRelease, FailRelease, Throw,
       RefundClaim, RefundRevoke, RefundMark
  <2> QED BY <1>1, <2>1 DEF Owing
<1>15. CASE InitiateFails(p)
  <2>1. ASSUME NEW r \in Request, req' = [req EXCEPT ![p] = r], r.pc \in {"abortRelease", "abortSave"}
        PROVE  FALSE
    BY <1>0, <2>1 DEF Owing
  <2> QED BY <1>2, <1>15, <2>1, InitiateFailsTo DEF TypeOK, ReqOK
<1>7. CASE HookSave(p)
  <2> DEFINE next == Reaction(req[p].txn, req[p].ev, req[p].status)
  <2>1. Goto(p, next)
    BY <1>2, <1>7 DEF HookSave
  <2>2. next \notin Owing
    BY DEF Reaction, Owing
  <2> HIDE DEF next
  <2> QED BY <1>1, <2>1, <2>2
<1>8. CASE FreeInsert(p)
  <2>1. PICK e \in Request : /\ req' = [req EXCEPT ![p] = e] /\ e.pc \in {"freeReserve", "grantFind"}
                             /\ e.pc = "freeReserve" <=> HasPromo(own)
    BY <1>0, <1>8, FreeInsertTo DEF TypeOK, ReqOK
  <2> QED BY <1>0, <1>8, <2>1
<1>9. CASE FreePromo(p)
  BY <1>1, <1>9 DEF FreePromo
<1>10. CASE FreeUndo(p)
  BY <1>1, <1>10 DEF FreeUndo
<1>11. CASE Redeem(p)
  BY <1>1, <1>11 DEF Redeem
<1>12. CASE GrantWrite(p)
  BY <1>1, <1>12 DEF GrantWrite
<1>13. CASE GrantFind(p)
  <2>1. CASE Kind(own) = "course"
    <3> DEFINE look == enrollment[Holder(req[p].txn)]
               step == IF look = "active" THEN "mark" ELSE "grantWrite"
    <3>1. req' = [req EXCEPT ![p] = [req[p] EXCEPT !.look = look, !.pc = step]]
      BY <1>13, <2>1 DEF GrantFind
    <3>2. step \in {"grantWrite", "mark"}
      OBVIOUS
    <3> HIDE DEF look, step
    <3> QED BY <1>0, <1>13, <3>1, <3>2 DEF Request
  <2>2. CASE Kind(own) # "course"
    <3>1. \E s \in {"grantWrite", "mark"} : Goto(p, s)
      BY <1>13, <2>2 DEF GrantFind
    <3> QED BY <1>1, <1>13, <3>1
  <2> QED BY <2>1, <2>2
<1>14. CASE Claim(p)
  <2>1. /\ txn[own].status # "success" /\ Goto(p, IF HasPromo(own) THEN "redeem" ELSE "grantFind")
        /\ txn' = [txn EXCEPT ![own].status = "success"]
    BY <1>2, <1>14 DEF Claim
  <2>2. txn'[own].status = "success"
    BY <1>0, <2>1, StatusOnly DEF TxnStatus
  <2>3. req'[p].pc = IF HasPromo(own) THEN "redeem" ELSE "grantFind"
    BY <1>1, <2>1
  <2> QED BY <1>14, <2>2, <2>3
<1> QED
  BY <1>3, <1>4, <1>5, <1>6, <1>7, <1>8, <1>9, <1>10, <1>11, <1>12, <1>13, <1>14, <1>15 DEF Continue

LEMMA RedeemedStep ==
    ASSUME IInv, Placed, FreshRows, Redeemed, [Next]_vars
    PROVE  Redeemed'
<1>0. TypeOK /\ EntitiesPaid /\ OpenedOnce /\ AllSound /\ FreeUnopened /\ Alone
  BY DEF IInv, Placed
<1>1. ASSUME NEW p \in Proc, Continue(p) PROVE Redeemed'
  <2> DEFINE own == req[p].txn
  <2>0. own \in Txn /\ req[p].pc # "idle" /\ Sound(req[p]) /\ RequestPaid(req[p])
    BY <1>0, <1>1, Busily DEF AllSound, EntitiesPaid
  <2>1. PICK r \in Request : SoundlyBecomes(p, r)
    BY <1>0, <1>1, ContinuesSoundly
  <2>2. ASSUME NEW q \in Proc, q # p PROVE req'[q] = req[q]
    BY <1>0, <2>1, <2>2 DEF SoundlyBecomes, TypeOK
  <2>3. req'[p].pc = "idle" \/ req'[p].txn = own
    BY <1>0, <2>1 DEF SoundlyBecomes, TypeOK
  <2>4. \* Nobody else works on a transaction that a free checkout works on.
        ASSUME NEW q \in Proc, q # p, req[q].pc # "idle", Unopened(own) \/ Unopened(req[q].txn)
        PROVE  req[q].txn # own
    BY <1>0, <2>0, <2>4 DEF Alone
  <2>5. ASSUME NEW t \in Txn, redemption'[t] = "completed" PROVE Paid(t)' /\ Firm(t)'
    <3>1. Paid(t) /\ Firm(t) /\ ~(FreeFail(p) /\ own = t)
      <4>1. CASE redemption[t] = "completed"
        BY <4>1 DEF Redeemed, FreeFail
      <4>2. CASE redemption[t] # "completed"
        <5>1. own = t /\ req[p].pc \in {"redeem", "freeRedeem"}
          BY <1>0, <1>1, <2>5, <4>2, PromoSteps
        <5> QED BY <2>0, <5>1 DEF Redeemed, RequestPaid, Granting, FreeSteps, Paid, FreeFail
      <4> QED BY <4>1, <4>2
    <3> QED BY <1>0, <1>1, <3>1, PaidStays, FirmStays
  <2>6. ASSUME NEW q \in Proc, req'[q].pc \in {"redeem", "freeReserve", "freeRedeem"}
        PROVE  Firm(req[q].txn)'
    <3>1. CASE q # p
      <4>1. req'[q] = req[q] /\ req[q].txn \in Txn /\ req[q].pc # "idle" /\ RequestPaid(req[q])
        BY <1>0, <2>2, <2>6, <3>1 DEF TypeOK, EntitiesPaid
      <4>2. Paid(req[q].txn) /\ Firm(req[q].txn)
        BY <2>6, <4>1 DEF Redeemed, RequestPaid, Granting, FreeSteps, Paid
      <4>3. FreeFail(p) => Unopened(own)
        BY <2>0 DEF FreeFail, Sound, CheckoutSteps
      <4>4. PICK t \in Txn : t = req[q].txn
        BY <4>1
      <4>5. Firm(t)'
        BY <1>0, <1>1, <2>4, <3>1, <4>1, <4>2, <4>3, <4>4, FirmStays
      <4> QED BY <4>1, <4>4, <4>5 DEF Firm
    <3>2. CASE q = p
      <4>1. req'[p].txn = own
        BY <2>3, <2>6, <3>2
      <4>2. \/ txn'[own].status = "success"
            \/ FreePromo(p) /\ req[p].pc = "freeReserve"
        <5>1. \/ txn'[own].status = "success" \/ FreeInsert(p)
              \/ FreePromo(p) /\ req[p].pc = "freeReserve"
          BY <1>0, <1>1, <2>6, <3>2, OwingSteps DEF Owing
        <5>2. FreeInsert(p) => txn'[own].status = "success"
          BY <1>0, <2>0, StatusOnly DEF FreeInsert, TxnStatus
        <5> QED BY <5>1, <5>2
      <4>3. CASE FreePromo(p) /\ req[p].pc = "freeReserve"
        <5>1. Firm(own)
          BY <4>3 DEF Redeemed
        <5>2. UNCHANGED <<txn, overwritten>>
          BY <4>3 DEF FreePromo, history
        <5> QED BY <3>2, <4>1, <5>1, <5>2 DEF Firm
      <4> QED BY <3>2, <4>1, <4>2, <4>3 DEF Firm
    <3> QED BY <3>1, <3>2
  <2>7. ASSUME NEW q \in Proc, req'[q].pc = "freeFail" PROVE redemption'[req'[q].txn] # "completed"
    <3>1. CASE q # p
      <4>1. req'[q] = req[q] /\ req[q].txn \in Txn /\ Sound(req[q]) /\ req[q].pc = "freeFail"
        BY <1>0, <2>2, <2>7, <3>1 DEF TypeOK, AllSound
      <4>2. redemption[req[q].txn] # "completed" /\ Unopened(req[q].txn)
        BY <4>1 DEF Redeemed, Sound, CheckoutSteps
      <4>3. own # req[q].txn
        BY <2>4, <3>1, <4>1, <4>2
      <4> QED BY <1>0, <1>1, <4>1, <4>2, <4>3, PromoSteps
    <3>2. CASE q = p
      <4>1. FreeUndo(p)
        BY <1>0, <1>1, <2>7, <3>2, OwingSteps DEF Owing
      <4> QED BY <1>0, <1>1, <2>0, <2>3, <2>7, <3>2, <4>1, PromoSteps
    <3> QED BY <3>1, <3>2
  <2> QED BY <2>5, <2>6, <2>7 DEF Redeemed, Firm
<1>2. ASSUME UNCHANGED <<txn, overwritten>>,
             \A t \in Txn : redemption'[t] = "completed" => redemption[t] = "completed",
             \A q \in Proc : req'[q] = req[q] \/ req'[q].pc \notin {"redeem", "freeReserve", "freeRedeem", "freeFail"}
      PROVE  Redeemed'
  <2>1. \A t \in Txn : redemption'[t] = "completed" => Paid(t)'
    BY <1>0, <1>2, PaidStays DEF Redeemed
  <2>2. \A q \in Proc : req[q].pc = "freeFail" => req[q].txn \in Txn
    BY <1>0 DEF TypeOK
  <2> QED BY <1>2, <2>1, <2>2 DEF Redeemed, Firm
<1>3. ASSUME NEW p \in Proc, NEW r \in Request, Arrives(p, r) PROVE Redeemed'
  <2>1. req' = [req EXCEPT ![p] = r] /\ UNCHANGED <<txn, overwritten, redemption>>
    BY <1>3 DEF Arrives, promo
  <2>2. r.pc \notin {"redeem", "freeReserve", "freeRedeem", "freeFail"}
    BY <1>3 DEF Arrives, Comes
  <2>3. \A q \in Proc : req'[q] = req[q] \/ req'[q] = r
    BY <1>0, <2>1 DEF TypeOK
  <2> QED BY <1>2, <2>1, <2>2, <2>3
<1>4. ASSUME NEW p \in Proc, Crash(p) PROVE Redeemed'
  <2>1. req' = [req EXCEPT ![p] = Idle] /\ UNCHANGED <<txn, overwritten, redemption>>
    BY <1>4 DEF Crash, End, promo
  <2>2. \A q \in Proc : req'[q] = req[q] \/ req'[q] = Idle
    BY <1>0, <2>1 DEF TypeOK
  <2>3. Idle.pc = "idle"
    BY DEF Idle
  <2> QED BY <1>2, <2>1, <2>2, <2>3
<1>5. ASSUME NEW x \in Txn, Pay(x) PROVE Redeemed'
  <2>1. UNCHANGED <<txn, overwritten, redemption, req>>
    BY <1>5 DEF Pay, promo, history
  <2> QED BY <1>2, <2>1
<1>6. ASSUME NEW x \in Txn, Lapse(x) PROVE Redeemed'
  <2>1. UNCHANGED <<txn, overwritten, req>>
    BY <1>6 DEF Lapse, history
  <2>2. Ledger!Lapse({x}) \/ Ledger!Release({x})
    BY <1>6 DEF Lapse
  <2>3. \A t \in Txn : redemption'[t] = "completed" => redemption[t] = "completed"
    BY <1>0, <2>2 DEF Ledger!Lapse, Ledger!Release, TypeOK
  <2> QED BY <1>2, <2>1, <2>3
<1>7. CASE UNCHANGED vars
  BY <1>2, <1>7 DEF vars, promo
<1> QED BY <1>0, <1>1, <1>3, <1>4, <1>5, <1>6, <1>7, Arrival DEF Next

(***************************************************************************)
(* Delivery                                                                *)
(***************************************************************************)
\* No purchase of the same thing by the same user has been refunded.
Unrefunded(t) == \A x \in Txn : Holder(x) = Holder(t) => money[x] # "refunded"

Has(t) ==
    /\ Kind(t) = "course" => enrollment[Holder(t)] = "active"
    /\ Kind(t) = "plan" => HasActiveSub(t)
    /\ Kind(t) = "session" => seat[Holder(t)]
    /\ HasPromo(t) => redemption[t] = "completed"

\* What a request knows: an entity that says fulfilled, or will be made to, is right.
Granted(p) ==
    /\ "fulfilled" \in req[p].meta \/ req[p].pc = "mark" => Has(req[p].txn)
    /\ req[p].pc \in {"grantFind", "grantWrite"} /\ HasPromo(req[p].txn) =>
           redemption[req[p].txn] = "completed"

Delivered ==
    /\ \A t \in Txn : Unrefunded(t) =>
           /\ "fulfilled" \in txn[t].meta => Has(t)
           /\ \A i \in DOMAIN subs[t] : subs[t][i] = "active"
    /\ \A p \in Proc : req[p].pc # "idle" /\ Unrefunded(req[p].txn) => Granted(p)

LEMMA Access ==
    ASSUME TypeOK, Placed, NEW p \in Proc, Continue(p), NEW t \in Txn, Unrefunded(t)
    PROVE  /\ enrollment[Holder(t)] = "active" => enrollment'[Holder(t)] = "active"
           /\ seat[Holder(t)] => seat'[Holder(t)]
           /\ HasActiveSub(t) => HasActiveSub(t)'
           /\ (\A i \in DOMAIN subs[t] : subs[t][i] = "active") =>
                  \A i \in DOMAIN subs'[t] : subs'[t][i] = "active"
<1> DEFINE own == req[p].txn
<1>0. /\ own \in Txn /\ req[p].pc # "idle" /\ Sound(req[p]) /\ subs \in [Txn -> Seq(SubStatus)]
      /\ Holder(t) \in User \X Ref /\ Holder(own) \in User \X Ref
  BY Busily, Orders DEF Placed, AllSound, TypeOK, OrderOK
<1>1. CASE UNCHANGED access
  BY <1>1 DEF access, HasActiveSub
<1>2. CASE GrantWrite(p)
  <2>1. enrollment[Holder(t)] = "active" => enrollment'[Holder(t)] = "active"
    BY <1>0, <1>2 DEF GrantWrite, TypeOK
  <2>2. seat[Holder(t)] => seat'[Holder(t)]
    BY <1>0, <1>2 DEF GrantWrite, TypeOK
  <2>3. subs' = subs \/ subs' = [subs EXCEPT ![own] = Append(@, "active")]
    BY <1>2 DEF GrantWrite
  <2>4. subs'[t] = subs[t] \/ subs'[t] = Append(subs[t], "active")
    BY <1>0, <2>3
  <2>5. CASE subs'[t] = Append(subs[t], "active")
    <3>1. /\ subs[t] \in Seq(SubStatus) /\ DOMAIN subs[t] = 1..Len(subs[t]) /\ Len(subs[t]) \in Nat
          /\ DOMAIN subs'[t] = 1..(Len(subs[t]) + 1)
          /\ \A i \in 1..Len(subs[t]) : subs'[t][i] = subs[t][i]
          /\ subs'[t][Len(subs[t]) + 1] = "active"
      BY <1>0, <2>5 DEF SubStatus
    <3>2. \A i \in 1..(Len(subs[t]) + 1) : i \in 1..Len(subs[t]) \/ i = Len(subs[t]) + 1
      BY <3>1
    <3>3. \A i \in 1..Len(subs[t]) : i \in 1..(Len(subs[t]) + 1)
      BY <3>1
    <3> QED BY <2>1, <2>2, <3>1, <3>2, <3>3 DEF HasActiveSub
  <2>6. CASE subs'[t] = subs[t]
    BY <2>1, <2>2, <2>6 DEF HasActiveSub
  <2> QED BY <2>4, <2>5, <2>6
<1>3. CASE RefundRevoke(p)
  <2>1. money[own] = "refunded"
    BY <1>0, <1>3 DEF RefundRevoke, Sound, RefundSteps
  <2>2. Holder(own) # Holder(t) /\ own # t
    BY <1>0, <2>1 DEF Unrefunded
  <2>3. enrollment'[Holder(t)] = enrollment[Holder(t)]
    BY <1>0, <1>3, <2>2 DEF RefundRevoke, TypeOK
  <2>4. seat' = seat /\ subs'[t] = subs[t]
    BY <1>0, <1>3, <2>2 DEF RefundRevoke, TypeOK
  <2> QED BY <2>3, <2>4 DEF HasActiveSub
<1>4. CASE \/ CancelFind(p) \/ CancelRelease(p) \/ CancelUpdate(p) \/ Insert(p) \/ Reserve(p)
           \/ ReserveRefused(p) \/ Initiate(p) \/ InitiateFails(p) \/ AbortRelease(p) \/ AbortSave(p)
  BY <1>1, <1>4 DEF CancelFind, CancelRelease, CancelUpdate, Insert, Reserve, ReserveRefused, Initiate,
     InitiateFails, AbortRelease, AbortSave
<1>5. CASE \/ FreeInsert(p) \/ FreePromo(p) \/ FreeUndo(p) \/ FreeFail(p) \/ HookSave(p)
           \/ FailRelease(p) \/ FailSave(p) \/ Claim(p) \/ Redeem(p) \/ GrantFind(p)
  BY <1>1, <1>5 DEF FreeInsert, FreePromo, FreeUndo, FreeFail, HookSave, FailRelease, FailSave, Claim,
     Redeem, GrantFind
<1>6. CASE \/ Throw(p) \/ Mark(p) \/ MarkError(p) \/ RefundClaim(p) \/ RefundMark(p) \/ RefundReverse(p)
  BY <1>1, <1>6 DEF Throw, Mark, MarkError, RefundClaim, RefundMark, RefundReverse
<1> QED BY <1>2, <1>3, <1>4, <1>5, <1>6 DEF Continue

\* What is delivered stays so, but for the undoing of a free checkout that is alone.
LEMMA HasStays ==
    ASSUME TypeOK, Placed, [Next]_vars, NEW p \in Proc, Continue(p), NEW t \in Txn, Unrefunded(t),
           ~(FreeUndo(p) /\ req[p].txn = t)
    PROVE  /\ redemption[t] = "completed" => redemption'[t] = "completed"
           /\ Has(t) => Has(t)'
<1>1. order' = order
  BY Frame
<1>2. redemption[t] = "completed" => redemption'[t] = "completed"
  <2>1. Sound(req[p]) /\ req[p].pc # "idle"
    BY Busily DEF Placed, AllSound
  <2>2. RefundReverse(p) => money[req[p].txn] = "refunded"
    BY <2>1 DEF RefundReverse, Sound, RefundSteps
  <2>3. ~(RefundReverse(p) /\ req[p].txn = t)
    BY <2>2 DEF Unrefunded
  <2> QED BY <2>3, PromoSteps
<1>3. Kind(t)' = Kind(t) /\ Holder(t)' = Holder(t) /\ (HasPromo(t)' <=> HasPromo(t))
  BY <1>1 DEF Kind, Holder, HasPromo
<1> QED BY <1>2, <1>3, Access DEF Has

LEMMA UnrefundedBefore ==
    ASSUME TypeOK, Placed, [Next]_vars, NEW t \in Txn, Unrefunded(t)'
    PROVE  Unrefunded(t)
<1>1. order' = order
  BY Frame
<1>2. \A x \in Txn : Holder(x)' = Holder(x)
  BY <1>1 DEF Holder
<1> QED BY <1>2, RefundStays DEF Unrefunded

\* A request that is about to write fulfilled has delivered.
LEMMA Grants ==
    ASSUME TypeOK, Placed, Delivered, [Next]_vars, NEW p \in Proc, Continue(p), NEW t \in Txn,
           req[p].txn = t, Unrefunded(t)
    PROVE  /\ req'[p].pc \in {"grantFind", "grantWrite"} /\ HasPromo(t) => redemption'[t] = "completed"
           /\ req'[p].pc = "mark" => Has(t)'
<1>0. req[p].pc # "idle" /\ req[p] \in Request /\ subs[t] \in Seq(SubStatus) /\ Holder(t) \in User \X Ref
      /\ order' = order /\ Kind(t) \in Kinds
  BY Busily, Frame, Orders DEF TypeOK, OrderOK
<1>1. req[p].pc \in {"grantFind", "grantWrite"} /\ HasPromo(t) => redemption[t] = "completed"
  BY <1>0 DEF Delivered, Granted
<1>2. ~FreeUndo(p) => (redemption[t] = "completed" => redemption'[t] = "completed")
  BY HasStays
<1>3. ASSUME req'[p].pc \in {"grantFind", "grantWrite"}, HasPromo(t) PROVE redemption'[t] = "completed"
  <2>1. Redeem(p) \/ (FreePromo(p) /\ req[p].pc = "freeRedeem") \/ GrantFind(p)
    BY <1>3, OwingSteps DEF Owing
  <2>2. GrantFind(p) => redemption'[t] = "completed"
    BY <1>1, <1>2, <1>3 DEF GrantFind, FreeUndo
  <2> QED BY <2>1, <2>2, PromoSteps
<1>4. ASSUME req'[p].pc = "mark" PROVE Has(t)'
  <2>1. GrantFind(p) \/ GrantWrite(p)
    BY <1>4, OwingSteps DEF Owing
  <2>2. HasPromo(t) => redemption'[t] = "completed"
    BY <1>1, <1>2, <2>1 DEF GrantFind, GrantWrite, FreeUndo
  <2>3. Kind(t)' = Kind(t) /\ Holder(t)' = Holder(t) /\ (HasPromo(t)' <=> HasPromo(t))
    BY <1>0 DEF Kind, Holder, HasPromo
  <2>4. CASE GrantFind(p)
    <3>1. UNCHANGED <<enrollment, subs, seat>>
      BY <2>4 DEF GrantFind, access
    <3>2. CASE Kind(t) = "course"
      <4> DEFINE look == enrollment[Holder(t)]
                 step == IF look = "active" THEN "mark" ELSE "grantWrite"
      <4>1. req' = [req EXCEPT ![p] = [req[p] EXCEPT !.look = look, !.pc = step]]
        BY <2>4, <3>2 DEF GrantFind
      <4>2. req'[p].pc = step
        <5> HIDE DEF look, step
        <5> QED BY <1>0, <4>1 DEF TypeOK, Request
      <4>3. enrollment[Holder(t)] = "active"
        BY <1>4, <4>2
      <4> QED BY <2>2, <2>3, <3>1, <3>2, <4>3 DEF Has
    <3>3. CASE Kind(t) = "plan"
      <4>1. Goto(p, IF subs[t] = << >> THEN "grantWrite" ELSE "mark")
        BY <2>4, <3>3 DEF GrantFind
      <4>2. subs[t] # << >>
        BY <1>0, <1>4, <4>1 DEF Goto, TypeOK, Request
      <4>3. 1 \in DOMAIN subs[t]
        BY <1>0, <4>2
      <4>4. HasActiveSub(t)'
        BY <3>1, <4>3 DEF Delivered, HasActiveSub
      <4> QED BY <2>2, <2>3, <3>3, <4>4 DEF Has
    <3>4. CASE Kind(t) = "session"
      <4>1. Goto(p, IF seat[Holder(t)] THEN "mark" ELSE "grantWrite")
        BY <2>4, <3>4 DEF GrantFind
      <4>2. seat[Holder(t)]
        BY <1>0, <1>4, <4>1 DEF Goto, TypeOK, Request
      <4> QED BY <2>2, <2>3, <3>1, <3>4, <4>2 DEF Has
    <3> QED BY <1>0, <3>2, <3>3, <3>4 DEF Kinds
  <2>5. CASE GrantWrite(p)
    <3>1. CASE Kind(t) = "course"
      <4>1. enrollment'[Holder(t)] = "active"
        BY <1>0, <2>5, <3>1 DEF GrantWrite, TypeOK
      <4> QED BY <2>2, <2>3, <3>1, <4>1 DEF Has
    <3>2. CASE Kind(t) = "plan"
      <4>1. subs'[t] = Append(subs[t], "active")
        BY <2>5, <3>2 DEF GrantWrite, TypeOK
      <4>2. Len(subs[t]) \in Nat /\ DOMAIN subs'[t] = 1..(Len(subs[t]) + 1)
            /\ subs'[t][Len(subs[t]) + 1] = "active"
        BY <1>0, <4>1 DEF SubStatus
      <4>3. Len(subs[t]) + 1 \in DOMAIN subs'[t]
        BY <4>2
      <4>4. HasActiveSub(t)'
        BY <4>2, <4>3 DEF HasActiveSub
      <4> QED BY <2>2, <2>3, <3>2, <4>4 DEF Has
    <3>3. CASE Kind(t) = "session"
      <4>1. seat'[Holder(t)]
        BY <1>0, <2>5, <3>3 DEF GrantWrite, TypeOK
      <4> QED BY <2>2, <2>3, <3>3, <4>1 DEF Has
    <3> QED BY <1>0, <3>1, <3>2, <3>3 DEF Kinds
  <2> QED BY <2>1, <2>4, <2>5
<1> QED BY <1>3, <1>4

\* A row says fulfilled because its entity does, or a request that has delivered.
LEMMA MarkedRows ==
    ASSUME TypeOK, NEW p \in Proc, Continue(p), NEW t \in Txn, "fulfilled" \in txn'[t].meta
    PROVE  \/ "fulfilled" \in txn[t].meta
           \/ req[p].txn = t /\ ("fulfilled" \in req[p].meta \/ req[p].pc = "mark") /\ ~FreeUndo(p)
<1> DEFINE own == req[p].txn
<1>0. own \in Txn
  BY Busily
<1>1. CASE UNCHANGED txn
  BY <1>1
<1>2. ASSUME NEW s \in {"pending", "failed", req[p].status}, SavesAs(p, s), "fulfilled" \notin txn[t].meta
      PROVE  own = t /\ "fulfilled" \in req[p].meta /\ ~FreeUndo(p)
  BY <1>0, <1>2 DEF SavesAs, Save, FreeUndo, TypeOK
<1>3. ASSUME NEW keys \in SUBSET {"fulfilled", "fulfillmentError"}, Marks(p, keys),
             "fulfilled" \notin txn[t].meta
      PROVE  own = t /\ ("fulfilled" \in req[p].meta \/ req[p].pc = "mark") /\ ~FreeUndo(p)
  <2>1. IF t = own THEN txn'[t].meta = req[p].meta \cup keys ELSE txn'[t] = txn[t]
    BY <1>0, <1>3, MetaOnly DEF Marks
  <2> QED BY <1>3, <2>1 DEF Marks, FreeUndo
<1>4. CASE CancelUpdate(p)
  BY <1>4, CancelRows
<1>5. CASE Insert(p) \/ FreeInsert(p) \/ Claim(p) \/ RefundClaim(p)
  <2>1. PICK s \in {"pending", "success", "refunded"} :
            txn' = txn \/ txn' = [txn EXCEPT ![own].status = s]
    BY <1>5 DEF Insert, FreeInsert, Claim, RefundClaim
  <2>2. txn'[t].meta = txn[t].meta
    BY <1>0, <2>1, StatusOnly DEF TxnStatus
  <2> QED BY <2>2
<1>6. CASE FreeFail(p)
  BY <1>0, <1>6 DEF FreeFail, TypeOK
<1> QED BY <1>1, <1>2, <1>3, <1>4, <1>5, <1>6, RowSteps

LEMMA DeliveredStep ==
    ASSUME TypeOK, Placed, FreshRows, Delivered, [Next]_vars
    PROVE  Delivered'
<1>0. AllSound /\ FreeUnopened /\ Alone /\ order' = order
  BY Frame DEF Placed
<1>1. ASSUME NEW t \in Txn PROVE HasPromo(t)' <=> HasPromo(t)
  BY <1>0 DEF HasPromo
<1>2. ASSUME NEW p \in Proc, Continue(p) PROVE Delivered'
  <2> DEFINE own == req[p].txn
  <2>0. own \in Txn /\ req[p].pc # "idle" /\ Sound(req[p])
    BY <1>0, <1>2, Busily DEF AllSound
  <2>1. PICK r \in Request : SoundlyBecomes(p, r)
    BY <1>0, <1>2, ContinuesSoundly
  <2>2. ASSUME NEW q \in Proc, q # p PROVE req'[q] = req[q]
    BY <2>1, <2>2 DEF SoundlyBecomes, TypeOK
  <2>3. req'[p].pc = "idle" \/ (req'[p].txn = own /\ req'[p].meta = req[p].meta)
    BY <2>1 DEF SoundlyBecomes, TypeOK
  <2>4. FreeUndo(p) => Unopened(own)
    BY <2>0 DEF FreeUndo, Sound, CheckoutSteps
  <2>5. ASSUME NEW t \in Txn, Unrefunded(t)'
        PROVE  /\ "fulfilled" \in txn'[t].meta => Has(t)'
               /\ \A i \in DOMAIN subs'[t] : subs'[t][i] = "active"
    <3>1. Unrefunded(t)
      BY <2>5, UnrefundedBefore
    <3>2. \A i \in DOMAIN subs'[t] : subs'[t][i] = "active"
      BY <1>2, <3>1, Access DEF Delivered
    <3>3. ASSUME "fulfilled" \in txn'[t].meta PROVE Has(t)'
      <4>1. CASE "fulfilled" \in txn[t].meta
        <5>1. Has(t)
          BY <3>1, <4>1 DEF Delivered
        <5>2. ~(FreeUndo(p) /\ own = t)
          BY <2>0, <2>4, <4>1 DEF FreshRows
        <5> QED BY <1>2, <3>1, <5>1, <5>2, HasStays
      <4>2. CASE own = t /\ ("fulfilled" \in req[p].meta \/ req[p].pc = "mark") /\ ~FreeUndo(p)
        <5>1. Has(t)
          BY <2>0, <3>1, <4>2 DEF Delivered, Granted
        <5> QED BY <1>2, <3>1, <4>2, <5>1, HasStays
      <4> QED BY <1>2, <3>3, <4>1, <4>2, MarkedRows
    <3> QED BY <3>2, <3>3
  <2>6. ASSUME NEW q \in Proc, req'[q].pc # "idle", Unrefunded(req[q].txn)' PROVE Granted(q)'
    <3>1. CASE q # p
      <4>1. req'[q] = req[q] /\ req[q].pc # "idle" /\ req[q].txn \in Txn
        BY <2>2, <2>6, <3>1 DEF TypeOK
      <4>2. PICK t \in Txn : t = req[q].txn
        BY <4>1
      <4>3. Unrefunded(t)'
        BY <2>6, <4>1, <4>2 DEF Unrefunded, Holder
      <4>4. Unrefunded(t) /\ Granted(q)
        BY <4>1, <4>2, <4>3, UnrefundedBefore DEF Delivered
      <4>5. ~(FreeUndo(p) /\ own = t)
        BY <1>0, <2>0, <2>4, <3>1, <4>1, <4>2 DEF Alone
      <4>6. /\ redemption[t] = "completed" => redemption'[t] = "completed"
            /\ Has(t) => Has(t)'
        BY <1>2, <4>4, <4>5, HasStays
      <4>7. "fulfilled" \in req'[q].meta \/ req'[q].pc = "mark" => Has(t)'
        BY <4>1, <4>2, <4>4, <4>6 DEF Granted
      <4>8. req'[q].pc \in {"grantFind", "grantWrite"} /\ HasPromo(req'[q].txn) => redemption'[t] = "completed"
        BY <4>1, <4>2, <4>4, <4>6 DEF Granted
      <4> QED BY <1>1, <4>1, <4>2, <4>7, <4>8 DEF Granted, Has, HasPromo, Kind, Holder, HasActiveSub
    <3>2. CASE q = p
      <4>1. req'[p].txn = own /\ req'[p].meta = req[p].meta
        BY <2>3, <2>6, <3>2
      <4>2. PICK t \in Txn : t = own
        BY <2>0
      <4>3. Unrefunded(t)'
        BY <2>6, <3>2, <4>1, <4>2 DEF Unrefunded, Holder
      <4>4. Unrefunded(t) /\ Granted(p)
        BY <2>0, <4>2, <4>3, UnrefundedBefore DEF Delivered
      <4>5. /\ req'[p].pc \in {"grantFind", "grantWrite"} /\ HasPromo(t) => redemption'[t] = "completed"
            /\ req'[p].pc = "mark" => Has(t)'
        BY <1>2, <4>2, <4>4, Grants
      <4>6. "fulfilled" \in req[p].meta => Has(t)'
        <5> SUFFICES ASSUME "fulfilled" \in req[p].meta PROVE Has(t)'
          OBVIOUS
        <5>1. ~FreeUndo(p)
          BY <2>0, <2>4 DEF Sound
        <5>2. Has(t)
          BY <4>2, <4>4 DEF Granted
        <5> QED BY <1>2, <4>4, <5>1, <5>2, HasStays
      <4> QED BY <1>1, <3>2, <4>1, <4>2, <4>5, <4>6 DEF Granted, Has, HasPromo, Kind, Holder, HasActiveSub
    <3> QED BY <3>1, <3>2
  <2>7. \A q \in Proc : req'[q].pc # "idle" => req'[q].txn \in Txn /\ req'[q].txn = req[q].txn
    BY <2>0, <2>2, <2>3 DEF TypeOK
  <2>8. \A q \in Proc : req'[q].pc # "idle" /\ Unrefunded(req[q].txn)' => Granted(q)'
    BY <2>6
  <2> QED BY <2>5, <2>8 DEF Delivered
<1>3. ASSUME UNCHANGED <<txn, enrollment, subs, seat>>,
             \A t \in Txn : redemption[t] = "completed" => redemption'[t] = "completed",
             \A q \in Proc : req'[q] = req[q] \/ req'[q].pc = "idle"
                \/ /\ req'[q].txn \in Txn /\ req'[q].pc \notin {"mark", "grantFind", "grantWrite"}
                   /\ req'[q].meta \subseteq txn[req'[q].txn].meta
      PROVE  Delivered'
  <2>1. ASSUME NEW t \in Txn, Has(t) PROVE Has(t)'
    BY <1>0, <1>3, <2>1 DEF Has, Kind, Holder, HasPromo, HasActiveSub
  <2>2. ASSUME NEW t \in Txn, Unrefunded(t)'
        PROVE  /\ "fulfilled" \in txn'[t].meta => Has(t)'
               /\ \A i \in DOMAIN subs'[t] : subs'[t][i] = "active"
    BY <1>3, <2>1, <2>2, UnrefundedBefore DEF Delivered
  <2>3. ASSUME NEW q \in Proc, req'[q].pc # "idle", Unrefunded(req[q].txn)' PROVE Granted(q)'
    <3>1. PICK t \in Txn : t = req'[q].txn
      BY <1>3, <2>3 DEF TypeOK
    <3>2. Unrefunded(t)'
      BY <2>3, <3>1 DEF Unrefunded, Holder
    <3>3. Unrefunded(t)
      BY <3>2, UnrefundedBefore
    <3>4. "fulfilled" \in req'[q].meta \/ req'[q].pc = "mark" => Has(t)
      BY <1>3, <2>3, <3>1, <3>3 DEF Delivered, Granted
    <3>5. req'[q].pc \in {"grantFind", "grantWrite"} /\ HasPromo(t) => redemption'[t] = "completed"
      BY <1>3, <2>3, <3>1, <3>3 DEF Delivered, Granted
    <3> QED BY <1>1, <2>1, <3>1, <3>4, <3>5 DEF Granted, Has, HasPromo, Kind, Holder, HasActiveSub
  <2>4. \A q \in Proc : req'[q].pc # "idle" /\ Unrefunded(req[q].txn)' => Granted(q)'
    BY <2>3
  <2> QED BY <2>2, <2>4 DEF Delivered
<1>4. ASSUME NEW p \in Proc, NEW r \in Request, Arrives(p, r) PROVE Delivered'
  <2>1. req' = [req EXCEPT ![p] = r] /\ UNCHANGED <<txn, enrollment, subs, seat, redemption>>
    BY <1>4 DEF Arrives, access, promo
  <2>2. r.txn \in Txn /\ r.pc \notin {"mark", "grantFind", "grantWrite"} /\ r.meta \subseteq txn[r.txn].meta
    BY <1>4 DEF Arrives, Comes
  <2>3. \A q \in Proc : req'[q] = req[q] \/ req'[q] = r
    BY <2>1 DEF TypeOK
  <2> QED BY <1>3, <2>1, <2>2, <2>3
<1>5. ASSUME NEW p \in Proc, Crash(p) PROVE Delivered'
  <2>1. req' = [req EXCEPT ![p] = Idle] /\ UNCHANGED <<txn, enrollment, subs, seat, redemption>>
    BY <1>5 DEF Crash, End, access, promo
  <2>2. \A q \in Proc : req'[q] = req[q] \/ req'[q].pc = "idle"
    BY <2>1 DEF TypeOK, Idle
  <2> QED BY <1>3, <2>1, <2>2
<1>6. ASSUME NEW x \in Txn, Pay(x) PROVE Delivered'
  <2>1. UNCHANGED <<txn, enrollment, subs, seat, redemption, req>>
    BY <1>6 DEF Pay, access, promo
  <2> QED BY <1>3, <2>1
<1>7. ASSUME NEW x \in Txn, Lapse(x) PROVE Delivered'
  <2>1. UNCHANGED <<txn, enrollment, subs, seat, req>>
    BY <1>7 DEF Lapse, access
  <2>2. redemption[x] = "reserved" /\ (Ledger!Lapse({x}) \/ Ledger!Release({x}))
    BY <1>7 DEF Lapse
  <2>3. \A t \in Txn : redemption[t] = "completed" => redemption'[t] = "completed"
    BY <2>2 DEF Ledger!Lapse, Ledger!Release
  <2> QED BY <1>3, <2>1, <2>3
<1>8. CASE UNCHANGED vars
  BY <1>3, <1>8 DEF vars, access, promo
<1> QED BY <1>0, <1>2, <1>4, <1>5, <1>6, <1>7, <1>8, Arrival DEF Next

(***************************************************************************)
(* The theorems                                                            *)
(***************************************************************************)
Ordered ==
    /\ IInv /\ Placed /\ FreshRows /\ MetaKnown /\ Finished
    /\ RefundedRows /\ Claimed /\ FulfilledOnceUnlessOverwritten /\ Redeemed /\ Delivered

LEMMA OrderedHolds == Spec => []Ordered
<1>1. Init => Ordered
  <2> SUFFICES ASSUME Init PROVE Ordered
    OBVIOUS
  <2>1. TypeOK BY TypeInit
  <2>2. NothingUnpaid BY DEF Init, NothingUnpaid
  <2>3. \A p \in Proc : req[p] = Idle /\ Idle.pc = "idle" /\ Idle.txn = Null
    BY DEF Init, Idle
  <2>4. EntitiesPaid
    BY <2>3 DEF EntitiesPaid, RequestPaid, Idle, Granting, FreeSteps
  <2>5. OpenedOnce
    BY <2>3 DEF OpenedOnce, Opening
  <2>6. IInv
    BY <2>1, <2>2, <2>4, <2>5 DEF IInv
  <2>7. Placed
    BY <2>3 DEF Init, Placed, AllSound, Sound, FreeUnopened, Alone, Unopened
  <2>8. FreshRows /\ MetaKnown /\ Finished
    BY <2>3 DEF Init, FreshRows, MetaKnown, Finished, Unopened
  <2>9. RefundedRows /\ Claimed /\ FulfilledOnceUnlessOverwritten
    BY DEF Init, RefundedRows, Claimed, FulfilledOnceUnlessOverwritten
  <2>10. Redeemed
    BY <2>3 DEF Init, Redeemed
  <2>11. Delivered
    BY <2>3 DEF Init, Delivered
  <2> QED BY <2>6, <2>7, <2>8, <2>9, <2>10, <2>11 DEF Ordered
<1>2. IInv' /\ Ordered /\ [Next]_vars => Ordered'
  BY PlacedStep, FreshStep, MetaStep, FinishedStep, RefundedStep, ClaimedStep, OnceStep, RedeemedStep,
     DeliveredStep DEF Ordered, IInv
<1> QED BY <1>1, <1>2, Inductive, PTL DEF Spec

\* "Atomic status update - only one concurrent call can succeed": a transaction is claimed
\* for fulfilment a second time only after a stale entity was saved over its row, or a refund.
THEOREM FulfilledOnce == Spec => []FulfilledOnceUnlessOverwritten
<1>1. Ordered => FulfilledOnceUnlessOverwritten BY DEF Ordered
<1> QED BY <1>1, OrderedHolds, PTL

\* Nobody's payment is forgotten: a SUCCESS transaction nobody works on is fulfilled or says
\* why not, or a request died on it, or a stale entity was saved over it.
THEOREM SettledHolds == Spec => []SettledUnlessMishap
<1>1. Ordered => SettledUnlessMishap
  <2> SUFFICES ASSUME Ordered, NEW t \in Txn, txn[t].status = "success", ~Busy(t)
               PROVE  txn[t].meta # {} \/ t \in overwritten \cup crashed
    BY DEF SettledUnlessMishap
  <2> QED BY DEF Ordered, Finished, Busy
<1> QED BY <1>1, OrderedHolds, PTL

\* A transaction marked fulfilled has delivered, until the same purchase is refunded.
THEOREM DeliveredHolds == Spec => []FulfilledMeansDelivered
<1>1. Ordered => FulfilledMeansDelivered
  <2> SUFFICES ASSUME Ordered, NEW t \in Txn, "fulfilled" \in txn[t].meta, Unrefunded(t)
               PROVE  Has(t)
    BY DEF FulfilledMeansDelivered, Unrefunded, Has
  <2> QED BY DEF Ordered, Delivered
<1> QED BY <1>1, OrderedHolds, PTL

\* A payment that has failed uses no promo code up, unless a stale entity was saved over a
\* successful one.
THEOREM PromoKept == Spec => []FailedUsesNoPromo
<1>1. Ordered => FailedUsesNoPromo
  <2> SUFFICES ASSUME Ordered, NEW t \in Txn, txn[t].status = "failed", redemption[t] = "completed"
               PROVE  t \in overwritten
    BY DEF FailedUsesNoPromo
  <2> QED BY DEF Ordered, Redeemed, Firm
<1> QED BY <1>1, OrderedHolds, PTL
================================================================================
