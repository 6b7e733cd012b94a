--------------------------- MODULE LearningProofs ---------------------------
(***************************************************************************)
(* Proofs about the learning services. The invariant of each part is kept  *)
(* by its own steps, and by those of the others because they leave its rows *)
(* alone; theorems about the whole are at the end.                         *)
(*                                                                         *)
(* What a fold over a sequence or a sum over a set comes to is shown by    *)
(* induction on the subsets of its domain, without a recursive definition: *)
(* CommunityModules' folds choose a function on all the subsets, so there has *)
(* to be one, and any one agrees with it.                                  *)
(***************************************************************************)
EXTENDS Learning, FiniteSetTheorems, TLAPS

(***************************************************************************)
(* Progress                                                                *)
(***************************************************************************)
Settled(n) == Underway(n) => latest # 0 /\ report[n].percent = report[latest].percent
Reporting ==
    /\ ProgressTypes /\ made \in Nat
    /\ latest <= made /\ pending <= made /\ \A n \in Number : report[n].state # "none" => n <= made
    /\ pending # 0 => Underway(pending) /\ (report[pending].state # "waiting" => report[pending].timed)
    /\ progress = Null => counted = 0
    /\ progress # Null /\ "stale" \notin amiss => progress.timeSpent = counted
    /\ amiss = {} => \A n \in Number : Settled(n)
    /\ amiss = {} /\ latest # 0 =>
          (\E n \in Number : Underway(n)) \/ (progress # Null /\ progress.progressPercent = report[latest].percent)

LEMMA NumberFacts == Number \subseteq Nat /\ \A n \in Number : n # 0 /\ n \in Int
BY DEF Number

LEMMA ReportingInit ==
    ASSUME NEW begun \in BOOLEAN, RequestsInit, ProgressInit(begun)
    PROVE  Reporting
<1>1. NoReport \in Report
  BY NumberFacts DEF NoReport, Report
<1>2. progress \in {Null} \cup ProgressRow
  <2>1. [progressPercent |-> 50, timeSpent |-> 0, completed |-> FALSE] \in ProgressRow
    BY DEF ProgressRow
  <2> QED BY <2>1 DEF ProgressInit
<1>3. ProgressTypes
  BY <1>1, <1>2, NumberFacts DEF ProgressInit, ProgressTypes
<1> QED BY <1>3, NumberFacts, ProgressNullAssumption
      DEF RequestsInit, ProgressInit, Reporting, NoReport, Underway, Settled, ProgressRow

LEMMA ReportingRest ==
    ASSUME Reporting, UNCHANGED reports, made' \in Nat, made' >= made
    PROVE  Reporting'
<1>1. UNCHANGED <<progress, report, pending, counted, latest, amiss>>
  BY DEF reports
<1>2. \A n \in Number : n <= made => n <= made'
  BY NumberFacts DEF Reporting
<1>3. latest \in Int /\ pending \in Int
  BY NumberFacts DEF Reporting, ProgressTypes
<1> QED BY <1>1, <1>2, <1>3 DEF Reporting, ProgressTypes, Underway, Settled

\* What a report says, by its fields.
LEMMA SaidType ==
    ASSUME NEW n \in Number, NEW state \in {"waiting", "finding"}, NEW percent \in Percents,
           NEW spent \in {Null} \cup Spendings
    PROVE  /\ Said(n, state, percent, spent) \in Report
           /\ Said(n, state, percent, spent).state = state
           /\ Said(n, state, percent, spent).percent = percent
           /\ ~Said(n, state, percent, spent).timed
BY ProgressAssumption DEF Said, NoReport, Report

\* The facts about the numbers that a step of the service rests on.
LEMMA Fresh ==
    ASSUME Reporting, NEW n \in Number, n = made + 1
    PROVE  /\ report[n].state = "none" /\ n # pending /\ n # latest
           /\ \A k \in Number : report[k].state # "none" => k <= n
           /\ latest <= n /\ pending <= n
BY NumberFacts DEF Reporting, ProgressTypes

\* A report that comes over HTTP, or over the socket, in the place of the one that was cleared.
LEMMA ComesStep ==
    ASSUME Reporting, NEW n \in Number, n = made + 1, made' = n,
           NEW state \in {"waiting", "finding"}, NEW percent \in Percents, NEW spent \in {Null} \cup Spendings,
           NEW cleared \in {report, [report EXCEPT ![pending].state = "over"]},
           cleared # report => Waiting(pending),
           report' = [cleared EXCEPT ![n] = Said(n, state, percent, spent)],
           (pending' = n /\ state = "waiting") \/ pending' = 0 \/ (pending' = pending /\ cleared = report),
           latest' = n, NEW others, Arrives(others),
           \A k \in Number : Waiting(k) /\ cleared[k].state = "waiting" => k \in others,
           UNCHANGED <<progress, counted>>
    PROVE  Reporting'
<1>1. \A k \in Number \ {n} : \/ report'[k] = report[k]
                              \/ k = pending /\ Waiting(k) /\ report'[k] = [report[k] EXCEPT !.state = "over"]
  BY DEF Reporting, ProgressTypes
<1>2. report'[n] = Said(n, state, percent, spent)
  BY DEF Reporting, ProgressTypes
<1>3. ProgressTypes'
  <2>1. report' \in [Number -> Report]
    <3>1. \A k \in Number : report'[k] \in Report
      <4>1. ASSUME NEW r \in Report
            PROVE  [r EXCEPT !.state = "over"] \in Report
        BY DEF Report
      <4> QED BY <1>1, <1>2, <4>1, SaidType DEF Reporting, ProgressTypes
    <3>2. report' = [k \in Number |-> report'[k]]
      BY DEF Reporting, ProgressTypes
    <3> QED BY <3>1, <3>2
  <2>2. amiss' \subseteq {"stale", "crossing", "failed"}
    BY DEF Reporting, ProgressTypes, Arrives
  <2> QED BY <2>1, <2>2 DEF Reporting, ProgressTypes
<1>4. made' \in Nat /\ latest' <= made' /\ pending' <= made' /\ \A k \in Number : report'[k].state # "none" => k <= made'
  <2>1. report[n].state = "none" /\ n \in Nat /\ made \in Nat /\ latest' \in Int
    BY Fresh, NumberFacts DEF Reporting
  <2>2. \A k \in Number : report[k].state # "none" => k <= n
    BY Fresh
  <2>3. \A k \in Number \ {n} : report'[k].state # "none" => report[k].state # "none"
    BY <1>1 DEF Waiting
  <2>4. pending' <= n
    BY Fresh, NumberFacts DEF Reporting, ProgressTypes
  <2> QED BY <2>1, <2>2, <2>3, <2>4, NumberFacts
<1>5. pending' # 0 => Underway(pending)' /\ (report'[pending'].state # "waiting" => report'[pending'].timed)
  BY <1>2, <1>3, Fresh, SaidType, NumberFacts DEF Reporting, Underway, ProgressTypes
<1>6. ASSUME amiss' = {}, NEW k \in Number
      PROVE  Settled(k)'
  <2>1. \A j \in Number : report[j].state \notin {"finding", "saving"} /\ ~(Waiting(j) /\ cleared[j].state = "waiting")
    BY <1>6 DEF Arrives
  <2>2. CASE k = n
    BY <2>2, NumberFacts DEF Settled
  <2>3. CASE k # n
    <3>1. ~Underway(k)'
      <4>1. k # 0 /\ report[k].state \in {"none", "waiting", "over"}
        BY <2>1, NumberFacts DEF Reporting, ProgressTypes, Report
      <4>2. report[k].state = "waiting" => cleared[k].state # "waiting"
        BY <2>1, <4>1 DEF Waiting
      <4>3. report'[k] = cleared[k]
        BY <2>3 DEF Reporting, ProgressTypes
      <4>4. report'[k] = report[k] \/ report'[k].state = "over"
        <5>1. report[k] \in Report
          BY DEF Reporting, ProgressTypes
        <5>2. [report[k] EXCEPT !.state = "over"].state = "over"
          BY <5>1 DEF Report
        <5> QED BY <1>1, <2>3, <5>2
      <4> QED BY <4>1, <4>2, <4>3, <4>4 DEF Underway
    <3> QED BY <3>1 DEF Settled
  <2> QED BY <2>2, <2>3
<1>7. Underway(n)'
  BY <1>2, SaidType DEF Underway
<1>8. amiss' = amiss \/ amiss' = amiss \cup {"crossing"}
  BY DEF Arrives
<1> QED BY <1>3, <1>4, <1>5, <1>6, <1>7, <1>8 DEF Reporting

LEMMA HttpReportStep ==
    ASSUME Reporting, NEW n \in Number, n = made + 1, made' = n, HttpReport(n)
    PROVE  Reporting'
<1>1. PICK percent \in Percents, spent \in {Null} \cup Spendings :
          report' = [report EXCEPT ![n] = Said(n, "finding", percent, spent)]
  BY DEF HttpReport
<1>2. PICK others : others = {k \in Number : Waiting(k)}
  OBVIOUS
<1> QED BY <1>1, <1>2, ComesStep DEF HttpReport

LEMMA SocketReportStep ==
    ASSUME Reporting, NEW n \in Number, n = made + 1, made' = n, SocketReport(n)
    PROVE  Reporting'
<1> DEFINE cleared == IF Waiting(pending) THEN [report EXCEPT ![pending].state = "over"] ELSE report
<1>1. PICK percent \in Percents, spent \in {Null} \cup Spendings :
          /\ report' = [cleared EXCEPT ![n] = Said(n, IF percent >= 100 THEN "finding" ELSE "waiting", percent, spent)]
          /\ pending' = IF percent >= 100 THEN 0 ELSE n
  BY DEF SocketReport
<1>2. PICK state \in {"waiting", "finding"} : state = IF percent >= 100 THEN "finding" ELSE "waiting"
  OBVIOUS
<1>3. PICK others : others = {k \in Number : Waiting(k)} \ {pending}
  OBVIOUS
<1>4. \A k \in Number : Waiting(k) /\ cleared[k].state = "waiting" => k \in others
  <2> SUFFICES ASSUME NEW k \in Number, Waiting(k), k = pending
               PROVE  cleared[k].state # "waiting"
    BY <1>3
  <2>1. report[k] \in Report /\ report \in [Number -> Report]
    BY DEF Reporting, ProgressTypes
  <2>2. [report[k] EXCEPT !.state = "over"].state = "over"
    BY <2>1 DEF Report
  <2> QED BY <2>1, <2>2
<1>5. (pending' = n /\ state = "waiting") \/ pending' = 0
  BY <1>1, <1>2
<1>6. cleared \in {report, [report EXCEPT ![pending].state = "over"]} /\ (cleared # report => Waiting(pending))
  OBVIOUS
<1> HIDE DEF cleared
<1>7. latest' = n /\ UNCHANGED <<progress, counted>>
  BY DEF SocketReport
<1>8. report' = [cleared EXCEPT ![n] = Said(n, state, percent, spent)]
  BY <1>1, <1>2
<1>9. Arrives(others)
  BY <1>3 DEF SocketReport
<1> QED BY <1>4, <1>5, <1>6, <1>7, <1>8, <1>9, ComesStep

\* Each report stays, but for the one at n, or the pending one that is over.
LEMMA DisconnectStep ==
    ASSUME Reporting, NEW n \in Number, n = made + 1, made' = n, Disconnect(n)
    PROVE  Reporting'
<1> DEFINE said == [report[pending] EXCEPT !.state = "finding", !.timed = FALSE, !.row = Null]
<1>1. pending \in Number /\ report \in [Number -> Report] /\ Underway(pending)
  BY NumberFacts DEF Disconnect, Reporting, ProgressTypes
<1>2. said \in Report /\ said.state = "finding" /\ said.percent = report[pending].percent
  <2>1. report[pending] \in Report
    BY <1>1
  <2> QED BY <2>1 DEF Report
<1>3. [report[pending] EXCEPT !.state = "over"] \in Report /\ [report[pending] EXCEPT !.state = "over"].state = "over"
  BY <1>1 DEF Report
<1>4. report'[n] = said
  BY <1>1 DEF Disconnect
<1>5. \A k \in Number \ {n} : \/ report'[k] = report[k]
                              \/ k = pending /\ Waiting(k) /\ report'[k] = [report[k] EXCEPT !.state = "over"]
  BY <1>1 DEF Disconnect
<1> HIDE DEF said
<1>6. report' \in [Number -> Report]
  <2>1. \A k \in Number : report'[k] \in Report
    <3> SUFFICES ASSUME NEW k \in Number PROVE report'[k] \in Report
      OBVIOUS
    <3>1. CASE k = n
      BY <1>2, <1>4, <3>1
    <3>2. CASE k # n
      <4>1. report[k] \in Report
        BY <1>1
      <4> QED BY <1>3, <1>5, <3>2, <4>1
    <3> QED BY <3>1, <3>2
  <2>2. report' = [k \in Number |-> report'[k]]
    BY <1>1 DEF Disconnect
  <2> QED BY <2>1, <2>2
<1>7. UNCHANGED <<progress, counted, latest, amiss>> /\ pending' = 0
  BY DEF Disconnect
<1>8. ProgressTypes'
  BY <1>6, <1>7 DEF Reporting, ProgressTypes
<1>9. \A k \in Number : report'[k].state # "none" => k <= made'
  <2>1. \A k \in Number \ {n} : report'[k].state # "none" => report[k].state # "none"
    BY <1>5 DEF Waiting
  <2>2. \A k \in Number : report[k].state # "none" => k <= n
    BY Fresh
  <2> SUFFICES ASSUME NEW k \in Number, report'[k].state # "none" PROVE k <= made'
    OBVIOUS
  <2>3. k \in Int /\ n \in Int
    BY NumberFacts
  <2>4. CASE k = n
    BY <2>3, <2>4
  <2>5. CASE k # n
    BY <2>1, <2>2, <2>5
  <2> QED BY <2>4, <2>5
<1>10. \A k \in Number \ {n} : Underway(k)' => Underway(k) /\ report'[k] = report[k]
  BY <1>3, <1>5 DEF Underway
<1>11. Underway(n)'
  BY <1>2, <1>4 DEF Underway
<1>12. latest # n /\ (latest # 0 => report'[latest].percent = report[latest].percent)
  <2>1. latest \in {0} \cup Number /\ latest # n
    BY Fresh DEF Reporting, ProgressTypes
  <2>2. latest # 0 => report[latest] \in Report
    BY <1>1, <2>1
  <2>3. latest # 0 => [report[latest] EXCEPT !.state = "over"].percent = report[latest].percent
    BY <2>2 DEF Report
  <2> QED BY <1>5, <2>1, <2>3
<1>13. ASSUME amiss' = {}, NEW k \in Number
       PROVE  Settled(k)'
  <2>1. Settled(pending) /\ (k # n => Settled(k))
    BY <1>1, <1>7, <1>13 DEF Reporting
  <2>2. CASE k = n
    BY <1>1, <1>2, <1>4, <1>7, <1>12, <2>1, <2>2 DEF Settled
  <2>3. CASE k # n
    BY <1>7, <1>10, <1>12, <2>1, <2>3 DEF Settled
  <2> QED BY <2>2, <2>3
<1>14. latest' <= made' /\ pending' <= made' /\ made' \in Nat
  BY <1>7, Fresh, NumberFacts
<1> QED BY <1>7, <1>8, <1>9, <1>11, <1>13, <1>14 DEF Reporting

\* A step that moves one report on, and leaves all others.
LEMMA TimerStep ==
    ASSUME Reporting, NEW n \in Number, TimerFires(n)
    PROVE  Reporting'
<1>1. report[n] \in Report /\ report \in [Number -> Report]
  BY DEF Reporting, ProgressTypes
<1>2. report' = [report EXCEPT ![n] = [report[n] EXCEPT !.state = "finding", !.timed = TRUE]]
  BY <1>1 DEF TimerFires, Report
<1>3. PICK r : r = [report[n] EXCEPT !.state = "finding", !.timed = TRUE]
  OBVIOUS
<1>4. r \in Report /\ r.state = "finding" /\ r.timed /\ r.percent = report[n].percent
  BY <1>1, <1>3 DEF Report
<1>5. \A k \in Number : report'[k] = IF k = n THEN r ELSE report[k]
  BY <1>1, <1>2, <1>3
<1>6. UNCHANGED <<progress, pending, made, counted, latest, amiss>> /\ report[n].state = "waiting"
  BY DEF TimerFires, Waiting
<1>7. ProgressTypes'
  <2>1. report' \in [Number -> Report]
    BY <1>1, <1>2, <1>3, <1>4
  <2> QED BY <2>1, <1>6 DEF Reporting, ProgressTypes
<1>8. \A k \in Number : (Underway(k)' <=> Underway(k)) /\ report'[k].percent = report[k].percent
  BY <1>4, <1>5, <1>6 DEF Underway
<1>9. \A k \in Number : report'[k].state # "none" => k <= made'
  BY <1>4, <1>5, <1>6 DEF Reporting
<1>10. pending' # 0 => Underway(pending)' /\ (report'[pending'].state # "waiting" => report'[pending'].timed)
  BY <1>4, <1>5, <1>6, <1>8 DEF Reporting, ProgressTypes
<1>11. latest \in {0} \cup Number
  BY DEF Reporting, ProgressTypes
<1> QED BY <1>6, <1>7, <1>8, <1>9, <1>10, <1>11 DEF Reporting, Settled

LEMMA FindStep ==
    ASSUME Reporting, NEW n \in Number, ReportFind(n)
    PROVE  Reporting'
<1>1. report[n] \in Report /\ report \in [Number -> Report] /\ progress \in {Null} \cup ProgressRow
  BY DEF Reporting, ProgressTypes
<1>2. report' = [report EXCEPT ![n] = [report[n] EXCEPT !.state = "saving", !.row = progress]]
  BY <1>1 DEF ReportFind, Report
<1>3. PICK r : r = [report[n] EXCEPT !.state = "saving", !.row = progress]
  OBVIOUS
<1>4. r \in Report /\ r.state = "saving" /\ r.timed = report[n].timed /\ r.percent = report[n].percent
  BY <1>1, <1>3 DEF Report
<1>5. \A k \in Number : report'[k] = IF k = n THEN r ELSE report[k]
  BY <1>1, <1>2, <1>3
<1>6. UNCHANGED <<progress, pending, made, counted, latest, amiss>> /\ report[n].state = "finding"
  BY DEF ReportFind
<1>7. ProgressTypes'
  <2>1. report' \in [Number -> Report]
    BY <1>1, <1>2, <1>3, <1>4
  <2> QED BY <2>1, <1>6 DEF Reporting, ProgressTypes
<1>8. \A k \in Number : (Underway(k)' <=> Underway(k)) /\ report'[k].percent = report[k].percent
  BY <1>4, <1>5, <1>6 DEF Underway
<1>9. \A k \in Number : report'[k].state # "none" => k <= made'
  BY <1>4, <1>5, <1>6 DEF Reporting
<1>10. pending' # 0 => Underway(pending)' /\ (report'[pending'].state # "waiting" => report'[pending'].timed)
  BY <1>4, <1>5, <1>6, <1>8 DEF Reporting, ProgressTypes
<1>11. latest \in {0} \cup Number
  BY DEF Reporting, ProgressTypes
<1> QED BY <1>6, <1>7, <1>8, <1>9, <1>10, <1>11 DEF Reporting, Settled

\* What Over() leaves of the reports.
LEMMA OverFacts ==
    ASSUME Reporting, NEW n \in Number, Over(n), report[n].state \in {"finding", "saving"}
    PROVE  /\ report' \in [Number -> Report]
           /\ pending' \in {0} \cup Number /\ pending' <= made
           /\ ~Underway(n)' /\ \A k \in Number \ {n} : report'[k] = report[k]
           /\ \A k \in Number : report'[k].state # "none" => k <= made
           /\ \A k \in Number : report'[k].percent = report[k].percent
           /\ pending' # 0 => Underway(pending)' /\ (report'[pending'].state # "waiting" => report'[pending'].timed)
<1>1. report[n] \in Report /\ report \in [Number -> Report] /\ pending \in {0} \cup Number
  BY DEF Reporting, ProgressTypes
<1>2. report' = [report EXCEPT ![n] = [report[n] EXCEPT !.state = "over", !.row = Null]]
  BY <1>1 DEF Over
<1>3. PICK r : r = [report[n] EXCEPT !.state = "over", !.row = Null]
  OBVIOUS
<1>4. r \in Report /\ r.state = "over" /\ r.percent = report[n].percent
  BY <1>1, <1>3 DEF Report
<1>5. \A k \in Number : report'[k] = IF k = n THEN r ELSE report[k]
  BY <1>1, <1>2, <1>3
<1>6. report' \in [Number -> Report]
  BY <1>1, <1>2, <1>3, <1>4
<1>7. pending' \in {0} \cup Number /\ pending' <= made
  BY <1>1, NumberFacts DEF Over, Reporting
<1>8. ~Underway(n)' /\ \A k \in Number \ {n} : report'[k] = report[k]
  BY <1>4, <1>5 DEF Underway
<1>9. \A k \in Number : report'[k].state # "none" => k <= made
  BY <1>5 DEF Reporting
<1>10. \A k \in Number : report'[k].percent = report[k].percent
  BY <1>4, <1>5
<1>11. pending' # 0 => Underway(pending)' /\ (report'[pending'].state # "waiting" => report'[pending'].timed)
  <2> SUFFICES ASSUME pending' # 0
               PROVE  Underway(pending)' /\ (report'[pending'].state # "waiting" => report'[pending'].timed)
    OBVIOUS
  <2>1. ~report[n].timed /\ pending' = pending /\ pending \in Number
    BY <1>1 DEF Over
  <2>2. Underway(pending) /\ (report[pending].state # "waiting" => report[pending].timed)
    BY <2>1, NumberFacts DEF Reporting
  <2>3. pending # n
    BY <2>1, <2>2
  <2> QED BY <1>5, <2>1, <2>2, <2>3 DEF Underway
<1> QED BY <1>6, <1>7, <1>8, <1>9, <1>10, <1>11

LEMMA SaveStep ==
    ASSUME Reporting, NEW n \in Number, ReportSave(n)
    PROVE  Reporting'
<1>1. report[n] \in Report /\ report[n].state = "saving" /\ Over(n) /\ UNCHANGED <<made, latest>>
  BY DEF ReportSave, Reporting, ProgressTypes
<1>2. PICK r, spent : r = report[n] /\ spent = IF r.spent = Null THEN 0 ELSE r.spent
  OBVIOUS
<1>3. r \in Report /\ spent \in Nat /\ r.percent \in 0..100
  BY <1>1, <1>2 DEF Report
<1>4. \/ /\ amiss' = amiss \cup {"failed"} /\ UNCHANGED <<progress, counted>>
      \/ /\ ~(r.row = Null /\ (progress # Null \/ r.spent # Null))
         /\ progress' = Reported(r.row, r.percent, spent) /\ counted' = counted + spent
         /\ amiss' = IF progress # r.row THEN amiss \cup {"stale"} ELSE amiss
  BY <1>2 DEF ReportSave
<1>5. /\ Reported(r.row, r.percent, spent) \in ProgressRow
      /\ Reported(r.row, r.percent, spent).progressPercent = r.percent
      /\ Reported(r.row, r.percent, spent).timeSpent = (IF r.row = Null THEN 0 ELSE r.row.timeSpent) + spent
  <2>1. r.row \in {Null} \cup ProgressRow
    BY <1>3 DEF Report
  <2> QED BY <1>3, <2>1 DEF Reported, ProgressRow
<1>6. counted \in Nat /\ progress \in {Null} \cup ProgressRow /\ amiss \subseteq {"stale", "crossing", "failed"}
  BY DEF Reporting, ProgressTypes
<1>7. ProgressTypes'
  <2>1. progress' \in {Null} \cup ProgressRow /\ counted' \in Nat /\ amiss' \subseteq {"stale", "crossing", "failed"}
    <3>1. amiss' \subseteq {"stale", "crossing", "failed"}
      BY <1>4, <1>6
    <3>2. progress' \in {Null} \cup ProgressRow /\ counted' \in Nat
      <4>1. UNCHANGED <<progress, counted>> \/ (progress' = Reported(r.row, r.percent, spent) /\ counted' = counted + spent)
        BY <1>4
      <4> QED BY <4>1, <1>3, <1>5, <1>6
    <3> QED BY <3>1, <3>2
  <2> QED BY <1>1, <2>1, OverFacts DEF Reporting, ProgressTypes
<1>8. progress' = Null => counted' = 0
  <2>1. CASE UNCHANGED <<progress, counted>>
    BY <2>1 DEF Reporting
  <2>2. CASE progress' = Reported(r.row, r.percent, spent)
    BY <2>2, <1>5, ProgressNullAssumption
  <2> QED BY <1>4, <2>1, <2>2
<1>9. progress' # Null /\ "stale" \notin amiss' => progress'.timeSpent = counted'
  <2>1. CASE amiss' = amiss \cup {"failed"} /\ UNCHANGED <<progress, counted>>
    BY <2>1 DEF Reporting
  <2>2. CASE /\ ~(r.row = Null /\ (progress # Null \/ r.spent # Null))
             /\ progress' = Reported(r.row, r.percent, spent) /\ counted' = counted + spent
             /\ amiss' = IF progress # r.row THEN amiss \cup {"stale"} ELSE amiss
    <3> SUFFICES ASSUME "stale" \notin amiss' PROVE progress'.timeSpent = counted'
      OBVIOUS
    <3>1. progress = r.row /\ "stale" \notin amiss
      BY <2>2
    <3>2. counted = IF r.row = Null THEN 0 ELSE r.row.timeSpent
      BY <3>1 DEF Reporting
    <3> QED BY <2>2, <1>5, <3>2
  <2> QED BY <1>4, <2>1, <2>2
<1>10. ASSUME amiss' = {}
       PROVE  /\ \A k \in Number : Settled(k)'
              /\ latest' # 0 => (\E k \in Number : Underway(k)') \/ (progress' # Null /\ progress'.progressPercent = report'[latest'].percent)
  <2>1. amiss = {} /\ progress' = Reported(r.row, r.percent, spent)
    BY <1>4, <1>10
  <2>2. \A k \in Number : Settled(k)
    BY <2>1 DEF Reporting
  <2>3. latest \in {0} \cup Number /\ latest' = latest
    BY <1>1 DEF Reporting, ProgressTypes
  <2>4. \A k \in Number : Underway(k)' => Underway(k)
    BY <1>1, OverFacts DEF Underway
  <2>5. \A k \in Number : Settled(k)'
    BY <2>2, <2>3, <2>4, <1>1, OverFacts DEF Settled
  <2>6. latest # 0 /\ r.percent = report[latest].percent
    BY <2>2, <1>1, <1>2 DEF Settled, Underway
  <2>7. progress' # Null /\ progress'.progressPercent = report'[latest'].percent
    BY <2>1, <2>3, <2>6, <1>1, <1>5, OverFacts, ProgressNullAssumption
  <2> QED BY <2>5, <2>7
<1>11. latest <= made /\ made \in Nat
  BY DEF Reporting
<1> QED BY <1>1, <1>7, <1>8, <1>9, <1>10, <1>11, OverFacts DEF Reporting

LEMMA FailStep ==
    ASSUME Reporting, NEW n \in Number, ReportFail(n)
    PROVE  Reporting'
<1>1. report[n].state \in {"finding", "saving"} /\ Over(n) /\ UNCHANGED <<progress, made, counted, latest>>
  BY DEF ReportFail
<1>2. amiss' = amiss \cup {"failed"}
  BY DEF ReportFail
<1>3. ProgressTypes'
  BY <1>1, <1>2, OverFacts DEF Reporting, ProgressTypes
<1> QED BY <1>1, <1>2, <1>3, OverFacts DEF Reporting

LEMMA RestartStep ==
    ASSUME Reporting, Restart
    PROVE  Reporting'
<1> DEFINE over(k) == [report[k] EXCEPT !.state = IF Underway(k) THEN "over" ELSE report[k].state, !.row = Null]
<1>1. report \in [Number -> Report]
  BY DEF Reporting, ProgressTypes
<1>2. report' = [k \in Number |-> over(k)]
  BY <1>1 DEF Restart, Report
<1>3. \A k \in Number : over(k) \in Report /\ (over(k).state # "none" => report[k].state # "none")
  <2> SUFFICES ASSUME NEW k \in Number
               PROVE  over(k) \in Report /\ (over(k).state # "none" => report[k].state # "none")
    OBVIOUS
  <2>1. report[k] \in Report
    BY <1>1
  <2> QED BY <2>1 DEF Report, Underway
<1> HIDE DEF over
<1>4. UNCHANGED <<progress, made, counted, latest>> /\ pending' = 0 /\ amiss' = amiss \cup {"failed"}
  BY DEF Restart
<1>5. ProgressTypes'
  BY <1>2, <1>3, <1>4 DEF Reporting, ProgressTypes
<1>6. 0 <= made
  BY DEF Reporting
<1>7. \A k \in Number : report'[k].state # "none" => k <= made'
  BY <1>2, <1>3, <1>4 DEF Reporting
<1> QED BY <1>4, <1>5, <1>6, <1>7 DEF Reporting

LEMMA ReportingStep ==
    ASSUME Reporting, ProgressNext
    PROVE  Reporting'
<1>1. CASE ReportServe
  <2>1. PICK n : n = made + 1
    OBVIOUS
  <2>2. n \in Number /\ made' = n /\ (HttpReport(n) \/ SocketReport(n) \/ Disconnect(n))
    BY <1>1, <2>1 DEF ReportServe, Request
  <2> QED BY <2>1, <2>2, HttpReportStep, SocketReportStep, DisconnectStep
<1>2. CASE Restart
  BY <1>2, RestartStep
<1>3. ASSUME NEW n \in Number, ReportContinue(n)
      PROVE  Reporting'
  BY <1>3, TimerStep, FindStep, SaveStep, FailStep DEF ReportContinue
<1> QED BY <1>1, <1>2, <1>3 DEF ProgressNext

\* What the invariant says of the reports.
LEMMA ReportingStands == Reporting => ProgressStands
BY DEF Reporting, ProgressStands

\* A row that is completed stays so in each step, if it saves over no other.
LEMMA CompletesStep ==
    ASSUME Reporting, ProgressNext, progress # Null, progress.completed, "stale" \notin amiss'
    PROVE  progress' # Null /\ progress'.completed
<1>1. CASE progress' = progress
  BY <1>1
<1>2. CASE progress' # progress
  <2>1. PICK n \in Number : ReportSave(n)
    BY <1>2 DEF ProgressNext, ReportServe, HttpReport, SocketReport, Disconnect, Restart, ReportContinue,
                TimerFires, ReportFind, ReportFail
  <2>2. PICK r, spent : r = report[n] /\ spent = IF r.spent = Null THEN 0 ELSE r.spent
    OBVIOUS
  <2>3. progress' = Reported(r.row, r.percent, spent) /\ progress = r.row
    BY <1>2, <2>1, <2>2 DEF ReportSave
  <2>4. r \in Report
    BY <2>2 DEF Reporting, ProgressTypes
  <2>5. Reported(r.row, r.percent, spent) \in ProgressRow
    <3>1. spent \in Nat /\ r.percent \in 0..100 /\ r.row \in ProgressRow
      BY <2>2, <2>3, <2>4 DEF Report
    <3> QED BY <3>1 DEF Reported, ProgressRow
  <2> QED BY <2>3, <2>5, ProgressNullAssumption DEF Reported
<1> QED BY <1>1, <1>2

(***************************************************************************)
(* Videos                                                                  *)
(***************************************************************************)
RowSteps == {"playCheck", "videoSave", "objectRemove", "hookInfo", "watchFind"}
ViewingOf(r) ==
    /\ r \in Viewing
    /\ r.pc \in RowSteps \cup {"watchSave"} => r.video \in Video /\ video[r.video] # Null
    /\ r.pc \in RowSteps => r.row # Null /\ r.row.object = video[r.video].object
    /\ r.pc = "watchSave" => r.after # Null /\ (r.before # Null /\ r.before.isCompleted => r.after.isCompleted)
    /\ r.pc \in {"resourceInsert", "videoInsert"} => r.object # Null
    /\ r.object # Null => /\ r.pc \in {"resourceInsert", "videoInsert"} /\ r.object \in used
                          /\ \A v \in Video : video[v] # Null => video[v].object # r.object
    /\ r.pc \in {"unified", "legacy", "resourceInsert"} => (r.keeps => r.video = Null)
    /\ r.removing => r.pc = "videoSave" /\ r.row.status = "deleted"
Watching ==
    /\ VideosTypes
    /\ \A p \in Proc : ViewingOf(viewer[p])
    /\ \A p, q \in Proc : viewer[p].object # Null /\ viewer[p].object = viewer[q].object => p = q
    /\ \A v \in Video : video[v] # Null => video[v].object \in used
    /\ \A v, w \in Video : video[v] # Null /\ video[w] # Null /\ video[v].object = video[w].object => v = w
    /\ BunnyMatches

LEMMA NoViewingType ==
    /\ NoViewing \in Viewing
    /\ NoViewing.pc = "idle" /\ NoViewing.object = Null /\ ~NoViewing.removing
BY VideosAssumption DEF NoViewing, Viewing

LEMMA IdleViewing == ViewingOf(NoViewing)
BY NoViewingType DEF ViewingOf, RowSteps

LEMMA WatchingInit ==
    ASSUME NEW begun \in BOOLEAN, VideosInit(begun)
    PROVE  Watching
<1> DEFINE first == CHOOSE v \in Video : TRUE
           its == CHOOSE o \in Object : TRUE
<1>1. first \in Video /\ its \in Object
  BY VideosAssumption
<1>2. PICK length \in Lengths :
        video = [v \in Video |-> IF begun /\ v = first
                                 THEN [status |-> "ready", object |-> its, durationSeconds |-> length] ELSE Null]
  BY DEF VideosInit
<1>3. [status |-> "ready", object |-> its, durationSeconds |-> length] \in VideoRow
  BY <1>1, VideosAssumption DEF VideoRow
<1>4. /\ objects = (IF begun THEN {its} ELSE {}) /\ used = objects
      /\ watch = [v \in Video |-> Null]
      /\ resources = {} /\ mislaid = {} /\ lost = {} /\ rewound = {}
      /\ viewer = [p \in Proc |-> NoViewing]
  BY DEF VideosInit
<1> HIDE DEF first, its
<1>5. VideosTypes
  BY <1>1, <1>2, <1>3, <1>4, NoViewingType DEF VideosTypes
<1>6. \A v \in Video : video[v] # Null => begun /\ v = first /\ video[v].object = its
  BY <1>2
<1>7. BunnyMatches
  BY <1>1, <1>2, <1>3, <1>4, <1>6, VideosNullAssumption DEF BunnyMatches, Named
<1> QED BY <1>4, <1>5, <1>6, <1>7, NoViewingType, IdleViewing DEF Watching

LEMMA WatchingRest ==
    ASSUME Watching, UNCHANGED videos
    PROVE  Watching'
BY DEF Watching, VideosTypes, ViewingOf, BunnyMatches, Named, Removing, videos

\* A step of one request: it leaves the videos their objects, and takes no object that is
\* another's.
LEMMA ViewerMoves ==
    ASSUME Watching, NEW p \in Proc, NEW r \in Viewing, viewer' = [viewer EXCEPT ![p] = r], ViewingOf(r)',
           used \subseteq used', video' \in [Video -> {Null} \cup VideoRow],
           r.object = viewer[p].object \/ r.object \notin used,
           \A v \in Video : video[v] # Null => video'[v] # Null /\ video'[v].object = video[v].object,
           \A v, w \in Video : video'[v] # Null /\ video[v] = Null =>
                  /\ viewer[p].object # Null /\ video'[v].object = viewer[p].object /\ r.object = Null
                  /\ (video'[w] # Null /\ video[w] = Null => v = w)
    PROVE  /\ \A q \in Proc : ViewingOf(viewer[q])'
           /\ \A q, s \in Proc : viewer'[q].object # Null /\ viewer'[q].object = viewer'[s].object => q = s
           /\ \A v \in Video : video'[v] # Null => video'[v].object \in used'
           /\ \A v, w \in Video : video'[v] # Null /\ video'[w] # Null /\ video'[v].object = video'[w].object => v = w
           /\ viewer' \in [Proc -> Viewing]
<1>1. \A q \in Proc : viewer[q] \in Viewing /\ viewer'[q] = IF q = p THEN r ELSE viewer[q]
  BY DEF Watching, VideosTypes
<1>2. \A q \in Proc : viewer[q].object # Null => viewer[q].object \in used
  BY DEF Watching, ViewingOf
<1>3. \A q, s \in Proc : viewer[q].object # Null /\ viewer[q].object = viewer[s].object => q = s
  BY DEF Watching
<1>4. \A q, s \in Proc : viewer'[q].object # Null /\ viewer'[q].object = viewer'[s].object => q = s
  BY <1>1, <1>2, <1>3
<1>5. ASSUME NEW q \in Proc \ {p}
      PROVE  ViewingOf(viewer[q])'
  <2>1. ViewingOf(viewer[q]) /\ viewer'[q] = viewer[q]
    BY <1>1 DEF Watching
  <2>2. ASSUME viewer[q].object # Null, NEW v \in Video, video'[v] # Null
        PROVE  video'[v].object # viewer[q].object
    BY <2>1, <2>2, <1>3 DEF ViewingOf
  <2>3. viewer[q].video \in Video /\ video[viewer[q].video] # Null =>
           video'[viewer[q].video] # Null /\ video'[viewer[q].video].object = video[viewer[q].video].object
    OBVIOUS
  <2> QED BY <2>1, <2>2, <2>3 DEF ViewingOf
<1>6. \A q \in Proc : ViewingOf(viewer[q])'
  BY <1>1, <1>5
<1>7. \A v \in Video : video'[v] # Null => video'[v].object \in used'
  BY <1>2 DEF Watching
<1>8. ASSUME NEW v \in Video, NEW w \in Video, video'[v] # Null, video'[w] # Null, video'[v].object = video'[w].object
      PROVE  v = w
  <2>1. CASE video[v] # Null /\ video[w] # Null
    BY <2>1, <1>8 DEF Watching
  <2>2. \A x, y \in Video : video[x] = Null /\ video'[x] # Null /\ video[y] # Null => video'[x].object # video'[y].object
    BY DEF Watching, ViewingOf
  <2> QED BY <2>1, <2>2, <1>8
<1>9. viewer' \in [Proc -> Viewing]
  BY DEF Watching, VideosTypes
<1> QED BY <1>4, <1>6, <1>7, <1>8, <1>9

\* A step that changes neither a video nor what is known of the objects.
LEMMA QuietStep ==
    ASSUME Watching, NEW p \in Proc, NEW r \in Viewing, viewer' = [viewer EXCEPT ![p] = r], ViewingOf(r),
           UNCHANGED <<video, objects, used, resources, mislaid, lost>>,
           watch' \in [Video -> {Null} \cup WatchRow], rewound' \subseteq Video,
           r.object = viewer[p].object, viewer[p].removing => r.removing /\ r.video = viewer[p].video
    PROVE  Watching'
<1>1. ViewingOf(r)'
  BY DEF ViewingOf
<1>2. viewer \in [Proc -> Viewing] /\ video \in [Video -> {Null} \cup VideoRow]
  BY DEF Watching, VideosTypes
<1>3. \A v \in Video : Removing(v) => Removing(v)'
  BY <1>2 DEF Removing
<1>4. \A o \in objects : (\E q \in Proc : viewer[q].object = o) => \E q \in Proc : viewer'[q].object = o
  BY <1>2
<1>5. BunnyMatches'
  BY <1>3, <1>4 DEF BunnyMatches, Watching, Named
<1>6. /\ \A q \in Proc : ViewingOf(viewer[q])'
      /\ \A q, s \in Proc : viewer'[q].object # Null /\ viewer'[q].object = viewer'[s].object => q = s
      /\ \A v \in Video : video'[v] # Null => video'[v].object \in used'
      /\ \A v, w \in Video : video'[v] # Null /\ video'[w] # Null /\ video'[v].object = video'[w].object => v = w
      /\ viewer' \in [Proc -> Viewing]
  BY <1>1, <1>2, ViewerMoves
<1>7. VideosTypes'
  BY <1>6 DEF Watching, VideosTypes
<1> QED BY <1>5, <1>6, <1>7 DEF Watching

\* Where a request ends that has no object and removes none.
LEMMA ViewerEnds ==
    ASSUME Watching, NEW p \in Proc, ViewerEnd(p), viewer[p].object = Null, ~viewer[p].removing,
           UNCHANGED <<video, objects, used, resources, mislaid, lost>>,
           watch' \in [Video -> {Null} \cup WatchRow], rewound' \subseteq Video
    PROVE  Watching'
BY QuietStep, NoViewingType, IdleViewing DEF ViewerEnd

\* A request begins.
LEMMA ViewerBegins ==
    ASSUME Watching, NEW p \in Proc, NEW memo, memo \in Viewing, ViewerBegin(p, memo), ViewingOf(memo), memo.object = Null,
           UNCHANGED <<video, watch, objects, used, resources, mislaid, lost, rewound>>
    PROVE  Watching'
<1>1. ViewingOf(viewer[p]) /\ viewer[p].pc = "idle" /\ viewer' = [viewer EXCEPT ![p] = memo]
  BY DEF Watching, ViewerBegin
<1>2. viewer[p].object = Null /\ ~viewer[p].removing
  BY <1>1 DEF ViewingOf
<1>3. watch' \in [Video -> {Null} \cup WatchRow] /\ rewound' \subseteq Video
  BY DEF Watching, VideosTypes
<1> QED BY <1>1, <1>2, <1>3, QuietStep

LEMMA BeginSteps ==
    ASSUME Watching, NEW p \in Proc,
           VideoCreate(p) \/ CredentialsFind(p) \/ VideoFind(p) \/ VideoHook(p) \/ WatchBegin(p)
    PROVE  Watching'
<1>1. UNCHANGED <<video, watch, objects, used, resources, mislaid, lost, rewound>>
  BY DEF VideoCreate, CredentialsFind, VideoFind, VideoHook, WatchBegin
<1>2. video \in [Video -> {Null} \cup VideoRow]
  BY DEF Watching, VideosTypes
<1>3. CASE VideoCreate(p)
  <2>1. PICK service \in {"unified", "legacy"}, keeps \in BOOLEAN :
           ViewerBegin(p, [NoViewing EXCEPT !.pc = service, !.keeps = keeps])
    BY <1>3 DEF VideoCreate
  <2>2. PICK memo : memo = [NoViewing EXCEPT !.pc = service, !.keeps = keeps]
    OBVIOUS
  <2>3. memo \in Viewing /\ memo.object = Null /\ ViewingOf(memo)
    <3>1. memo \in Viewing
      BY <2>2, VideosAssumption, NoViewingType, ZenonT(60) DEF Viewing
    <3>2. memo.object = Null /\ ~memo.removing /\ memo.pc \notin {"watchSave", "resourceInsert", "videoInsert"}
      BY <2>2, VideosAssumption, NoViewingType DEF Viewing
    <3>3. memo.pc \in RowSteps => memo.video \in Video /\ video[memo.video] # Null /\ memo.row # Null /\ memo.row.object = video[memo.video].object
      BY <2>2, VideosAssumption, NoViewingType DEF Viewing, RowSteps
    <3>4. memo.pc \in {"unified", "legacy"} => (memo.keeps => memo.video = Null)
      BY <2>2, VideosAssumption, NoViewingType DEF Viewing, NoViewing
    <3> QED BY <3>1, <3>2, <3>3, <3>4 DEF ViewingOf
  <2> QED BY <2>1, <2>2, <2>3, <1>1, ViewerBegins
<1>4. CASE CredentialsFind(p)
  <2>1. PICK v \in Video : video[v] # Null /\ ViewerBegin(p, [NoViewing EXCEPT !.pc = "unified", !.video = v])
    BY <1>4 DEF CredentialsFind
  <2>2. PICK memo : memo = [NoViewing EXCEPT !.pc = "unified", !.video = v]
    OBVIOUS
  <2>3. memo \in Viewing /\ memo.object = Null /\ ViewingOf(memo)
    <3>1. memo \in Viewing
      BY <2>2, VideosAssumption, NoViewingType, ZenonT(60) DEF Viewing
    <3>2. memo.object = Null /\ ~memo.removing /\ memo.pc \notin {"watchSave", "resourceInsert", "videoInsert"}
      BY <2>2, VideosAssumption, NoViewingType DEF Viewing
    <3>3. memo.pc \in RowSteps => memo.video \in Video /\ video[memo.video] # Null /\ memo.row # Null /\ memo.row.object = video[memo.video].object
      BY <2>2, VideosAssumption, NoViewingType DEF Viewing, RowSteps
    <3>4. memo.pc \in {"unified", "legacy"} => (memo.keeps => memo.video = Null)
      BY <2>2, VideosAssumption, NoViewingType DEF Viewing, NoViewing
    <3> QED BY <3>1, <3>2, <3>3, <3>4 DEF ViewingOf
  <2> QED BY <2>1, <2>2, <2>3, <1>1, ViewerBegins
<1>5. CASE VideoFind(p)
  <2>1. PICK v \in Video, step \in {"videoSave", "objectRemove", "playCheck"} :
           video[v] # Null /\ ViewerBegin(p, [NoViewing EXCEPT !.pc = step, !.video = v, !.row = video[v]])
    BY <1>5 DEF VideoFind
  <2>2. PICK memo : memo = [NoViewing EXCEPT !.pc = step, !.video = v, !.row = video[v]]
    OBVIOUS
  <2>3. memo \in Viewing /\ memo.object = Null /\ ViewingOf(memo)
    <3>1. memo \in Viewing
      BY <2>1, <2>2, <1>2, VideosAssumption, NoViewingType, ZenonT(60) DEF Viewing
    <3>2. memo.object = Null /\ ~memo.removing /\ memo.pc \notin {"watchSave", "resourceInsert", "videoInsert"}
      BY <2>1, <2>2, <1>2, VideosAssumption, NoViewingType DEF Viewing
    <3>3. memo.pc \in RowSteps => memo.video \in Video /\ video[memo.video] # Null /\ memo.row # Null /\ memo.row.object = video[memo.video].object
      BY <2>1, <2>2, <1>2, VideosAssumption, NoViewingType DEF Viewing, RowSteps
    <3>4. memo.pc \in {"unified", "legacy"} => (memo.keeps => memo.video = Null)
      BY <2>1, <2>2, <1>2, VideosAssumption, NoViewingType DEF Viewing, NoViewing
    <3> QED BY <3>1, <3>2, <3>3, <3>4 DEF ViewingOf
  <2> QED BY <2>1, <2>2, <2>3, <1>1, ViewerBegins
<1>6. CASE VideoHook(p)
  <2>1. PICK v \in Video, code \in 0..6, length \in Lengths :
          /\ video[v] # Null
          /\ ViewerBegin(p, [NoViewing EXCEPT
                !.pc = "hookInfo", !.video = v,
                !.row = [video[v] EXCEPT !.status = StatusOf(code, video[v].status),
                                         !.durationSeconds = IF length > 0 THEN length ELSE video[v].durationSeconds]])
    BY <1>6 DEF VideoHook
  <2>2. PICK row : row = [video[v] EXCEPT !.status = StatusOf(code, video[v].status),
                                          !.durationSeconds = IF length > 0 THEN length ELSE video[v].durationSeconds]
    OBVIOUS
  <2>3. row \in VideoRow /\ row.object = video[v].object
    <3>1. video[v] \in VideoRow
      BY <2>1, <1>2
    <3>2. StatusOf(code, video[v].status) \in {"pending", "processing", "ready", "failed", "deleted"}
      BY <3>1 DEF StatusOf, VideoRow
    <3> QED BY <2>2, <3>1, <3>2, VideosAssumption DEF VideoRow
  <2>4. PICK memo : memo = [NoViewing EXCEPT !.pc = "hookInfo", !.video = v, !.row = row]
    OBVIOUS
  <2>5. memo \in Viewing /\ memo.object = Null /\ ViewingOf(memo)
    <3>1. memo \in Viewing
      BY <2>1, <2>3, <2>4, VideosAssumption, VideosNullAssumption, NoViewingType DEF Viewing
    <3>2. memo.object = Null /\ ~memo.removing /\ memo.pc \notin {"watchSave", "resourceInsert", "videoInsert"}
      BY <2>1, <2>3, <2>4, VideosAssumption, VideosNullAssumption, NoViewingType DEF Viewing
    <3>3. memo.pc \in RowSteps => memo.video \in Video /\ video[memo.video] # Null /\ memo.row # Null /\ memo.row.object = video[memo.video].object
      BY <2>1, <2>3, <2>4, VideosAssumption, VideosNullAssumption, NoViewingType DEF Viewing, RowSteps
    <3>4. memo.pc \in {"unified", "legacy"} => (memo.keeps => memo.video = Null)
      BY <2>1, <2>3, <2>4, VideosAssumption, VideosNullAssumption, NoViewingType DEF Viewing, NoViewing
    <3> QED BY <3>1, <3>2, <3>3, <3>4 DEF ViewingOf
  <2> QED BY <2>1, <2>2, <2>4, <2>5, <1>1, ViewerBegins
<1>7. CASE WatchBegin(p)
  <2>1. PICK v \in Video, position \in Positions, total \in BOOLEAN :
          /\ video[v] # Null
          /\ ViewerBegin(p, [NoViewing EXCEPT !.pc = "watchFind", !.video = v, !.row = video[v],
                                              !.position = position, !.total = total])
    BY <1>7 DEF WatchBegin
  <2>2. PICK memo : memo = [NoViewing EXCEPT !.pc = "watchFind", !.video = v, !.row = video[v],
                                              !.position = position, !.total = total]
    OBVIOUS
  <2>3. memo \in Viewing /\ memo.object = Null /\ ViewingOf(memo)
    <3>1. memo \in Viewing
      BY <2>1, <2>2, <1>2, VideosAssumption, NoViewingType, ZenonT(60) DEF Viewing
    <3>2. memo.object = Null /\ ~memo.removing /\ memo.pc \notin {"watchSave", "resourceInsert", "videoInsert"}
      BY <2>1, <2>2, <1>2, VideosAssumption, NoViewingType DEF Viewing
    <3>3. memo.pc \in RowSteps => memo.video \in Video /\ video[memo.video] # Null /\ memo.row # Null /\ memo.row.object = video[memo.video].object
      BY <2>1, <2>2, <1>2, VideosAssumption, NoViewingType DEF Viewing, RowSteps
    <3>4. memo.pc \in {"unified", "legacy"} => (memo.keeps => memo.video = Null)
      BY <2>1, <2>2, <1>2, VideosAssumption, NoViewingType DEF Viewing, NoViewing
    <3> QED BY <3>1, <3>2, <3>3, <3>4 DEF ViewingOf
  <2> QED BY <2>1, <2>2, <2>3, <1>1, ViewerBegins
<1> QED BY <1>3, <1>4, <1>5, <1>6, <1>7

\* Bunny makes an object that the request takes, or that is mislaid.
LEMMA ProducedStep ==
    ASSUME Watching, NEW p \in Proc, NEW r \in Viewing, NEW o \in Object, Produced(o),
           viewer' = [viewer EXCEPT ![p] = r], ViewingOf(r)', viewer[p].object = Null, ~viewer[p].removing,
           (r.object = o /\ mislaid' = mislaid) \/ (r.object = Null /\ mislaid' = mislaid \cup {o}),
           UNCHANGED <<video, watch, resources, lost, rewound>>
    PROVE  Watching'
<1>1. viewer \in [Proc -> Viewing] /\ video \in [Video -> {Null} \cup VideoRow]
  BY DEF Watching, VideosTypes
<1>2. o \notin used /\ objects' = objects \cup {o} /\ used' = used \cup {o}
  BY DEF Produced
<1>3. viewer' \in [Proc -> Viewing] /\ viewer'[p] = r /\ \A q \in Proc \ {p} : viewer'[q] = viewer[q]
  BY <1>1
<1>4. \A v \in Video : Removing(v) => Removing(v)'
  BY <1>1 DEF Removing
<1>5. \A v \in Video : video[v] # Null /\ video[v].object \notin objects' => video[v].object \notin objects
  BY <1>2
<1>6. \A x \in objects' : x \in objects \/ x = o
  BY <1>2
<1>7. \A x \in Object : (\E q \in Proc : viewer[q].object = x) => \E q \in Proc : viewer'[q].object = x
  BY <1>1, <1>3, VideosAssumption
<1>8. BunnyMatches'
  <2>1. \A v \in Video : video'[v] # Null /\ video'[v].status = "ready" /\ video'[v].object \notin objects'
                            => v \in lost' \/ Removing(v)'
    BY <1>4, <1>5 DEF Watching, BunnyMatches
  <2>2. ASSUME NEW x \in objects'
        PROVE  Named(x)' \/ x \in mislaid' \/ \E q \in Proc : viewer'[q].object = x
    <3>1. CASE x = o
      BY <3>1, <1>3
    <3>2. CASE x \in objects
      <4>1. x \in Object
        BY <3>2 DEF Watching, VideosTypes
      <4> QED BY <3>2, <4>1, <1>7 DEF Watching, BunnyMatches, Named
    <3> QED BY <3>1, <3>2, <1>6
  <2> QED BY <2>1, <2>2 DEF BunnyMatches
<1>9. r.object = viewer[p].object \/ r.object \notin used
  BY <1>2
<1>10. /\ \A q \in Proc : ViewingOf(viewer[q])'
       /\ \A q, s \in Proc : viewer'[q].object # Null /\ viewer'[q].object = viewer'[s].object => q = s
       /\ \A v \in Video : video'[v] # Null => video'[v].object \in used'
       /\ \A v, w \in Video : video'[v] # Null /\ video'[w] # Null /\ video'[v].object = video'[w].object => v = w
  BY <1>1, <1>2, <1>9, ViewerMoves
<1>11. VideosTypes'
  BY <1>2, <1>3 DEF Watching, VideosTypes
<1> QED BY <1>8, <1>10, <1>11 DEF Watching

\* What is known of a request that asks Bunny for an object.
LEMMA PostFacts ==
    ASSUME Watching, NEW p \in Proc, viewer[p].pc \in {"unified", "legacy"}
    PROVE  /\ viewer[p] \in Viewing /\ ViewingOf(viewer[p])
           /\ viewer[p].object = Null /\ ~viewer[p].removing /\ (viewer[p].keeps => viewer[p].video = Null)
           /\ \A v \in Video : video[v] # Null => video[v].object \in used
           /\ watch \in [Video -> {Null} \cup WatchRow] /\ rewound \subseteq Video
BY DEF Watching, VideosTypes, ViewingOf

\* The request that has its object.
LEMMA TakesObject ==
    ASSUME Watching, NEW p \in Proc, viewer[p].pc \in {"unified", "legacy"}, NEW o \in Object, Produced(o), UNCHANGED video,
           NEW r \in Viewing, r.pc \in {"resourceInsert", "videoInsert"}, r.object = o,
           r.removing = viewer[p].removing, r.keeps = viewer[p].keeps, r.video = viewer[p].video
    PROVE  ViewingOf(r)'
<1>1. o \notin used /\ o \in used' /\ video' = video
  BY DEF Produced
<1>2. \A v \in Video : video'[v] # Null => video'[v].object # r.object
  BY <1>1, PostFacts
<1>3. ~r.removing /\ (r.keeps => r.video = Null) /\ r.pc \notin RowSteps /\ r.pc # "watchSave"
  BY PostFacts DEF RowSteps
<1> QED BY <1>1, <1>2, <1>3, VideosAssumption DEF ViewingOf

LEMMA LegacyPostStep ==
    ASSUME Watching, NEW p \in Proc, LegacyPost(p)
    PROVE  Watching'
<1>1. viewer[p].pc = "legacy" /\ UNCHANGED <<video, watch, resources, lost, rewound>>
  BY DEF LegacyPost
<1>2. PICK o \in Object :
        /\ Produced(o)
        /\ \/ viewer' = [viewer EXCEPT ![p].pc = "resourceInsert", ![p].object = o] /\ UNCHANGED mislaid
           \/ ViewerEnd(p) /\ mislaid' = mislaid \cup {o}
  BY DEF LegacyPost
<1>3. CASE viewer' = [viewer EXCEPT ![p].pc = "resourceInsert", ![p].object = o] /\ UNCHANGED mislaid
  <2>1. PICK r : r = [viewer[p] EXCEPT !.pc = "resourceInsert", !.object = o]
    OBVIOUS
  <2>2. viewer' = [viewer EXCEPT ![p] = r]
    BY <1>1, <1>3, <2>1, PostFacts DEF Viewing
  <2>3. r \in Viewing /\ r.object = o /\ ViewingOf(r)'
    <3>1. r \in Viewing /\ r.pc = "resourceInsert" /\ r.object = o /\ r.removing = viewer[p].removing
          /\ r.keeps = viewer[p].keeps /\ r.video = viewer[p].video
      BY <1>1, <2>1, PostFacts, ZenonT(60) DEF Viewing
    <3> QED BY <1>1, <1>2, <3>1, TakesObject
  <2>4. viewer[p].object = Null /\ ~viewer[p].removing
    BY <1>1, PostFacts
  <2>5. r.object = o /\ mislaid' = mislaid /\ Produced(o)
    BY <1>2, <1>3, <2>3
  <2>6. UNCHANGED <<video, watch, resources, lost, rewound>>
    BY <1>1
  <2> QED BY <2>2, <2>3, <2>4, <2>5, <2>6, ProducedStep
<1>4. CASE ViewerEnd(p) /\ mislaid' = mislaid \cup {o}
  <2>1. ViewingOf(NoViewing)'
    BY NoViewingType DEF ViewingOf, RowSteps
  <2>2. viewer[p].object = Null /\ ~viewer[p].removing /\ viewer' = [viewer EXCEPT ![p] = NoViewing]
    BY <1>1, <1>4, PostFacts DEF ViewerEnd
  <2> QED BY <1>1, <1>2, <1>4, <2>1, <2>2, NoViewingType, ProducedStep
<1> QED BY <1>2, <1>3, <1>4

LEMMA UnifiedPostStep ==
    ASSUME Watching, NEW p \in Proc, UnifiedPost(p)
    PROVE  Watching'
<1> DEFINE memo == viewer[p]
           again == [memo EXCEPT !.attempt = memo.attempt + 1]
           legacy == [memo EXCEPT !.pc = "legacy", !.attempt = 1]
<1>1. memo.pc = "unified" /\ UNCHANGED <<video, watch, resources, lost, rewound>>
  BY DEF UnifiedPost
<1>2. memo \in Viewing /\ viewer \in [Proc -> Viewing] /\ memo.object = Null /\ ~memo.removing
  BY <1>1, PostFacts DEF Watching, VideosTypes
<1>3. /\ memo.attempt < BunnyAttempts => again \in Viewing /\ again.object = Null /\ ~again.removing /\ ViewingOf(again)
      /\ legacy \in Viewing /\ legacy.object = Null /\ ~legacy.removing /\ ViewingOf(legacy)
  <2>1. memo.attempt < BunnyAttempts => memo.attempt + 1 \in 1..BunnyAttempts
    BY <1>2, VideosAssumption DEF Viewing
  <2>2. 1 \in 1..BunnyAttempts
    BY VideosAssumption
  <2>3. memo.attempt < BunnyAttempts => again \in Viewing /\ again.pc = "unified" /\ again.object = Null
                                         /\ ~again.removing /\ again.keeps = memo.keeps /\ again.video = memo.video
    BY <1>1, <1>2, <2>1 DEF Viewing
  <2>4. legacy \in Viewing /\ legacy.pc = "legacy" /\ legacy.object = Null /\ ~legacy.removing
        /\ legacy.keeps = memo.keeps /\ legacy.video = memo.video
    BY <1>1, <1>2, <2>2, ZenonT(60) DEF Viewing
  <2>5. memo.keeps => memo.video = Null
    BY <1>1, PostFacts
  <2> HIDE DEF memo, again, legacy
  <2> QED BY <2>3, <2>4, <2>5 DEF ViewingOf, RowSteps
<1>4. PICK r : /\ r \in Viewing /\ ViewingOf(r) /\ viewer' = [viewer EXCEPT ![p] = r]
               /\ \/ /\ \E o \in Object : Produced(o) /\ mislaid' = mislaid \cup {o}
                     /\ r.object = Null
                  \/ UNCHANGED <<objects, used, mislaid>> /\ r.object = Null
      \/ \E o \in Object : Produced(o) /\ UNCHANGED mislaid
            /\ viewer' = [viewer EXCEPT ![p].pc = "videoInsert", ![p].object = o]
  <2>1. ViewerEnd(p) => viewer' = [viewer EXCEPT ![p] = NoViewing]
    BY DEF ViewerEnd
  <2>2. viewer' = [viewer EXCEPT ![p].attempt = @ + 1] => viewer' = [viewer EXCEPT ![p] = again]
    BY <1>2 DEF Viewing
  <2>3. viewer' = [viewer EXCEPT ![p].pc = "legacy", ![p].attempt = 1] => viewer' = [viewer EXCEPT ![p] = legacy]
    BY <1>2 DEF Viewing
  <2>4. \/ \E o \in Object : Produced(o) /\ UNCHANGED mislaid
            /\ viewer' = [viewer EXCEPT ![p].pc = "videoInsert", ![p].object = o]
        \/ /\ \/ memo.attempt < BunnyAttempts /\ viewer' = [viewer EXCEPT ![p].attempt = @ + 1]
              \/ viewer' = [viewer EXCEPT ![p].pc = "legacy", ![p].attempt = 1]
              \/ ViewerEnd(p)
           /\ \/ \E o \in Object : Produced(o) /\ mislaid' = mislaid \cup {o}
              \/ UNCHANGED <<objects, used, mislaid>>
    BY DEF UnifiedPost
  <2> HIDE DEF memo, again, legacy
  <2> QED BY <2>1, <2>2, <2>3, <2>4, <1>3, NoViewingType, IdleViewing
<1>5. CASE \E o \in Object : Produced(o) /\ UNCHANGED mislaid
            /\ viewer' = [viewer EXCEPT ![p].pc = "videoInsert", ![p].object = o]
  <2>1. PICK o \in Object : Produced(o) /\ UNCHANGED mislaid
            /\ viewer' = [viewer EXCEPT ![p].pc = "videoInsert", ![p].object = o]
    BY <1>5
  <2>2. PICK s : s = [viewer[p] EXCEPT !.pc = "videoInsert", !.object = o]
    OBVIOUS
  <2>3. viewer' = [viewer EXCEPT ![p] = s]
    BY <1>2, <2>1, <2>2 DEF Viewing
  <2>4. s \in Viewing /\ s.object = o /\ ViewingOf(s)'
    <3>1. s \in Viewing /\ s.pc = "videoInsert" /\ s.object = o /\ s.removing = viewer[p].removing
          /\ s.keeps = viewer[p].keeps /\ s.video = viewer[p].video
      BY <1>1, <2>2, PostFacts, ZenonT(60) DEF Viewing
    <3> QED BY <1>1, <2>1, <3>1, TakesObject
  <2>5. s.object = o /\ mislaid' = mislaid /\ Produced(o)
    BY <2>1, <2>4
  <2>6. UNCHANGED <<video, watch, resources, lost, rewound>> /\ viewer[p].object = Null /\ ~viewer[p].removing
    BY <1>1, <1>2
  <2> QED BY <2>3, <2>4, <2>5, <2>6, ProducedStep
<1>6. CASE /\ r \in Viewing /\ ViewingOf(r) /\ viewer' = [viewer EXCEPT ![p] = r]
           /\ \E o \in Object : Produced(o) /\ mislaid' = mislaid \cup {o}
           /\ r.object = Null
  <2>1. PICK o \in Object : Produced(o) /\ mislaid' = mislaid \cup {o}
    BY <1>6
  <2>2. ViewingOf(r)'
    BY <1>1, <1>6 DEF ViewingOf
  <2> QED BY <1>1, <1>2, <1>6, <2>1, <2>2, ProducedStep
<1>7. CASE /\ r \in Viewing /\ ViewingOf(r) /\ viewer' = [viewer EXCEPT ![p] = r]
           /\ UNCHANGED <<objects, used, mislaid>> /\ r.object = Null
  <2>1. watch' \in [Video -> {Null} \cup WatchRow] /\ rewound' \subseteq Video
    BY <1>1 DEF Watching, VideosTypes
  <2> QED BY <1>1, <1>2, <1>7, <2>1, QuietStep
<1> QED BY <1>4, <1>5, <1>6, <1>7

LEMMA ResourceInsertStep ==
    ASSUME Watching, NEW p \in Proc, ResourceInsert(p)
    PROVE  Watching'
<1>1. /\ viewer[p].pc = "resourceInsert" /\ resources' = resources \cup {viewer[p].object}
      /\ UNCHANGED <<video, watch, objects, used, mislaid, lost, rewound>>
  BY DEF ResourceInsert
<1>2. viewer[p] \in Viewing /\ ViewingOf(viewer[p]) /\ viewer \in [Proc -> Viewing]
  BY DEF Watching, VideosTypes
<1>3. viewer[p].object \in used /\ ~viewer[p].removing
  BY <1>1, <1>2 DEF ViewingOf
<1>4. PICK r \in Viewing : /\ viewer' = [viewer EXCEPT ![p] = r] /\ ViewingOf(r)
                           /\ r.object \in {viewer[p].object, Null}
  <2>1. CASE viewer[p].keeps /\ ViewerTo(p, "videoInsert")
    <3>1. PICK s : s = [viewer[p] EXCEPT !.pc = "videoInsert"]
      OBVIOUS
    <3>2. viewer' = [viewer EXCEPT ![p] = s]
      BY <1>2, <2>1, <3>1 DEF ViewerTo, Viewing
    <3>3. s \in Viewing /\ s.pc = "videoInsert" /\ s.object = viewer[p].object /\ ~s.removing
      BY <1>2, <1>3, <3>1 DEF Viewing
    <3>4. ViewingOf(s)
      BY <1>1, <1>2, <3>3 DEF ViewingOf, RowSteps
    <3> QED BY <3>2, <3>3, <3>4
  <2>2. CASE ViewerEnd(p)
    BY <2>2, NoViewingType, IdleViewing DEF ViewerEnd
  <2> QED BY <2>1, <2>2 DEF ResourceInsert
<1>5. ViewingOf(r)'
  BY <1>1, <1>4 DEF ViewingOf
<1>6. video \in [Video -> {Null} \cup VideoRow]
  BY DEF Watching, VideosTypes
<1>7. r.object = viewer[p].object \/ r.object \notin used
  BY <1>4, VideosAssumption DEF Watching, VideosTypes
<1>8. /\ \A q \in Proc : ViewingOf(viewer[q])'
      /\ \A q, s \in Proc : viewer'[q].object # Null /\ viewer'[q].object = viewer'[s].object => q = s
      /\ \A v \in Video : video'[v] # Null => video'[v].object \in used'
      /\ \A v, w \in Video : video'[v] # Null /\ video'[w] # Null /\ video'[v].object = video'[w].object => v = w
      /\ viewer' \in [Proc -> Viewing]
  BY <1>1, <1>4, <1>5, <1>6, <1>7, ViewerMoves
<1>9. \A v \in Video : Removing(v) => Removing(v)'
  BY <1>2, <1>3, <1>4 DEF Removing
<1>10. \A q \in Proc : viewer[q].object \in resources' \/ viewer'[q].object = viewer[q].object
  BY <1>1, <1>2, <1>4
<1>11. BunnyMatches'
  <2>1. \A v \in Video : video'[v] # Null /\ video'[v].status = "ready" /\ video'[v].object \notin objects'
                            => v \in lost' \/ Removing(v)'
    BY <1>1, <1>9 DEF Watching, BunnyMatches
  <2>2. \A o \in objects' : Named(o)' \/ o \in mislaid' \/ \E q \in Proc : viewer'[q].object = o
    BY <1>1, <1>10 DEF Watching, BunnyMatches, Named
  <2> QED BY <2>1, <2>2 DEF BunnyMatches
<1>12. VideosTypes'
  BY <1>1, <1>3, <1>8 DEF Watching, VideosTypes
<1> QED BY <1>8, <1>11, <1>12 DEF Watching

LEMMA VideoInsertStep ==
    ASSUME Watching, NEW p \in Proc, VideoInsert(p)
    PROVE  Watching'
<1>1. /\ viewer[p].pc = "videoInsert" /\ viewer' = [viewer EXCEPT ![p] = NoViewing]
      /\ UNCHANGED <<watch, objects, used, resources, mislaid, lost, rewound>>
  BY DEF VideoInsert, ViewerEnd
<1>2. PICK v \in Video : video[v] = Null /\ video' = [video EXCEPT ![v] =
                [status |-> "pending", object |-> viewer[p].object, durationSeconds |-> 0]]
  BY DEF VideoInsert
<1>3. viewer[p] \in Viewing /\ ViewingOf(viewer[p]) /\ viewer \in [Proc -> Viewing] /\ video \in [Video -> {Null} \cup VideoRow]
  BY DEF Watching, VideosTypes
<1>4. viewer[p].object \in used /\ viewer[p].object \in Object /\ ~viewer[p].removing
  BY <1>1, <1>3 DEF ViewingOf, Watching, VideosTypes
<1>5. PICK row : row = [status |-> "pending", object |-> viewer[p].object, durationSeconds |-> 0]
  OBVIOUS
<1>6. row \in VideoRow /\ row.object = viewer[p].object /\ row.status = "pending" /\ row # Null
  BY <1>4, <1>5, VideosNullAssumption DEF VideoRow
<1>7. \A w \in Video : video'[w] = IF w = v THEN row ELSE video[w]
  BY <1>2, <1>3, <1>5
<1>8. video' \in [Video -> {Null} \cup VideoRow]
  BY <1>2, <1>3, <1>5, <1>6
<1>9. /\ \A q \in Proc : ViewingOf(viewer[q])'
      /\ \A q, s \in Proc : viewer'[q].object # Null /\ viewer'[q].object = viewer'[s].object => q = s
      /\ \A x \in Video : video'[x] # Null => video'[x].object \in used'
      /\ \A x, y \in Video : video'[x] # Null /\ video'[y] # Null /\ video'[x].object = video'[y].object => x = y
      /\ viewer' \in [Proc -> Viewing]
  <2>1. ViewingOf(NoViewing)'
    BY NoViewingType DEF ViewingOf, RowSteps
  <2>2. NoViewing.object \notin used
    BY NoViewingType, VideosAssumption DEF Watching, VideosTypes
  <2>3. \A w \in Video : video[w] # Null => video'[w] # Null /\ video'[w].object = video[w].object
    BY <1>2, <1>7
  <2>4. \A x, y \in Video : video'[x] # Null /\ video[x] = Null =>
                  /\ viewer[p].object # Null /\ video'[x].object = viewer[p].object /\ NoViewing.object = Null
                  /\ (video'[y] # Null /\ video[y] = Null => x = y)
    BY <1>4, <1>6, <1>7, NoViewingType, VideosAssumption
  <2>5. used \subseteq used'
    BY <1>1
  <2> QED BY <1>1, <1>8, <2>1, <2>2, <2>3, <2>4, <2>5, NoViewingType, ViewerMoves
<1>10. \A w \in Video : Removing(w) => Removing(w)'
  BY <1>1, <1>3, <1>4 DEF Removing
<1>11. BunnyMatches'
  <2>1. \A w \in Video : video'[w] # Null /\ video'[w].status = "ready" /\ video'[w].object \notin objects'
                            => w \in lost' \/ Removing(w)'
    BY <1>1, <1>6, <1>7, <1>10 DEF Watching, BunnyMatches
  <2>2. ASSUME NEW o \in objects'
        PROVE  Named(o)' \/ o \in mislaid' \/ \E q \in Proc : viewer'[q].object = o
    <3>1. CASE o = viewer[p].object
      BY <3>1, <1>6, <1>7 DEF Named
    <3>2. CASE \E q \in Proc \ {p} : viewer[q].object = o
      BY <3>2, <1>1, <1>3
    <3>3. Named(o) => Named(o)'
      BY <1>1, <1>2, <1>7 DEF Named
    <3> QED BY <3>1, <3>2, <3>3, <1>1 DEF Watching, BunnyMatches
  <2> QED BY <2>1, <2>2 DEF BunnyMatches
<1>12. VideosTypes'
  BY <1>1, <1>8, <1>9 DEF Watching, VideosTypes
<1> QED BY <1>9, <1>11, <1>12 DEF Watching

\* A request goes on with the row it has.
LEMMA GoesOn ==
    ASSUME Watching, NEW p \in Proc, viewer[p].pc \in {"playCheck", "hookInfo"}, ViewerTo(p, "videoSave"),
           UNCHANGED <<video, watch, objects, used, resources, mislaid, lost, rewound>>
    PROVE  Watching'
<1>1. viewer[p] \in Viewing /\ ViewingOf(viewer[p]) /\ viewer \in [Proc -> Viewing]
      /\ watch \in [Video -> {Null} \cup WatchRow] /\ rewound \subseteq Video
  BY DEF Watching, VideosTypes
<1>2. PICK r : r = [viewer[p] EXCEPT !.pc = "videoSave"]
  OBVIOUS
<1>3. viewer' = [viewer EXCEPT ![p] = r]
  BY <1>1, <1>2 DEF ViewerTo, Viewing
<1>4. r \in Viewing /\ r.pc = "videoSave" /\ r.object = viewer[p].object /\ r.removing = viewer[p].removing
      /\ r.video = viewer[p].video /\ r.row = viewer[p].row
  BY <1>1, <1>2 DEF Viewing
<1>5. viewer[p].object = Null /\ ~viewer[p].removing
  BY <1>1 DEF ViewingOf
<1>6. ViewingOf(r)
  BY <1>1, <1>4, <1>5 DEF ViewingOf, RowSteps
<1> QED BY <1>1, <1>3, <1>4, <1>5, <1>6, QuietStep

LEMMA PlayCheckStep ==
    ASSUME Watching, NEW p \in Proc, PlayCheck(p)
    PROVE  Watching'
<1>1. viewer[p].object = Null /\ ~viewer[p].removing
      /\ watch \in [Video -> {Null} \cup WatchRow] /\ rewound \subseteq Video
  BY DEF Watching, VideosTypes, ViewingOf, PlayCheck
<1> QED BY <1>1, ViewerEnds, GoesOn DEF PlayCheck

LEMMA HookInfoStep ==
    ASSUME Watching, NEW p \in Proc, HookInfo(p)
    PROVE  Watching'
BY GoesOn DEF HookInfo

\* The object goes, and the request saves the row, or the video is lost.
LEMMA ObjectRemoveStep ==
    ASSUME Watching, NEW p \in Proc, ObjectRemove(p)
    PROVE  Watching'
<1>1. viewer[p] \in Viewing /\ ViewingOf(viewer[p]) /\ viewer \in [Proc -> Viewing]
      /\ video \in [Video -> {Null} \cup VideoRow]
  BY DEF Watching, VideosTypes
<1>2. PICK v, o : v = viewer[p].video /\ o = viewer[p].row.object
  OBVIOUS
<1>3. /\ viewer[p].pc = "objectRemove" /\ objects' = objects \ {o}
      /\ UNCHANGED <<video, watch, used, resources, mislaid, rewound>>
      /\ \/ viewer' = [viewer EXCEPT ![p].pc = "videoSave", ![p].removing = TRUE, ![p].row.status = "deleted"] /\ UNCHANGED lost
         \/ ViewerEnd(p) /\ lost' = lost \cup {v}
  BY <1>2 DEF ObjectRemove
<1>4. /\ v \in Video /\ video[v] # Null /\ video[v].object = o /\ viewer[p].row \in VideoRow
      /\ viewer[p].object = Null /\ ~viewer[p].removing
  BY <1>1, <1>2, <1>3 DEF ViewingOf, RowSteps, Viewing
<1>5. PICK r \in Viewing : /\ viewer' = [viewer EXCEPT ![p] = r] /\ ViewingOf(r) /\ r.object = Null
                           /\ (UNCHANGED lost /\ r.removing /\ r.video = v) \/ lost' = lost \cup {v}
  <2>1. CASE viewer' = [viewer EXCEPT ![p].pc = "videoSave", ![p].removing = TRUE, ![p].row.status = "deleted"] /\ UNCHANGED lost
    <3>1. PICK row : row = [viewer[p].row EXCEPT !.status = "deleted"]
      OBVIOUS
    <3>2. row \in VideoRow /\ row.object = o /\ row.status = "deleted"
      BY <1>2, <1>4, <3>1 DEF VideoRow
    <3>3. PICK s : s = [viewer[p] EXCEPT !.pc = "videoSave", !.removing = TRUE, !.row = row]
      OBVIOUS
    <3>4. s \in Viewing /\ s.pc = "videoSave" /\ s.removing /\ s.row = row /\ s.video = v /\ s.object = Null
      BY <1>1, <1>2, <1>4, <3>2, <3>3 DEF Viewing
    <3>5. viewer' = [viewer EXCEPT ![p] = s]
      BY <1>1, <2>1, <3>1, <3>3 DEF Viewing
    <3>6. ViewingOf(s)
      BY <1>4, <3>2, <3>4, VideosNullAssumption DEF ViewingOf, RowSteps
    <3> QED BY <2>1, <3>4, <3>5, <3>6
  <2>2. CASE ViewerEnd(p) /\ lost' = lost \cup {v}
    BY <2>2, NoViewingType, IdleViewing DEF ViewerEnd
  <2> QED BY <1>3, <2>1, <2>2
<1>6. ViewingOf(r)'
  BY <1>3, <1>5 DEF ViewingOf
<1>7. /\ \A q \in Proc : ViewingOf(viewer[q])'
      /\ \A q, s \in Proc : viewer'[q].object # Null /\ viewer'[q].object = viewer'[s].object => q = s
      /\ \A x \in Video : video'[x] # Null => video'[x].object \in used'
      /\ \A x, y \in Video : video'[x] # Null /\ video'[y] # Null /\ video'[x].object = video'[y].object => x = y
      /\ viewer' \in [Proc -> Viewing]
  BY <1>1, <1>3, <1>4, <1>5, <1>6, ViewerMoves
<1>8. \A w \in Video : Removing(w) => Removing(w)'
  BY <1>1, <1>4, <1>5 DEF Removing
<1>9. v \in lost' \/ Removing(v)'
  BY <1>1, <1>5 DEF Removing
<1>10. ASSUME NEW w \in Video, video'[w] # Null, video'[w].status = "ready", video'[w].object \notin objects'
       PROVE  w \in lost' \/ Removing(w)'
  <2>1. CASE w = v
    BY <2>1, <1>9
  <2>2. CASE w # v
    <3>1. video[w].object # o
      BY <1>3, <1>4, <1>10, <2>2 DEF Watching
    <3>2. w \in lost \/ Removing(w)
      BY <1>3, <1>10, <3>1 DEF Watching, BunnyMatches
    <3>3. lost \subseteq lost'
      BY <1>5
    <3> QED BY <1>8, <3>2, <3>3
  <2> QED BY <2>1, <2>2
<1>11. \A q \in Proc : viewer'[q].object = viewer[q].object
  BY <1>1, <1>4, <1>5
<1>12. BunnyMatches'
  BY <1>3, <1>10, <1>11 DEF Watching, BunnyMatches, Named
<1>13. VideosTypes'
  BY <1>3, <1>4, <1>5, <1>7 DEF Watching, VideosTypes
<1> QED BY <1>7, <1>12, <1>13 DEF Watching

LEMMA VideoSaveStep ==
    ASSUME Watching, NEW p \in Proc, VideoSave(p)
    PROVE  Watching'
<1>1. viewer[p] \in Viewing /\ ViewingOf(viewer[p]) /\ viewer \in [Proc -> Viewing]
      /\ video \in [Video -> {Null} \cup VideoRow]
  BY DEF Watching, VideosTypes
<1>2. PICK v, row : v = viewer[p].video /\ row = viewer[p].row
  OBVIOUS
<1>3. /\ viewer[p].pc = "videoSave" /\ video' = [video EXCEPT ![v] = row]
      /\ lost' = IF viewer[p].removing THEN lost \ {v} ELSE IF row.object \notin objects THEN lost \cup {v} ELSE lost
      /\ viewer' = [viewer EXCEPT ![p] = NoViewing]
      /\ UNCHANGED <<watch, objects, used, resources, mislaid, rewound>>
  BY <1>2 DEF VideoSave, ViewerEnd
<1>4. /\ v \in Video /\ video[v] # Null /\ video[v].object = row.object /\ row \in VideoRow /\ row # Null
      /\ viewer[p].object = Null /\ (viewer[p].removing => row.status = "deleted")
  BY <1>1, <1>2, <1>3 DEF ViewingOf, RowSteps, Viewing
<1>5. \A w \in Video : /\ video'[w] = IF w = v THEN row ELSE video[w]
                       /\ (video'[w] = Null <=> video[w] = Null)
                       /\ (video[w] # Null => video'[w].object = video[w].object)
  BY <1>1, <1>3, <1>4
<1>6. video' \in [Video -> {Null} \cup VideoRow]
  <2>1. video' = [video EXCEPT ![v] = row] /\ row \in VideoRow
    BY <1>3, <1>4
  <2> QED BY <1>1, <2>1
<1>7. /\ \A q \in Proc : ViewingOf(viewer[q])'
      /\ \A q, s \in Proc : viewer'[q].object # Null /\ viewer'[q].object = viewer'[s].object => q = s
      /\ \A x \in Video : video'[x] # Null => video'[x].object \in used'
      /\ \A x, y \in Video : video'[x] # Null /\ video'[y] # Null /\ video'[x].object = video'[y].object => x = y
      /\ viewer' \in [Proc -> Viewing]
  <2>1. ViewingOf(NoViewing)'
    BY NoViewingType DEF ViewingOf, RowSteps
  <2> QED BY <1>3, <1>4, <1>5, <1>6, <2>1, NoViewingType, ViewerMoves
<1>8. \A w \in Video \ {v} : Removing(w) => Removing(w)'
  BY <1>1, <1>2, <1>3 DEF Removing
<1>9. ASSUME NEW w \in Video, video'[w] # Null, video'[w].status = "ready", video'[w].object \notin objects'
      PROVE  w \in lost' \/ Removing(w)'
  <2>1. CASE w = v
    <3>1. ~viewer[p].removing /\ row.object \notin objects
      BY <2>1, <1>3, <1>4, <1>5, <1>9
    <3> QED BY <2>1, <3>1, <1>3
  <2>2. CASE w # v
    <3>1. w \in lost \/ Removing(w)
      BY <1>3, <1>5, <1>9, <2>2 DEF Watching, BunnyMatches
    <3> QED BY <1>3, <1>8, <2>2, <3>1
  <2> QED BY <2>1, <2>2
<1>10. \A q \in Proc : viewer'[q].object = viewer[q].object
  BY <1>1, <1>3, <1>4, NoViewingType
<1>11. BunnyMatches'
  <2>1. \A o \in objects : Named(o) => Named(o)'
    <3> SUFFICES ASSUME NEW o \in objects, NEW w \in Video, video[w] # Null, video[w].object = o PROVE Named(o)'
      BY <1>3 DEF Named
    <3>1. video'[w] # Null /\ video'[w].object = o
      BY <1>5
    <3> QED BY <3>1 DEF Named
  <2> QED BY <1>3, <1>9, <1>10, <2>1 DEF Watching, BunnyMatches
<1>12. VideosTypes'
  BY <1>3, <1>4, <1>6, <1>7 DEF Watching, VideosTypes
<1> QED BY <1>7, <1>11, <1>12 DEF Watching

LEMMA WatchFindStep ==
    ASSUME Watching, NEW p \in Proc, WatchFind(p)
    PROVE  Watching'
<1>1. viewer[p] \in Viewing /\ ViewingOf(viewer[p]) /\ viewer \in [Proc -> Viewing]
      /\ watch \in [Video -> {Null} \cup WatchRow] /\ rewound \subseteq Video
  BY DEF Watching, VideosTypes
<1>2. PICK before, after : /\ before = watch[viewer[p].video]
                           /\ after = Watched(before, viewer[p].position, viewer[p].row.durationSeconds)
  OBVIOUS
<1>3. viewer[p].pc = "watchFind" /\ UNCHANGED <<video, watch, objects, used, resources, mislaid, lost, rewound>>
  BY DEF WatchFind
<1>4. viewer[p].video \in Video /\ video[viewer[p].video] # Null /\ viewer[p].object = Null /\ ~viewer[p].removing
  BY <1>1, <1>3 DEF ViewingOf, RowSteps
<1>5. PICK r : r = [viewer[p] EXCEPT !.pc = "watchSave", !.before = before, !.after = after]
  OBVIOUS
<1>6. viewer' = [viewer EXCEPT ![p] = r]
  BY <1>1, <1>2, <1>5 DEF WatchFind, Viewing
<1>7. /\ before \in {Null} \cup WatchRow /\ after \in WatchRow
      /\ (before # Null /\ before.isCompleted => after.isCompleted)
  <2>1. viewer[p].position \in Nat
    BY <1>1 DEF Viewing
  <2> QED BY <1>1, <1>2, <1>4, <2>1 DEF Watched, WatchRow
<1>8. r \in Viewing /\ r.pc = "watchSave" /\ r.before = before /\ r.after = after /\ r.video = viewer[p].video
      /\ r.object = viewer[p].object /\ r.removing = viewer[p].removing
  BY <1>1, <1>5, <1>7 DEF Viewing
<1>9. ViewingOf(r)
  BY <1>4, <1>7, <1>8, VideosNullAssumption DEF ViewingOf, RowSteps
<1> QED BY <1>1, <1>3, <1>4, <1>6, <1>8, <1>9, QuietStep

LEMMA WatchSaveStep ==
    ASSUME Watching, NEW p \in Proc, WatchSave(p)
    PROVE  Watching'
<1>1. viewer[p] \in Viewing /\ ViewingOf(viewer[p])
      /\ watch \in [Video -> {Null} \cup WatchRow] /\ rewound \subseteq Video
  BY DEF Watching, VideosTypes
<1>2. viewer[p].pc = "watchSave" /\ ViewerEnd(p) /\ UNCHANGED <<video, objects, used, resources, mislaid, lost>>
  BY DEF WatchSave
<1>3. viewer[p].object = Null /\ ~viewer[p].removing /\ viewer[p].video \in Video /\ viewer[p].after \in WatchRow
  BY <1>1, <1>2 DEF ViewingOf, Viewing
<1>4. watch' \in [Video -> {Null} \cup WatchRow] /\ rewound' \subseteq Video
  BY <1>1, <1>3 DEF WatchSave
<1> QED BY <1>2, <1>3, <1>4, ViewerEnds

LEMMA ViewerHaltStep ==
    ASSUME Watching, NEW p \in Proc, ViewerHalt(p)
    PROVE  Watching'
<1>1. viewer[p] \in Viewing /\ ViewingOf(viewer[p]) /\ viewer \in [Proc -> Viewing]
      /\ video \in [Video -> {Null} \cup VideoRow]
  BY DEF Watching, VideosTypes
<1>2. /\ mislaid' = IF viewer[p].object # Null /\ viewer[p].object \notin resources
                     THEN mislaid \cup {viewer[p].object} ELSE mislaid
      /\ lost' = IF viewer[p].removing THEN lost \cup {viewer[p].video} ELSE lost
      /\ viewer' = [viewer EXCEPT ![p] = NoViewing]
      /\ UNCHANGED <<video, watch, objects, used, resources, rewound>>
  BY DEF ViewerHalt, ViewerEnd
<1>3. (viewer[p].removing => viewer[p].video \in Video) /\ (viewer[p].object # Null => viewer[p].object \in used)
  BY <1>1 DEF ViewingOf, RowSteps
<1>4. /\ \A q \in Proc : ViewingOf(viewer[q])'
      /\ \A q, s \in Proc : viewer'[q].object # Null /\ viewer'[q].object = viewer'[s].object => q = s
      /\ \A x \in Video : video'[x] # Null => video'[x].object \in used'
      /\ \A x, y \in Video : video'[x] # Null /\ video'[y] # Null /\ video'[x].object = video'[y].object => x = y
      /\ viewer' \in [Proc -> Viewing]
  <2>1. ViewingOf(NoViewing)' /\ NoViewing.object \notin used
    BY NoViewingType, VideosAssumption DEF ViewingOf, RowSteps, Watching, VideosTypes
  <2> QED BY <1>1, <1>2, <2>1, NoViewingType, ViewerMoves
<1>5. \A v \in Video : Removing(v) => v \in lost' \/ Removing(v)'
  BY <1>1, <1>2 DEF Removing
<1>6. ASSUME NEW o \in objects'
      PROVE  Named(o)' \/ o \in mislaid' \/ \E q \in Proc : viewer'[q].object = o
  <2>1. Named(o) => Named(o)'
    BY <1>2 DEF Named
  <2>2. o \in Object
    BY <1>2 DEF Watching, VideosTypes
  <2>3. ASSUME NEW q \in Proc, viewer[q].object = o
        PROVE  Named(o)' \/ o \in mislaid' \/ \E s \in Proc : viewer'[s].object = o
    BY <1>1, <1>2, <2>2, <2>3, VideosAssumption DEF Named
  <2> QED BY <1>2, <2>1, <2>3 DEF Watching, BunnyMatches
<1>7. BunnyMatches'
  <2>1. \A v \in Video : v \in lost => v \in lost'
    BY <1>2
  <2> QED BY <1>2, <1>5, <1>6, <2>1 DEF Watching, BunnyMatches
<1>8. VideosTypes'
  BY <1>2, <1>3, <1>4 DEF Watching, VideosTypes
<1> QED BY <1>4, <1>7, <1>8 DEF Watching

LEMMA WatchingStep ==
    ASSUME Watching, VideosNext
    PROVE  Watching'
<1>1. PICK p \in Proc : ViewerServe(p) \/ ViewerContinue(p)
  BY DEF VideosNext
<1> QED BY <1>1, BeginSteps, UnifiedPostStep, LegacyPostStep, ResourceInsertStep, VideoInsertStep, PlayCheckStep,
           ObjectRemoveStep, VideoSaveStep, HookInfoStep, WatchFindStep, WatchSaveStep, ViewerHaltStep
      DEF ViewerServe, ViewerContinue

\* A video watched to the end stays so in each step, if its progress is saved over no change.
LEMMA WatchStep ==
    ASSUME Watching, VideosNext, NEW v \in Video, watch[v] # Null, watch[v].isCompleted, v \notin rewound'
    PROVE  watch'[v] # Null /\ watch'[v].isCompleted
<1>1. PICK p \in Proc : ViewerServe(p) \/ ViewerContinue(p)
  BY DEF VideosNext
<1>2. CASE watch' = watch
  BY <1>2
<1>3. CASE WatchSave(p)
  <2>1. ViewingOf(viewer[p]) /\ viewer[p].pc = "watchSave" /\ watch \in [Video -> {Null} \cup WatchRow]
    BY <1>3 DEF WatchSave, Watching, VideosTypes
  <2> QED BY <1>3, <2>1 DEF WatchSave, ViewingOf
<1> QED BY <1>1, <1>2, <1>3 DEF ViewerServe, ViewerContinue, VideoCreate, CredentialsFind, VideoFind, VideoHook,
        WatchBegin, UnifiedPost, LegacyPost, ResourceInsert, VideoInsert, PlayCheck, ObjectRemove, VideoSave, HookInfo,
        WatchFind, ViewerHalt

(***************************************************************************)
(* Notifications                                                           *)
(***************************************************************************)
SendingOf(r) ==
    /\ \A x \in r.batch : x[1] \in known /\ x[2].status \in {"sent", "pending"}
    /\ r.pc \in {"save", "readSave"} => r.notice \in known /\ r.row # Null
    /\ r.pc = "save" => r.row.status \in {"delivered", "failed"}
    /\ r.pc = "readSave" => r.row.status = "read" /\ r.row.readAt
    /\ r.pc \notin {"dispatch", "save"} => r.batch = {}
    /\ r.pc = "save" /\ r.row.status = "delivered" /\ r.row.channel = "email" => queued[r.notice] > 0
    /\ r.pc = "save" => \A x \in r.batch : x[1] # r.notice
    /\ \A x, y \in r.batch : x[1] = y[1] => x = y
\* A request, or a run, that will write the notification back.
Sends(r, n) == (\E x \in r.batch : x[1] = n) \/ (r.pc = "save" /\ r.notice = n)
Holds(r, n) == Sends(r, n) \/ (r.pc = "readSave" /\ r.notice = n)
RunOf(n) ==
    /\ queued[n] <= 1
    /\ \A p, q \in Proc : Sends(sender[p], n) /\ Sends(sender[q], n) => p = q
    /\ \A p \in Proc : \A x \in sender[p].batch : x[1] = n => queued[n] = 0
    /\ notice[n] # Null /\ notice[n].status = "pending" /\ (\A p \in Proc : ~Sends(sender[p], n)) => queued[n] = 0
    /\ mailed[n] <= queued[n]
    /\ \A i, j \in queue : i.notice = n /\ j.notice = n => i = j /\ mailed[n] = 0 /\ queued[n] = 1
KeptOf(n) ==
    /\ n \notin known => notice[n] = Null /\ queued[n] = 0 /\ mailed[n] = 0
    /\ notice[n] # Null /\ notice[n].status = "delivered" /\ notice[n].channel = "email" => queued[n] > 0
    /\ n \in told => /\ notice[n] # Null /\ notice[n].readAt /\ notice[n].status # "pending"
                     /\ \A p \in Proc : Sends(sender[p], n) => sender[p].own
    /\ n \in gone => notice[n] = Null /\ \A p \in Proc : ~Holds(sender[p], n)
Noticing ==
    /\ NotificationsTypes
    /\ \A p \in Proc : SendingOf(sender[p])
    /\ \A n \in Notice \ repeated : RunOf(n)
    /\ \A n \in Notice : KeptOf(n)

LEMMA NoSendingType ==
    /\ NoSending \in Sending /\ NoSending.pc = "idle" /\ NoSending.batch = {}
    /\ \A n \in Notice : ~Sends(NoSending, n) /\ ~Holds(NoSending, n)
BY DEF NoSending, Sending, Sends, Holds

LEMMA IdleSending == SendingOf(NoSending) /\ SendingOf(NoSending)'
BY NoSendingType DEF SendingOf

\* Which notifications a process will write back.
LEMMA InRunIs ==
    \A p \in Proc, n \in Notice : (n \in InRun(p) <=> Sends(sender[p], n)) /\ (n \in Held(p) <=> Holds(sender[p], n))
BY DEF InRun, Held, Sends, Holds

LEMMA NoticingInit ==
    ASSUME NotificationsInit
    PROVE  Noticing
<1>1. NotificationsTypes
  BY NoSendingType DEF NotificationsInit, NotificationsTypes
<1>2. \A p \in Proc : SendingOf(sender[p])
  BY IdleSending DEF NotificationsInit
<1>3. \A n \in Notice : RunOf(n) /\ KeptOf(n)
  BY NoSendingType DEF NotificationsInit, RunOf, KeptOf
<1> QED BY <1>1, <1>2, <1>3 DEF Noticing

LEMMA NoticingRest ==
    ASSUME Noticing, UNCHANGED notices
    PROVE  Noticing'
BY DEF Noticing, NotificationsTypes, SendingOf, RunOf, KeptOf, notices

\* What the invariant says of a notification, the requests and the queue.
LEMMA NoticingFacts ==
    ASSUME Noticing
    PROVE  /\ notice \in [Notice -> {Null} \cup NoticeRow]
           /\ \A n \in Notice : notice[n] # Null => n \in known
           /\ sender \in [Proc -> Sending]
           /\ queue \subseteq [notice : known, number : Nat, attempt : 1..MailAttempts]
           /\ queued \in [Notice -> Nat] /\ mailed \in [Notice -> Nat]
           /\ due \cup repeated \cup told \cup gone \subseteq known /\ known \subseteq Notice
           /\ \A p \in Proc : SendingOf(sender[p])
           /\ \A n \in Notice \ repeated : RunOf(n)
           /\ \A n \in Notice : KeptOf(n)
           /\ \A p \in Proc, n \in Notice : Holds(sender[p], n) => n \in known
BY DEF Noticing, NotificationsTypes, SendingOf, Sends, Holds

\* A request that is idle sends nothing.
LEMMA IdleFacts ==
    ASSUME Noticing, NEW p \in Proc, sender[p].pc = "idle"
    PROVE  sender[p].batch = {} /\ \A n \in Notice : ~Holds(sender[p], n) /\ ~Sends(sender[p], n)
BY NoticingFacts DEF SendingOf, Sends, Holds

\* A step of one request, which is left to say what it sends.
LEMMA SenderMoves ==
    ASSUME Noticing, NEW p \in Proc, NEW r \in Sending, sender' = [sender EXCEPT ![p] = r], SendingOf(r)',
           known \subseteq known', \A n \in Notice : queued'[n] >= queued[n], queued' \in [Notice -> Nat]
    PROVE  /\ sender' \in [Proc -> Sending]
           /\ \A q \in Proc : sender'[q] = IF q = p THEN r ELSE sender[q]
           /\ \A q \in Proc : SendingOf(sender[q])'
<1>1. sender' \in [Proc -> Sending] /\ \A q \in Proc : sender'[q] = IF q = p THEN r ELSE sender[q]
  BY NoticingFacts
<1>2. ASSUME NEW q \in Proc \ {p}
      PROVE  SendingOf(sender[q])'
  <2>1. sender'[q] = sender[q] /\ SendingOf(sender[q])
    BY <1>1, NoticingFacts
  <2>2. sender[q].notice \in Notice => queued'[sender[q].notice] >= queued[sender[q].notice]
        /\ queued[sender[q].notice] \in Nat /\ queued'[sender[q].notice] \in Nat
    BY NoticingFacts
  <2>3. known \subseteq Notice
    BY NoticingFacts
  <2> QED BY <2>1, <2>2, <2>3 DEF SendingOf
<1> QED BY <1>1, <1>2

\* A notification that no step of a run, of the queue or of the mail server touches.
LEMMA RunSame ==
    ASSUME Noticing, NEW n \in Notice \ repeated, queued'[n] = queued[n], mailed'[n] = mailed[n],
           \A q \in Proc : Sends(sender'[q], n) => Sends(sender[q], n),
           \A q \in Proc : \A x \in sender'[q].batch : x[1] = n => \E y \in sender[q].batch : y[1] = n,
           \A j \in queue' : j.notice = n => j \in queue,
           notice'[n] # Null /\ notice'[n].status = "pending" =>
                queued[n] = 0 \/ (notice[n] # Null /\ notice[n].status = "pending"
                                  /\ \A q \in Proc : Sends(sender[q], n) => Sends(sender'[q], n))
    PROVE  RunOf(n)'
<1>1. RunOf(n)
  BY NoticingFacts
<1> QED BY <1>1 DEF RunOf

\* A notification that stays as it is, whoever has it.
LEMMA KeptSame ==
    ASSUME Noticing, NEW n \in Notice, notice'[n] = notice[n], queued'[n] \in Nat, queued'[n] >= queued[n],
           n \notin known' => n \notin known /\ queued'[n] = 0 /\ mailed'[n] = 0,
           n \in told' => n \in told /\ \A q \in Proc : Sends(sender'[q], n) => sender'[q].own \/ (Sends(sender[q], n) /\ sender'[q].own = sender[q].own),
           n \in gone' => n \in gone /\ \A q \in Proc : Holds(sender'[q], n) => Holds(sender[q], n)
    PROVE  KeptOf(n)'
<1>1. KeptOf(n) /\ queued[n] \in Nat
  BY NoticingFacts
<1> QED BY <1>1 DEF KeptOf

\* The rows that a request inserts are new, and nobody has them yet.
LEMMA InsertedFacts ==
    ASSUME Noticing, NEW ids \in SUBSET Notice, NEW row \in NoticeRow, Inserted(ids, row)
    PROVE  /\ notice' \in [Notice -> {Null} \cup NoticeRow] /\ known' = known \cup ids /\ known' \subseteq Notice
           /\ \A n \in Notice : notice'[n] # Null => n \in known'
           /\ \A n \in Notice : notice'[n] = IF n \in ids THEN row ELSE notice[n]
           /\ \A n \in ids : n \notin known /\ queued[n] = 0 /\ mailed[n] = 0 /\ n \notin told /\ n \notin gone /\ n \notin repeated
           /\ \A n \in ids : \A q \in Proc : ~Holds(sender[q], n) /\ ~Sends(sender[q], n)
           /\ \A n \in ids : \A j \in queue : j.notice # n
<1>1. /\ ids \cap known = {} /\ known' = known \cup ids
      /\ notice' = [n \in Notice |-> IF n \in ids THEN row ELSE notice[n]]
  BY DEF Inserted
<1>2. \A n \in ids : n \notin known /\ n \in Notice
  BY <1>1
<1>3. \A n \in ids : \A q \in Proc : ~Holds(sender[q], n) /\ ~Sends(sender[q], n)
  BY <1>2, NoticingFacts DEF Holds
<1>4. \A n \in ids : queued[n] = 0 /\ mailed[n] = 0
  BY <1>2, NoticingFacts DEF KeptOf
<1>5. \A n \in ids : \A j \in queue : j.notice # n
  BY <1>2, NoticingFacts
<1> QED BY <1>1, <1>2, <1>3, <1>4, <1>5, NoticingFacts

\* A notification that was inserted, with a row that says it is sent or pending.
LEMMA InsertedOf ==
    ASSUME Noticing, NEW n \in Notice, n \notin told', n \notin gone', n \in known', queued'[n] = 0, mailed'[n] = 0,
           notice'[n] # Null, notice'[n].status # "delivered",
           \A q, s \in Proc : Sends(sender'[q], n) /\ Sends(sender'[s], n) => q = s,
           \A j \in queue' : j.notice # n
    PROVE  RunOf(n)' /\ KeptOf(n)'
BY DEF RunOf, KeptOf

LEMMA RowType ==
    \A channel \in {"in_app", "email", "push"}, status \in {"pending", "sent"} :
        /\ Row(channel, status) \in NoticeRow /\ Row(channel, status).status = status
        /\ Row(channel, status) # Null
<1> SUFFICES ASSUME NEW channel \in {"in_app", "email", "push"}, NEW status \in {"pending", "sent"}
             PROVE  /\ Row(channel, status) \in NoticeRow /\ Row(channel, status).status = status
                    /\ Row(channel, status) # Null
  OBVIOUS
<1>1. Row(channel, status) \in NoticeRow
  BY DEF Row, NoticeRow
<1> QED BY <1>1, NoticeNullAssumption DEF Row

LEMMA SendStep ==
    ASSUME Noticing, NEW p \in Proc, Send(p)
    PROVE  Noticing'
<1>1. PICK n \in Notice, channel \in {"in_app", "email", "push"} :
          /\ Inserted({n}, Row(channel, "sent"))
          /\ SenderBegin(p, [NoSending EXCEPT !.pc = "dispatch", !.batch = {<<n, Row(channel, "sent")>>}, !.own = TRUE])
  BY DEF Send
<1>2. UNCHANGED <<due, queue, queued, mailed, repeated, told, gone>>
  BY DEF Send
<1>3. PICK row \in NoticeRow : row = Row(channel, "sent") /\ row.status = "sent" /\ row # Null
  BY RowType
<1>4. PICK r : r = [NoSending EXCEPT !.pc = "dispatch", !.batch = {<<n, row>>}, !.own = TRUE]
  OBVIOUS
<1>5. r \in Sending /\ r.pc = "dispatch" /\ r.batch = {<<n, row>>} /\ r.own
  <2>1. {<<n, row>>} \in SUBSET (Notice \X NoticeRow)
    OBVIOUS
  <2> QED BY <1>4, <2>1, NoSendingType DEF Sending
<1>6. sender' = [sender EXCEPT ![p] = r] /\ sender[p].pc = "idle"
  BY <1>1, <1>3, <1>4 DEF SenderBegin
<1>7. PICK ids \in SUBSET Notice : ids = {n} /\ Inserted(ids, row)
  BY <1>1, <1>3
<1>8. /\ notice' \in [Notice -> {Null} \cup NoticeRow] /\ known' = known \cup {n} /\ known' \subseteq Notice
      /\ \A k \in Notice : notice'[k] # Null => k \in known'
      /\ \A k \in Notice : notice'[k] = IF k = n THEN row ELSE notice[k]
      /\ n \notin known /\ queued[n] = 0 /\ mailed[n] = 0 /\ n \notin told /\ n \notin gone /\ n \notin repeated
      /\ \A q \in Proc : ~Holds(sender[q], n) /\ ~Sends(sender[q], n)
      /\ \A j \in queue : j.notice # n
  <2>1. /\ notice' \in [Notice -> {Null} \cup NoticeRow] /\ known' = known \cup ids /\ known' \subseteq Notice
        /\ \A k \in Notice : notice'[k] # Null => k \in known'
        /\ \A k \in Notice : notice'[k] = IF k \in ids THEN row ELSE notice[k]
        /\ \A k \in ids : k \notin known /\ queued[k] = 0 /\ mailed[k] = 0 /\ k \notin told /\ k \notin gone /\ k \notin repeated
        /\ \A k \in ids : \A q \in Proc : ~Holds(sender[q], k) /\ ~Sends(sender[q], k)
        /\ \A k \in ids : \A j \in queue : j.notice # k
    BY <1>7, InsertedFacts
  <2>2. n \in ids /\ \A k : k \in ids <=> k = n
    BY <1>7
  <2> QED BY <2>1, <2>2, <1>7
<1>9. SendingOf(r)'
  BY <1>3, <1>5, <1>8 DEF SendingOf
<1>10. /\ sender' \in [Proc -> Sending]
       /\ \A q \in Proc : sender'[q] = IF q = p THEN r ELSE sender[q]
       /\ \A q \in Proc : SendingOf(sender[q])'
  <2>1. known \subseteq known' /\ queued' \in [Notice -> Nat] /\ \A k \in Notice : queued'[k] >= queued[k]
    BY <1>2, <1>8, NoticingFacts
  <2> QED BY <1>5, <1>6, <1>9, <2>1, SenderMoves
<1>11. \A k \in Notice : (Sends(r, k) <=> k = n) /\ (Holds(r, k) <=> k = n)
  BY <1>5 DEF Sends, Holds
<1>12. NotificationsTypes'
  <2>1. queue' \subseteq [notice : known', number : Nat, attempt : 1..MailAttempts]
    BY <1>2, <1>8, NoticingFacts
  <2> QED BY <2>1, <1>2, <1>8, <1>10, NoticingFacts DEF NotificationsTypes
<1>13. RunOf(n)' /\ KeptOf(n)'
  <2>1. \A q, s \in Proc : Sends(sender'[q], n) /\ Sends(sender'[s], n) => q = s
    BY <1>8, <1>10
  <2> QED BY <2>1, <1>2, <1>3, <1>8, InsertedOf
<1>14. ASSUME NEW k \in Notice \ {n}
       PROVE  KeptOf(k)' /\ (k \notin repeated' => RunOf(k)')
  <2>1. notice'[k] = notice[k] /\ (k \notin known' => k \notin known)
    BY <1>8
  <2>2. \A q \in Proc : /\ Sends(sender'[q], k) <=> Sends(sender[q], k)
                        /\ Holds(sender'[q], k) <=> Holds(sender[q], k)
                        /\ Sends(sender[q], k) => sender'[q].own = sender[q].own
    BY <1>6, <1>10, <1>11, IdleFacts
  <2>3. \A q \in Proc : \A x \in sender'[q].batch : x[1] = k => \E y \in sender[q].batch : y[1] = k
    BY <1>5, <1>10
  <2>4. queued[k] \in Nat /\ queued[k] >= queued[k] /\ KeptOf(k)
    BY NoticingFacts
  <2>5. KeptOf(k)'
    BY <1>2, <2>1, <2>2, <2>4, KeptSame DEF KeptOf
  <2> QED BY <1>2, <2>1, <2>2, <2>3, <2>5, RunSame
<1> QED BY <1>10, <1>12, <1>13, <1>14 DEF Noticing

\* A step of no request: what requests and runs have stays as it is.
LEMMA SendersStay ==
    ASSUME Noticing, UNCHANGED sender, known \subseteq known', queued' = queued
    PROVE  sender' \in [Proc -> Sending] /\ \A q \in Proc : SendingOf(sender[q])'
BY NoticingFacts DEF SendingOf

LEMMA InsertedStep ==
    ASSUME Noticing, NEW ids \in SUBSET Notice, NEW row \in NoticeRow, row.status # "delivered", Inserted(ids, row),
           UNCHANGED <<sender, queue, queued, mailed, repeated, told, gone>>, due' \subseteq due \cup ids
    PROVE  Noticing'
<1>1. /\ notice' \in [Notice -> {Null} \cup NoticeRow] /\ known' = known \cup ids /\ known' \subseteq Notice
      /\ \A k \in Notice : notice'[k] # Null => k \in known'
      /\ \A k \in Notice : notice'[k] = IF k \in ids THEN row ELSE notice[k]
      /\ \A k \in ids : k \notin known /\ queued[k] = 0 /\ mailed[k] = 0 /\ k \notin told /\ k \notin gone /\ k \notin repeated
      /\ \A k \in ids : \A q \in Proc : ~Holds(sender[q], k) /\ ~Sends(sender[q], k)
      /\ \A k \in ids : \A j \in queue : j.notice # k
  BY InsertedFacts
<1>2. sender' \in [Proc -> Sending] /\ \A q \in Proc : SendingOf(sender[q])'
  BY <1>1, SendersStay
<1>3. NotificationsTypes'
  <2>1. queue' \subseteq [notice : known', number : Nat, attempt : 1..MailAttempts]
    BY <1>1, NoticingFacts
  <2> QED BY <2>1, <1>1, <1>2, NoticingFacts DEF NotificationsTypes
<1>4. ASSUME NEW n \in ids
      PROVE  RunOf(n)' /\ KeptOf(n)'
  <2>1. n \in Notice /\ n \in known'
    BY <1>1
  <2> QED BY <2>1, <1>1, NoticeNullAssumption, InsertedOf
<1>5. ASSUME NEW k \in Notice \ ids
      PROVE  KeptOf(k)' /\ (k \notin repeated' => RunOf(k)')
  <2>1. queued[k] \in Nat /\ queued[k] >= queued[k] /\ KeptOf(k) /\ notice'[k] = notice[k] /\ (k \notin known' => k \notin known)
    BY <1>1, NoticingFacts
  <2>2. KeptOf(k)'
    BY <2>1, KeptSame DEF KeptOf
  <2> QED BY <2>1, <2>2, RunSame
<1> QED BY <1>2, <1>3, <1>4, <1>5 DEF Noticing

LEMMA ScheduleStep ==
    ASSUME Noticing, Schedule
    PROVE  Noticing'
<1>1. PICK n \in Notice, channel \in {"in_app", "email", "push"} :
          Inserted({n}, Row(channel, "pending")) /\ due' \in {due, due \cup {n}}
  BY DEF Schedule
<1>2. UNCHANGED <<sender, queue, queued, mailed, repeated, told, gone>>
  BY DEF Schedule
<1>3. PICK ids \in SUBSET Notice, row \in NoticeRow : ids = {n} /\ row = Row(channel, "pending") /\ row.status = "pending"
  BY RowType
<1>4. due' \subseteq due \cup ids /\ Inserted(ids, row) /\ row.status # "delivered"
  BY <1>1, <1>3
<1> QED BY <1>2, <1>4, InsertedStep

LEMMA SendBulkStep ==
    ASSUME Noticing, SendBulk
    PROVE  Noticing'
<1>1. PICK ids \in SUBSET Notice, status \in {"sent", "pending"} : Inserted(ids, Row("in_app", status))
  BY DEF SendBulk
<1>2. UNCHANGED <<due, sender, queue, queued, mailed, repeated, told, gone>>
  BY DEF SendBulk
<1>3. PICK row \in NoticeRow : row = Row("in_app", status) /\ row.status = status
  BY RowType
<1> QED BY <1>1, <1>2, <1>3, InsertedStep

LEMMA BecomesDueStep ==
    ASSUME Noticing, NEW n \in Notice, BecomesDue(n)
    PROVE  Noticing'
<1>1. UNCHANGED <<notice, known, sender, queue, queued, mailed, repeated, told, gone>> /\ due' = due \cup {n} /\ notice[n] # Null
  BY DEF BecomesDue
<1>2. NotificationsTypes'
  BY <1>1, NoticingFacts DEF NotificationsTypes
<1>3. \A k \in Notice : KeptOf(k)' /\ (k \notin repeated => RunOf(k)')
  BY <1>1, NoticingFacts DEF KeptOf, RunOf
<1>4. \A q \in Proc : SendingOf(sender[q])'
  BY <1>1, SendersStay
<1> QED BY <1>1, <1>2, <1>3, <1>4 DEF Noticing

\* A run takes up what is pending: nobody has it yet, or it may be sent twice.
LEMMA ScheduledFindStep ==
    ASSUME Noticing, NEW p \in Proc, ScheduledFind(p)
    PROVE  Noticing'
<1>1. PICK ids \in SUBSET {n \in due : notice[n] # Null /\ notice[n].status = "pending"} :
         /\ SenderBegin(p, [NoSending EXCEPT !.pc = "dispatch", !.batch = {<<n, notice[n]>> : n \in ids}])
         /\ repeated' = repeated \cup (ids \cap UNION {InRun(q) : q \in Proc})
  BY DEF ScheduledFind
<1>2. UNCHANGED <<notice, known, due, queue, queued, mailed, told, gone>>
  BY DEF ScheduledFind
<1>3. \A n \in ids : n \in Notice /\ n \in known /\ notice[n] \in NoticeRow /\ notice[n].status = "pending"
  BY <1>1, NoticingFacts
<1>4. PICK r : r = [NoSending EXCEPT !.pc = "dispatch", !.batch = {<<n, notice[n]>> : n \in ids}]
  OBVIOUS
<1>5. r \in Sending /\ r.pc = "dispatch" /\ r.batch = {<<n, notice[n]>> : n \in ids}
  <2>1. {<<n, notice[n]>> : n \in ids} \in SUBSET (Notice \X NoticeRow)
    BY <1>3
  <2> QED BY <1>4, <2>1, NoSendingType DEF Sending
<1>6. \A x \in r.batch : x[1] \in ids /\ x[2] = notice[x[1]] /\ x = <<x[1], notice[x[1]]>>
  BY <1>5
<1>7. \A n \in Notice : (Sends(r, n) <=> n \in ids) /\ (Holds(r, n) <=> n \in ids)
  <2>1. \A n \in ids : <<n, notice[n]>> \in r.batch
    BY <1>5
  <2>2. \A n \in ids : \E x \in r.batch : x[1] = n
    BY <2>1
  <2> QED BY <1>5, <1>6, <2>2 DEF Sends, Holds
<1>8. sender' = [sender EXCEPT ![p] = r] /\ sender[p].pc = "idle"
  BY <1>1, <1>4 DEF SenderBegin
<1>9. SendingOf(r)'
  BY <1>2, <1>3, <1>5, <1>6 DEF SendingOf
<1>10. /\ sender' \in [Proc -> Sending]
       /\ \A q \in Proc : sender'[q] = IF q = p THEN r ELSE sender[q]
       /\ \A q \in Proc : SendingOf(sender[q])'
  <2>1. known \subseteq known' /\ queued' \in [Notice -> Nat] /\ \A k \in Notice : queued'[k] >= queued[k]
    BY <1>2, NoticingFacts
  <2> QED BY <1>5, <1>8, <1>9, <2>1, SenderMoves
<1>11. \A n \in ids \ repeated' : \A q \in Proc : ~Sends(sender[q], n)
  BY <1>1, <1>3, InRunIs
<1>12. NotificationsTypes'
  <2>1. repeated' \subseteq known
    BY <1>1, <1>3, NoticingFacts
  <2> QED BY <2>1, <1>2, <1>10, NoticingFacts DEF NotificationsTypes
<1>13. \A n \in ids : n \notin told /\ n \notin gone
  BY <1>3, NoticingFacts, NoticeNullAssumption DEF KeptOf
<1>14. ASSUME NEW n \in Notice
       PROVE  KeptOf(n)'
  <2>1. queued[n] \in Nat /\ queued[n] >= queued[n] /\ KeptOf(n)
    BY NoticingFacts
  <2>2. n \in gone => \A q \in Proc : Holds(sender'[q], n) => Holds(sender[q], n)
    BY <1>7, <1>10, <1>13
  <2>3. n \in told => \A q \in Proc : Sends(sender'[q], n) => Sends(sender[q], n) /\ sender'[q].own = sender[q].own
    BY <1>7, <1>10, <1>13
  <2> QED BY <1>2, <2>1, <2>2, <2>3, KeptSame DEF KeptOf
<1>15. ASSUME NEW n \in Notice \ repeated'
       PROVE  RunOf(n)'
  <2>0. n \in Notice \ repeated
    BY <1>1
  <2>1. CASE n \in ids
    <3>1. RunOf(n) /\ \A q \in Proc : ~Sends(sender[q], n)
      BY <1>11, <2>0, <2>1, NoticingFacts
    <3>2. queued[n] = 0 /\ mailed[n] <= 0
      BY <1>3, <2>1, <3>1, NoticeNullAssumption DEF RunOf
    <3>3. \A q \in Proc : Sends(sender'[q], n) => q = p
      BY <1>10, <3>1
    <3>4. \A i \in queue : i.notice # n
      BY <3>1, <3>2 DEF RunOf
    <3> QED BY <1>2, <3>2, <3>3, <3>4 DEF RunOf
  <2>2. CASE n \notin ids
    <3>1. \A q \in Proc : Sends(sender'[q], n) <=> Sends(sender[q], n)
      BY <1>7, <1>8, <1>10, <2>2, IdleFacts
    <3>2. \A q \in Proc : \A x \in sender'[q].batch : x[1] = n => \E y \in sender[q].batch : y[1] = n
      BY <1>6, <1>10, <2>2
    <3> QED BY <1>2, <2>0, <3>1, <3>2, RunSame
  <2> QED BY <2>1, <2>2
<1> QED BY <1>10, <1>12, <1>14, <1>15 DEF Noticing

\* dispatch() of one of a batch: a mail of it may be queued now, and it is to be saved.
LEMMA DispatchStep ==
    ASSUME Noticing, NEW p \in Proc, Dispatch(p)
    PROVE  Noticing'
<1>1. /\ sender[p].pc = "dispatch" /\ sender[p] \in Sending /\ SendingOf(sender[p])
      /\ UNCHANGED <<notice, known, due, mailed, repeated, told, gone>>
  BY NoticingFacts DEF Dispatch
<1>2. PICK x \in sender[p].batch, status \in {"delivered", "failed"} :
        /\ sender' = [sender EXCEPT ![p] = [[sender[p] EXCEPT !.pc = "save", !.batch = sender[p].batch \ {x},
                                                           !.notice = x[1], !.row = x[2]] EXCEPT !.row.status = status]]
        /\ \/ /\ queue' = queue \cup {[notice |-> x[1], number |-> queued[x[1]] + 1, attempt |-> 1]}
              /\ queued' = [queued EXCEPT ![x[1]] = queued[x[1]] + 1]
           \/ /\ UNCHANGED <<queue, queued>>
              /\ status = "delivered" => x[2].channel = "in_app"
  <2>1. PICK x \in sender[p].batch :
          LET n == x[1]
              saving == [sender[p] EXCEPT !.pc = "save", !.batch = @ \ {x}, !.notice = n, !.row = x[2]]
              as(status) == sender' = [sender EXCEPT ![p] = [saving EXCEPT !.row.status = status]]
          IN  \/ /\ queue' = queue \cup {[notice |-> n, number |-> queued[n] + 1, attempt |-> 1]}
                 /\ queued' = [queued EXCEPT ![n] = @ + 1]
                 /\ \E status \in {"delivered", "failed"} : as(status)
              \/ /\ as(IF x[2].channel = "in_app" THEN "delivered" ELSE "failed")
                 /\ UNCHANGED <<queue, queued>>
    BY DEF Dispatch
  <2> QED BY <2>1
<1>3. PICK n, row : n = x[1] /\ row = [x[2] EXCEPT !.status = status]
  OBVIOUS
<1>4. x = <<n, x[2]>> /\ n \in Notice /\ n \in known /\ x[2] \in NoticeRow /\ queued[n] \in Nat
  BY <1>1, <1>2, <1>3, NoticingFacts DEF Sending, SendingOf
<1>5. row \in NoticeRow /\ row.status = status /\ row.channel = x[2].channel
  BY <1>3, <1>4 DEF NoticeRow
<1>6. PICK r : r = [sender[p] EXCEPT !.pc = "save", !.batch = sender[p].batch \ {x}, !.notice = n, !.row = row]
  OBVIOUS
<1>7. r \in Sending /\ r.pc = "save" /\ r.batch = sender[p].batch \ {x} /\ r.notice = n /\ r.row = row /\ r.own = sender[p].own
  <2>1. sender[p].batch \ {x} \in SUBSET (Notice \X NoticeRow)
    BY <1>1 DEF Sending
  <2> QED BY <1>1, <1>4, <1>5, <1>6, <2>1 DEF Sending
<1>8. sender' = [sender EXCEPT ![p] = r]
  <2>1. r = [[sender[p] EXCEPT !.pc = "save", !.batch = sender[p].batch \ {x}, !.notice = x[1], !.row = x[2]] EXCEPT !.row.status = status]
    BY <1>1, <1>3, <1>6 DEF Sending
  <2> QED BY <1>2, <2>1
<1>9. /\ queued' \in [Notice -> Nat] /\ queue' \subseteq [notice : known, number : Nat, attempt : 1..MailAttempts]
      /\ queued'[n] = queued[n] + 1 \/ (queued'[n] = queued[n] /\ queue' = queue /\ (status = "delivered" => x[2].channel = "in_app"))
      /\ \A k \in Notice \ {n} : queued'[k] = queued[k] /\ \A j \in queue' : j.notice = k => j \in queue
      /\ \A j \in queue' : j.notice = n => j \in queue \/ j = [notice |-> n, number |-> queued[n] + 1, attempt |-> 1]
  <2>1. CASE UNCHANGED <<queue, queued>> /\ (status = "delivered" => x[2].channel = "in_app")
    BY <2>1, NoticingFacts
  <2>2. CASE /\ queue' = queue \cup {[notice |-> n, number |-> queued[n] + 1, attempt |-> 1]}
             /\ queued' = [queued EXCEPT ![n] = queued[n] + 1]
    <3>1. [notice |-> n, number |-> queued[n] + 1, attempt |-> 1] \in [notice : known, number : Nat, attempt : 1..MailAttempts]
      BY <1>4, NotificationsAssumption
    <3>2. queued \in [Notice -> Nat] /\ queued[n] + 1 \in Nat
      BY <1>4, NoticingFacts
    <3>3. queued' \in [Notice -> Nat] /\ queued'[n] = queued[n] + 1 /\ \A k \in Notice \ {n} : queued'[k] = queued[k]
      BY <2>2, <1>4, <3>2
    <3>4. \A j \in queue' : j \in queue \/ j = [notice |-> n, number |-> queued[n] + 1, attempt |-> 1]
      BY <2>2
    <3>5. queue' \subseteq [notice : known, number : Nat, attempt : 1..MailAttempts]
      BY <3>1, <3>4, NoticingFacts
    <3> QED BY <3>3, <3>4, <3>5
  <2> QED BY <1>2, <1>3, <2>1, <2>2
<1>10. \A k \in Notice : queued'[k] >= queued[k] /\ queued[k] \in Nat /\ queued'[k] \in Nat
  BY <1>9, NoticingFacts
<1>11. \A y \in r.batch : y[1] # n /\ y \in sender[p].batch
  BY <1>1, <1>2, <1>3, <1>7 DEF SendingOf
<1>12. SendingOf(r)'
  <2>1. row.status = "delivered" /\ row.channel = "email" => queued'[n] > 0
    BY <1>4, <1>5, <1>9
  <2>2. \A y \in r.batch : y[1] \in known' /\ y[2].status \in {"sent", "pending"} /\ y[1] # n
    BY <1>1, <1>11 DEF SendingOf
  <2>3. \A y, z \in r.batch : y[1] = z[1] => y = z
    BY <1>1, <1>11 DEF SendingOf
  <2> QED BY <2>1, <2>2, <2>3, <1>1, <1>4, <1>5, <1>7, NoticeNullAssumption DEF SendingOf
<1>13. /\ sender' \in [Proc -> Sending]
       /\ \A q \in Proc : sender'[q] = IF q = p THEN r ELSE sender[q]
       /\ \A q \in Proc : SendingOf(sender[q])'
  BY <1>1, <1>7, <1>8, <1>9, <1>10, <1>12, SenderMoves
<1>14. \A k \in Notice : (Sends(r, k) <=> Sends(sender[p], k)) /\ (Holds(r, k) <=> Holds(sender[p], k))
  <2>1. \A k \in Notice \ {n} : (\E y \in r.batch : y[1] = k) <=> \E y \in sender[p].batch : y[1] = k
    BY <1>3, <1>7
  <2>2. Sends(r, n) /\ Sends(sender[p], n)
    BY <1>2, <1>3, <1>7 DEF Sends
  <2> QED BY <1>1, <1>7, <2>1, <2>2 DEF Sends, Holds
<1>15. \A q \in Proc, k \in Notice : (Sends(sender'[q], k) <=> Sends(sender[q], k)) /\ (Holds(sender'[q], k) <=> Holds(sender[q], k))
                                      /\ sender'[q].own = sender[q].own
  BY <1>7, <1>13, <1>14
<1>16. NotificationsTypes'
  BY <1>1, <1>9, <1>13, NoticingFacts DEF NotificationsTypes
<1>17. ASSUME NEW k \in Notice
       PROVE  KeptOf(k)'
  <2>1. KeptOf(k) /\ (k \notin known => queued'[k] = 0 /\ mailed'[k] = 0)
    BY <1>1, <1>4, <1>9, NoticingFacts DEF KeptOf
  <2> QED BY <1>1, <1>10, <1>15, <2>1, KeptSame
<1>18. ASSUME NEW k \in Notice \ repeated'
       PROVE  RunOf(k)'
  <2>1. k \in Notice \ repeated /\ RunOf(k)
    BY <1>1, NoticingFacts
  <2>2. CASE k = n
    <3>1. queued[n] = 0 /\ Sends(sender[p], n) /\ mailed[n] \in Nat
      BY <1>2, <1>3, <1>4, <2>1, <2>2, NoticingFacts DEF RunOf, Sends
    <3>2. mailed[n] = 0 /\ \A i \in queue : i.notice # n
      BY <2>1, <2>2, <3>1 DEF RunOf
    <3>3. \A q \in Proc \ {p} : ~Sends(sender[q], n)
      BY <2>1, <2>2, <3>1 DEF RunOf
    <3>4. \A q \in Proc : \A y \in sender'[q].batch : y[1] # n
      BY <1>11, <1>13, <3>3 DEF Sends
    <3>5. queued'[n] \in {0, 1} /\ (queued'[n] = 0 => \A i \in queue' : i.notice # n)
      BY <1>9, <3>1, <3>2
    <3>6. \A q, s \in Proc : Sends(sender'[q], n) /\ Sends(sender'[s], n) => q = s
      BY <1>15, <3>3, <1>4
    <3>7. Sends(sender'[p], n)
      BY <1>4, <1>15, <3>1
    <3>8. \A i, j \in queue' : i.notice = n /\ j.notice = n => i = j
      BY <1>9, <3>2
    <3>9. mailed' = mailed
      BY <1>1
    <3> QED BY <2>2, <3>2, <3>4, <3>5, <3>6, <3>7, <3>8, <3>9 DEF RunOf
  <2>3. CASE k # n
    <3>1. \A q \in Proc : \A y \in sender'[q].batch : y[1] = k => \E z \in sender[q].batch : z[1] = k
      BY <1>11, <1>13
    <3> QED BY <1>1, <1>9, <1>15, <2>1, <2>3, <3>1, RunSame
  <2> QED BY <2>2, <2>3
<1> QED BY <1>13, <1>16, <1>17, <1>18 DEF Noticing

\* The run, or the request, writes the row it has, and goes on with the rest of its batch.
LEMMA NoticeSaveStep ==
    ASSUME Noticing, NEW p \in Proc, NoticeSave(p)
    PROVE  Noticing'
<1>1. PICK memo, n : memo = sender[p] /\ n = memo.notice
  OBVIOUS
<1>2. /\ memo.pc = "save"
      /\ notice' = [notice EXCEPT ![n] =
              IF memo.own /\ notice[n] # Null THEN [memo.row EXCEPT !.readAt = notice[n].readAt] ELSE memo.row]
      /\ IF memo.batch = {} THEN SenderEnd(p)
         ELSE sender' = [sender EXCEPT ![p].pc = "dispatch", ![p].notice = Null, ![p].row = Null]
      /\ UNCHANGED <<known, due, queue, queued, mailed, repeated, told, gone>>
  BY <1>1 DEF NoticeSave
<1>3. memo \in Sending /\ SendingOf(memo) /\ memo = sender[p] /\ sender \in [Proc -> Sending]
  BY <1>1, NoticingFacts
<1>4. /\ n \in Notice /\ n \in known /\ memo.row \in NoticeRow /\ memo.row.status \in {"delivered", "failed"}
      /\ memo.row.status = "delivered" /\ memo.row.channel = "email" => queued[n] > 0
      /\ \A x \in memo.batch : x[1] # n
  BY <1>1, <1>2, <1>3, NoticingFacts DEF Sending, SendingOf
<1>5. PICK row : row = IF memo.own /\ notice[n] # Null THEN [memo.row EXCEPT !.readAt = notice[n].readAt] ELSE memo.row
  OBVIOUS
<1>6. /\ row \in NoticeRow /\ row.status = memo.row.status /\ row.channel = memo.row.channel
      /\ memo.own /\ notice[n] # Null => row.readAt = notice[n].readAt
  <2>1. notice[n] # Null => notice[n].readAt \in BOOLEAN
    BY <1>4, NoticingFacts DEF NoticeRow
  <2> QED BY <1>4, <1>5, <2>1 DEF NoticeRow
<1>7. notice' \in [Notice -> {Null} \cup NoticeRow] /\ \A k \in Notice : notice'[k] = IF k = n THEN row ELSE notice[k]
  <2>1. notice' = [notice EXCEPT ![n] = row]
    BY <1>2, <1>5
  <2> QED BY <2>1, <1>4, <1>6, NoticingFacts
<1>8. PICK r \in Sending : /\ sender' = [sender EXCEPT ![p] = r]
                           /\ (r = NoSending /\ memo.batch = {})
                              \/ (r.pc = "dispatch" /\ r.batch = memo.batch /\ r.own = memo.own)
  <2>1. CASE memo.batch = {}
    BY <1>2, <2>1, NoSendingType DEF SenderEnd
  <2>2. CASE memo.batch # {}
    <3>1. PICK s : s = [memo EXCEPT !.pc = "dispatch", !.notice = Null, !.row = Null]
      OBVIOUS
    <3>2. s \in Sending /\ s.pc = "dispatch" /\ s.batch = memo.batch /\ s.own = memo.own
      BY <1>3, <3>1 DEF Sending
    <3>3. sender' = [sender EXCEPT ![p] = s]
      BY <1>2, <1>3, <2>2, <3>1 DEF Sending
    <3> QED BY <3>2, <3>3
  <2> QED BY <2>1, <2>2
<1>9. \A k \in Notice : /\ Sends(r, k) => k # n /\ Sends(memo, k) /\ r.own = memo.own
                        /\ Holds(r, k) => k # n /\ Holds(memo, k)
                        /\ k # n /\ Sends(memo, k) => Sends(r, k)
  BY <1>1, <1>2, <1>4, <1>8, NoSendingType DEF Sends, Holds
<1>10. SendingOf(r)'
  <2>1. SendingOf(r)
    <3>1. CASE r = NoSending
      BY <3>1, IdleSending
    <3>2. CASE r.pc = "dispatch" /\ r.batch = memo.batch
      BY <1>3, <3>2 DEF SendingOf
    <3> QED BY <1>8, <3>1, <3>2
  <2> QED BY <1>2, <2>1 DEF SendingOf
<1>11. /\ sender' \in [Proc -> Sending]
       /\ \A q \in Proc : sender'[q] = IF q = p THEN r ELSE sender[q]
       /\ \A q \in Proc : SendingOf(sender[q])'
  <2>1. known \subseteq known' /\ queued' \in [Notice -> Nat] /\ \A k \in Notice : queued'[k] >= queued[k]
    BY <1>2, NoticingFacts
  <2> QED BY <1>8, <1>10, <2>1, SenderMoves
<1>12. NotificationsTypes'
  BY <1>2, <1>4, <1>7, <1>11, NoticingFacts DEF NotificationsTypes
<1>13. \A q \in Proc : \A k \in Notice : /\ Sends(sender'[q], k) => Sends(sender[q], k) /\ sender'[q].own = sender[q].own
                                         /\ Holds(sender'[q], k) => Holds(sender[q], k)
                                         /\ k # n /\ Sends(sender[q], k) => Sends(sender'[q], k)
  BY <1>1, <1>9, <1>11
<1>14. Sends(sender[p], n) /\ Holds(sender[p], n)
  BY <1>1, <1>2 DEF Sends, Holds
<1>15. KeptOf(n)'
  <2>1. KeptOf(n)
    BY <1>4, NoticingFacts
  <2>2. n \in told => row.readAt
    BY <1>1, <1>6, <1>14, <2>1 DEF KeptOf
  <2>3. n \notin gone
    BY <1>14, <2>1 DEF KeptOf
  <2>4. row # Null /\ notice'[n] = row
    BY <1>4, <1>6, <1>7, NoticeNullAssumption
  <2>5. n \in told => \A q \in Proc : Sends(sender'[q], n) => sender'[q].own
    BY <1>4, <1>13, <2>1 DEF KeptOf
  <2> QED BY <1>2, <1>4, <1>6, <2>2, <2>3, <2>4, <2>5 DEF KeptOf
<1>16. ASSUME NEW k \in Notice \ {n}
       PROVE  KeptOf(k)'
  <2>1. queued[k] \in Nat /\ queued[k] >= queued[k] /\ KeptOf(k)
    BY NoticingFacts
  <2> QED BY <1>2, <1>7, <1>13, <2>1, KeptSame DEF KeptOf
<1>17. ASSUME NEW k \in Notice \ repeated'
       PROVE  RunOf(k)'
  <2>1. k \in Notice \ repeated
    BY <1>2
  <2>2. \A q \in Proc : \A x \in sender'[q].batch : x[1] = k => \E y \in sender[q].batch : y[1] = k
    BY <1>1, <1>8, <1>11, NoSendingType
  <2>3. notice'[k] # Null /\ notice'[k].status = "pending" =>
           notice[k] # Null /\ notice[k].status = "pending" /\ k # n
    BY <1>4, <1>6, <1>7
  <2> QED BY <1>2, <1>13, <2>1, <2>2, <2>3, RunSame
<1> QED BY <1>11, <1>12, <1>15, <1>16, <1>17 DEF Noticing

\* A notification as it was read.
LEMMA ReadRow ==
    ASSUME NEW old \in NoticeRow, NEW row, row = [old EXCEPT !.status = "read", !.readAt = TRUE]
    PROVE  row \in NoticeRow /\ row.status = "read" /\ row.readAt /\ row # Null
BY NoticeNullAssumption DEF NoticeRow

LEMMA ReadFindStep ==
    ASSUME Noticing, NEW p \in Proc, ReadFind(p)
    PROVE  Noticing'
<1>1. PICK n \in Notice :
          /\ notice[n] # Null
          /\ SenderBegin(p, [NoSending EXCEPT !.pc = "readSave", !.notice = n,
                                              !.row = [notice[n] EXCEPT !.status = "read", !.readAt = TRUE]])
  BY DEF ReadFind
<1>2. UNCHANGED <<notice, known, due, queue, queued, mailed, repeated, told, gone>>
  BY DEF ReadFind
<1>3. PICK row : row = [notice[n] EXCEPT !.status = "read", !.readAt = TRUE]
  OBVIOUS
<1>4. row \in NoticeRow /\ row.status = "read" /\ row.readAt /\ row # Null /\ n \in known
  <2>1. notice[n] \in NoticeRow /\ n \in known
    BY <1>1, NoticingFacts
  <2> QED BY <1>3, <2>1, ReadRow
<1>5. PICK r : r = [NoSending EXCEPT !.pc = "readSave", !.notice = n, !.row = row]
  OBVIOUS
<1>6. r \in Sending /\ r.pc = "readSave" /\ r.notice = n /\ r.row = row /\ r.batch = {}
  BY <1>4, <1>5, NoSendingType DEF Sending
<1>7. sender' = [sender EXCEPT ![p] = r] /\ sender[p].pc = "idle"
  BY <1>1, <1>3, <1>5 DEF SenderBegin
<1>8. SendingOf(r)'
  BY <1>2, <1>4, <1>6 DEF SendingOf
<1>9. /\ sender' \in [Proc -> Sending]
      /\ \A q \in Proc : sender'[q] = IF q = p THEN r ELSE sender[q]
      /\ \A q \in Proc : SendingOf(sender[q])'
  <2>1. known \subseteq known' /\ queued' \in [Notice -> Nat] /\ \A k \in Notice : queued'[k] >= queued[k]
    BY <1>2, NoticingFacts
  <2> QED BY <1>6, <1>7, <1>8, <2>1, SenderMoves
<1>10. \A q \in Proc, k \in Notice : /\ Sends(sender'[q], k) <=> Sends(sender[q], k)
                                     /\ Sends(sender[q], k) => sender'[q].own = sender[q].own
                                     /\ Holds(sender'[q], k) => k = n \/ Holds(sender[q], k)
  BY <1>6, <1>7, <1>9, IdleFacts DEF Sends, Holds
<1>11. NotificationsTypes'
  BY <1>2, <1>9, NoticingFacts DEF NotificationsTypes
<1>12. ASSUME NEW k \in Notice
       PROVE  KeptOf(k)' /\ (k \notin repeated' => RunOf(k)')
  <2>1. queued[k] \in Nat /\ queued[k] >= queued[k] /\ KeptOf(k)
    BY NoticingFacts
  <2>2. k \in gone => k # n
    BY <1>1, <2>1 DEF KeptOf
  <2>3. KeptOf(k)'
    BY <1>2, <1>10, <2>1, <2>2, KeptSame DEF KeptOf
  <2>4. \A q \in Proc : \A x \in sender'[q].batch : x[1] = k => \E y \in sender[q].batch : y[1] = k
    BY <1>6, <1>9
  <2> QED BY <1>2, <1>10, <2>3, <2>4, RunSame
<1> QED BY <1>9, <1>11, <1>12 DEF Noticing

\* Those told are had by none but who made them.
LEMMA ToldFacts ==
    ASSUME Noticing, NEW ids \in SUBSET Notice, ids \subseteq known, Told(ids)
    PROVE  /\ told' \subseteq known
           /\ \A n \in Notice : n \in told' => /\ n \in told \/ n \in ids
                                             /\ \A q \in Proc : Sends(sender[q], n) => sender[q].own
<1>1. told' = told \cup (ids \ UNION {InRun(p) : p \in {q \in Proc : ~sender[q].own}})
  BY DEF Told
<1>2. \A n \in Notice : n \in told => \A q \in Proc : Sends(sender[q], n) => sender[q].own
  BY NoticingFacts DEF KeptOf
<1>3. ASSUME NEW n \in ids, n \notin UNION {InRun(p) : p \in {q \in Proc : ~sender[q].own}}, NEW q \in Proc, Sends(sender[q], n)
      PROVE  sender[q].own
  BY <1>3, InRunIs
<1> QED BY <1>1, <1>2, <1>3, NoticingFacts

LEMMA ReadSaveStep ==
    ASSUME Noticing, NEW p \in Proc, ReadSave(p)
    PROVE  Noticing'
<1>1. PICK n, row : n = sender[p].notice /\ row = sender[p].row
  OBVIOUS
<1>2. /\ sender[p].pc = "readSave" /\ notice' = [notice EXCEPT ![n] = row] /\ Told({n})
      /\ sender' = [sender EXCEPT ![p] = NoSending]
      /\ UNCHANGED <<known, due, queue, queued, mailed, repeated, gone>>
  BY <1>1 DEF ReadSave, SenderEnd
<1>3. /\ sender[p] \in Sending /\ SendingOf(sender[p]) /\ sender[p].batch = {}
      /\ n \in Notice /\ n \in known /\ row \in NoticeRow /\ row # Null /\ row.status = "read" /\ row.readAt
  BY <1>1, <1>2, NoticingFacts DEF Sending, SendingOf
<1>4. notice' \in [Notice -> {Null} \cup NoticeRow] /\ \A k \in Notice : notice'[k] = IF k = n THEN row ELSE notice[k]
  <2>1. notice' = [notice EXCEPT ![n] = row] /\ row \in NoticeRow /\ notice \in [Notice -> {Null} \cup NoticeRow]
    BY <1>2, <1>3, NoticingFacts
  <2> QED BY <2>1, <1>3
<1>5. /\ sender' \in [Proc -> Sending]
      /\ \A q \in Proc : sender'[q] = IF q = p THEN NoSending ELSE sender[q]
      /\ \A q \in Proc : SendingOf(sender[q])'
  <2>1. known \subseteq known' /\ queued' \in [Notice -> Nat] /\ \A k \in Notice : queued'[k] >= queued[k]
    BY <1>2, NoticingFacts
  <2> QED BY <1>2, <2>1, NoSendingType, IdleSending, SenderMoves
<1>6. PICK ids \in SUBSET Notice : ids = {n} /\ ids \subseteq known /\ Told(ids)
  BY <1>2, <1>3
<1>7. /\ told' \subseteq known
      /\ \A k \in Notice : k \in told' => (k \in told \/ k = n) /\ \A q \in Proc : Sends(sender[q], k) => sender[q].own
  BY <1>6, ToldFacts
<1>8. \A q \in Proc, k \in Notice : /\ Sends(sender'[q], k) => Sends(sender[q], k) /\ sender'[q].own = sender[q].own
                                    /\ Holds(sender'[q], k) => Holds(sender[q], k)
                                    /\ Sends(sender[q], k) => Sends(sender'[q], k)
  BY <1>2, <1>3, <1>5, NoSendingType DEF Sends
<1>9. NotificationsTypes'
  BY <1>2, <1>3, <1>4, <1>5, <1>7, NoticingFacts DEF NotificationsTypes
<1>10. Holds(sender[p], n)
  BY <1>1, <1>2 DEF Holds
<1>11. KeptOf(n)'
  <2>1. KeptOf(n) /\ n \notin gone
    BY <1>3, <1>10, NoticingFacts DEF KeptOf
  <2>2. notice'[n] = row
    BY <1>3, <1>4
  <2>3. n \in told' => \A q \in Proc : Sends(sender'[q], n) => sender'[q].own
    BY <1>3, <1>7, <1>8
  <2> QED BY <1>2, <1>3, <2>1, <2>2, <2>3 DEF KeptOf
<1>12. ASSUME NEW k \in Notice \ {n}
       PROVE  KeptOf(k)'
  <2>1. queued[k] \in Nat /\ queued[k] >= queued[k] /\ KeptOf(k)
    BY NoticingFacts
  <2> QED BY <1>2, <1>4, <1>7, <1>8, <2>1, KeptSame DEF KeptOf
<1>13. ASSUME NEW k \in Notice \ repeated'
       PROVE  RunOf(k)'
  <2>1. k \in Notice \ repeated
    BY <1>2
  <2>2. \A q \in Proc : \A x \in sender'[q].batch : x[1] = k => \E y \in sender[q].batch : y[1] = k
    BY <1>5, NoSendingType
  <2>3. notice'[k] # Null /\ notice'[k].status = "pending" => notice[k] # Null /\ notice[k].status = "pending"
    BY <1>3, <1>4
  <2> QED BY <1>2, <1>8, <2>1, <2>2, <2>3, RunSame
<1> QED BY <1>5, <1>9, <1>11, <1>12, <1>13 DEF Noticing

LEMMA ReadAllStep ==
    ASSUME Noticing, ReadAll
    PROVE  Noticing'
<1>1. PICK unread \in SUBSET Notice :
        /\ unread = {n \in Notice : notice[n] # Null /\ ~notice[n].readAt}
        /\ notice' = [n \in Notice |-> IF n \in unread THEN [notice[n] EXCEPT !.status = "read", !.readAt = TRUE] ELSE notice[n]]
        /\ Told(unread)
  BY DEF ReadAll
<1>2. UNCHANGED <<known, due, sender, queue, queued, mailed, repeated, gone>>
  BY DEF ReadAll
<1>3. \A n \in unread : n \in known /\ notice[n] # Null /\ notice'[n] \in NoticeRow /\ notice'[n].status = "read"
                        /\ notice'[n].readAt /\ notice'[n] # Null
  <2> SUFFICES ASSUME NEW n \in unread
               PROVE  n \in known /\ notice[n] # Null /\ notice'[n] \in NoticeRow /\ notice'[n].status = "read"
                        /\ notice'[n].readAt /\ notice'[n] # Null
    OBVIOUS
  <2>1. notice[n] \in NoticeRow /\ n \in known /\ notice[n] # Null
    BY <1>1, NoticingFacts
  <2>2. notice'[n] = [notice[n] EXCEPT !.status = "read", !.readAt = TRUE]
    BY <1>1
  <2> QED BY <2>1, <2>2, ReadRow
<1>4. \A n \in Notice \ unread : notice'[n] = notice[n]
  BY <1>1
<1>5. notice' \in [Notice -> {Null} \cup NoticeRow]
  <2>1. \A n \in Notice : notice'[n] \in {Null} \cup NoticeRow
    BY <1>3, <1>4, NoticingFacts
  <2>2. notice' = [n \in Notice |-> notice'[n]]
    BY <1>1
  <2> QED BY <2>1, <2>2
<1>6. /\ told' \subseteq known
      /\ \A k \in Notice : k \in told' => (k \in told \/ k \in unread) /\ \A q \in Proc : Sends(sender[q], k) => sender[q].own
  <2>1. unread \subseteq known
    BY <1>3
  <2> QED BY <1>1, <2>1, ToldFacts
<1>7. sender' \in [Proc -> Sending] /\ \A q \in Proc : SendingOf(sender[q])'
  BY <1>2, SendersStay
<1>8. NotificationsTypes'
  BY <1>2, <1>3, <1>4, <1>5, <1>6, <1>7, NoticingFacts DEF NotificationsTypes
<1>9. ASSUME NEW k \in Notice
      PROVE  KeptOf(k)'
  <2>1. queued[k] \in Nat /\ queued[k] >= queued[k] /\ KeptOf(k)
    BY NoticingFacts
  <2>2. CASE k \in unread
    BY <1>2, <1>3, <1>6, <2>1, <2>2 DEF KeptOf
  <2>3. CASE k \notin unread
    BY <1>2, <1>4, <1>6, <2>1, <2>3, KeptSame DEF KeptOf
  <2> QED BY <2>2, <2>3
<1>10. ASSUME NEW k \in Notice \ repeated'
       PROVE  RunOf(k)'
  <2>1. k \in Notice \ repeated
    BY <1>2
  <2>2. notice'[k] # Null /\ notice'[k].status = "pending" => notice[k] # Null /\ notice[k].status = "pending"
    BY <1>3, <1>4
  <2> QED BY <1>2, <2>1, <2>2, RunSame
<1> QED BY <1>7, <1>8, <1>9, <1>10 DEF Noticing

LEMMA DeleteStep ==
    ASSUME Noticing, Delete
    PROVE  Noticing'
<1>1. PICK n \in Notice :
          /\ notice[n] # Null
          /\ notice' = [notice EXCEPT ![n] = Null]
          /\ gone' = gone \cup ({n} \ UNION {Held(p) : p \in Proc})
          /\ told' = told \ {n}
  BY DEF Delete
<1>2. UNCHANGED <<known, due, sender, queue, queued, mailed, repeated>>
  BY DEF Delete
<1>3. notice' \in [Notice -> {Null} \cup NoticeRow] /\ \A k \in Notice : notice'[k] = IF k = n THEN Null ELSE notice[k]
  BY <1>1, NoticingFacts
<1>4. sender' \in [Proc -> Sending] /\ \A q \in Proc : SendingOf(sender[q])'
  BY <1>2, SendersStay
<1>5. NotificationsTypes'
  BY <1>1, <1>2, <1>3, <1>4, NoticingFacts DEF NotificationsTypes
<1>6. n \in gone' => n \in gone \/ \A q \in Proc : ~Holds(sender[q], n)
  BY <1>1, InRunIs
<1>7. ASSUME NEW k \in Notice
      PROVE  KeptOf(k)'
  <2>1. queued[k] \in Nat /\ queued[k] >= queued[k] /\ KeptOf(k)
    BY NoticingFacts
  <2>2. CASE k = n
    BY <1>1, <1>2, <1>3, <1>6, <2>1, <2>2 DEF KeptOf
  <2>3. CASE k # n
    <3>1. (k \in told' => k \in told) /\ (k \in gone' => k \in gone) /\ notice'[k] = notice[k]
      BY <1>1, <1>3, <2>3
    <3> QED BY <1>2, <2>1, <3>1 DEF KeptOf
  <2> QED BY <2>2, <2>3
<1>8. ASSUME NEW k \in Notice \ repeated'
      PROVE  RunOf(k)'
  <2>1. k \in Notice \ repeated
    BY <1>2
  <2>2. notice'[k] # Null /\ notice'[k].status = "pending" => notice[k] # Null /\ notice[k].status = "pending"
    BY <1>3
  <2> QED BY <1>2, <2>1, <2>2, RunSame
<1> QED BY <1>4, <1>5, <1>7, <1>8 DEF Noticing

\* A step of the queue: a mail that is tried again has the notification it had.
LEMMA AgainFacts ==
    ASSUME Noticing, NEW job \in queue, Again(job) \/ queue' = queue \ {job}
    PROVE  /\ job.notice \in Notice
           /\ queue' \subseteq [notice : known, number : Nat, attempt : 1..MailAttempts]
           /\ \A j \in queue' : j.notice # job.notice => j \in queue
           /\ \A n \in Notice : (\A i, j \in queue : i.notice = n /\ j.notice = n => i = j)
                                => \A i, j \in queue' : i.notice = n /\ j.notice = n => i = j
<1>1. job \in [notice : known, number : Nat, attempt : 1..MailAttempts] /\ known \subseteq Notice
  BY NoticingFacts
<1>2. PICK next : next = [job EXCEPT !.attempt = job.attempt + 1]
  OBVIOUS
<1>3. next.notice = job.notice /\ (job.attempt < MailAttempts => next \in [notice : known, number : Nat, attempt : 1..MailAttempts])
  BY <1>1, <1>2, NotificationsAssumption
<1>4. \A j \in queue' : (j \in queue /\ j # job) \/ (j = next /\ job.attempt < MailAttempts)
  BY <1>2 DEF Again
<1>5. queue' \subseteq [notice : known, number : Nat, attempt : 1..MailAttempts]
  BY <1>3, <1>4, NoticingFacts
<1> QED BY <1>1, <1>3, <1>4, <1>5

LEMMA MailFailStep ==
    ASSUME Noticing, NEW job \in queue, MailFail(job)
    PROVE  Noticing'
<1>1. UNCHANGED <<notice, known, due, sender, queued, mailed, repeated, told, gone>> /\ (Again(job) \/ queue' = queue \ {job})
  BY DEF MailFail
<1>2. sender' \in [Proc -> Sending] /\ \A q \in Proc : SendingOf(sender[q])'
  BY <1>1, SendersStay
<1>3. NotificationsTypes'
  BY <1>1, <1>2, AgainFacts, NoticingFacts DEF NotificationsTypes
<1>4. \A k \in Notice : KeptOf(k)'
  BY <1>1, NoticingFacts DEF KeptOf
<1>5. ASSUME NEW k \in Notice \ repeated'
      PROVE  RunOf(k)'
  <2>1. RunOf(k)
    BY <1>1, NoticingFacts
  <2>2. CASE k = job.notice
    <3>1. mailed[k] = 0 /\ queued[k] = 1 /\ \A i, j \in queue : i.notice = k /\ j.notice = k => i = j
      BY <2>1, <2>2 DEF RunOf
    <3>2. \A i, j \in queue' : i.notice = k /\ j.notice = k => i = j
      BY <1>1, <3>1, AgainFacts
    <3> QED BY <1>1, <2>1, <3>1, <3>2 DEF RunOf
  <2>3. CASE k # job.notice
    <3>1. \A j \in queue' : j.notice = k => j \in queue
      BY <1>1, <2>3, AgainFacts
    <3> QED BY <1>1, <2>1, <3>1 DEF RunOf
  <2> QED BY <2>2, <2>3
<1> QED BY <1>2, <1>3, <1>4, <1>5 DEF Noticing

LEMMA MailSendStep ==
    ASSUME Noticing, NEW job \in queue, MailSend(job)
    PROVE  Noticing'
<1>1. /\ UNCHANGED <<notice, known, due, sender, queued, told, gone>>
      /\ mailed' = [mailed EXCEPT ![job.notice] = mailed[job.notice] + 1]
      /\ (queue' = queue \ {job} /\ repeated' = repeated) \/ (Again(job) /\ repeated' = repeated \cup {job.notice})
  BY DEF MailSend
<1>2. sender' \in [Proc -> Sending] /\ \A q \in Proc : SendingOf(sender[q])'
  BY <1>1, SendersStay
<1>3. /\ job.notice \in Notice /\ job.notice \in known
      /\ queue' \subseteq [notice : known, number : Nat, attempt : 1..MailAttempts]
      /\ \A j \in queue' : j.notice # job.notice => j \in queue
  BY <1>1, AgainFacts, NoticingFacts
<1>4. mailed' \in [Notice -> Nat] /\ mailed'[job.notice] = mailed[job.notice] + 1
      /\ \A k \in Notice \ {job.notice} : mailed'[k] = mailed[k]
  BY <1>1, <1>3, NoticingFacts
<1>5. NotificationsTypes'
  BY <1>1, <1>2, <1>3, <1>4, NoticingFacts DEF NotificationsTypes
<1>6. \A k \in Notice : KeptOf(k)'
  BY <1>1, <1>3, <1>4, NoticingFacts DEF KeptOf
<1>7. ASSUME NEW k \in Notice \ repeated'
      PROVE  RunOf(k)'
  <2>1. RunOf(k) /\ k \notin repeated
    BY <1>1, NoticingFacts
  <2>2. CASE k = job.notice
    <3>1. mailed[k] = 0 /\ queued[k] = 1 /\ \A i \in queue : i.notice = k => i = job
      BY <2>1, <2>2 DEF RunOf
    <3>2. queue' = queue \ {job}
      BY <1>1, <1>7, <2>2
    <3>3. \A i \in queue' : i.notice # k
      BY <3>1, <3>2
    <3>4. mailed'[k] = 1
      BY <1>4, <2>2, <3>1
    <3> QED BY <1>1, <2>1, <3>1, <3>3, <3>4 DEF RunOf
  <2>3. CASE k # job.notice
    <3>1. (\A j \in queue' : j.notice = k => j \in queue) /\ mailed'[k] = mailed[k]
      BY <1>3, <1>4, <2>3
    <3> QED BY <1>1, <2>1, <3>1 DEF RunOf
  <2> QED BY <2>2, <2>3
<1> QED BY <1>2, <1>5, <1>6, <1>7 DEF Noticing

LEMMA SenderHaltStep ==
    ASSUME Noticing, NEW p \in Proc, SenderHalt(p)
    PROVE  Noticing'
<1>1. /\ repeated' = IF sender[p].pc = "save" THEN repeated \cup {sender[p].notice} ELSE repeated
      /\ sender' = [sender EXCEPT ![p] = NoSending]
      /\ UNCHANGED <<notice, known, due, queue, queued, mailed, told, gone>>
  BY DEF SenderHalt, SenderEnd
<1>2. sender[p].pc = "save" => sender[p].notice \in known
  BY NoticingFacts DEF SendingOf
<1>3. /\ sender' \in [Proc -> Sending]
      /\ \A q \in Proc : sender'[q] = IF q = p THEN NoSending ELSE sender[q]
      /\ \A q \in Proc : SendingOf(sender[q])'
  <2>1. known \subseteq known' /\ queued' \in [Notice -> Nat] /\ \A k \in Notice : queued'[k] >= queued[k]
    BY <1>1, NoticingFacts
  <2> QED BY <1>1, <2>1, NoSendingType, IdleSending, SenderMoves
<1>4. \A q \in Proc, k \in Notice : /\ Sends(sender'[q], k) => q # p /\ Sends(sender[q], k) /\ sender'[q].own = sender[q].own
                                    /\ Holds(sender'[q], k) => Holds(sender[q], k)
                                    /\ q # p /\ Sends(sender[q], k) => Sends(sender'[q], k)
  BY <1>3, NoSendingType
<1>5. NotificationsTypes'
  BY <1>1, <1>2, <1>3, NoticingFacts DEF NotificationsTypes
<1>6. ASSUME NEW k \in Notice
      PROVE  KeptOf(k)'
  <2>1. queued[k] \in Nat /\ queued[k] >= queued[k] /\ KeptOf(k)
    BY NoticingFacts
  <2> QED BY <1>1, <1>4, <2>1, KeptSame DEF KeptOf
<1>7. ASSUME NEW k \in Notice \ repeated'
      PROVE  RunOf(k)'
  <2>1. k \in Notice \ repeated /\ RunOf(k)
    BY <1>1, NoticingFacts
  <2>2. \A q \in Proc : \A x \in sender'[q].batch : x[1] = k => \E y \in sender[q].batch : y[1] = k
    BY <1>3, NoSendingType
  <2>3. Sends(sender[p], k) => queued[k] = 0
    BY <1>1, <1>7, <2>1 DEF Sends, RunOf
  <2> QED BY <1>1, <1>4, <2>1, <2>2, <2>3, RunSame
<1> QED BY <1>3, <1>5, <1>6, <1>7 DEF Noticing

LEMMA NoticingStep ==
    ASSUME Noticing, NotificationsNext
    PROVE  Noticing'
BY SendStep, ScheduleStep, SendBulkStep, BecomesDueStep, ScheduledFindStep, DispatchStep, NoticeSaveStep, ReadFindStep,
   ReadSaveStep, ReadAllStep, DeleteStep, MailFailStep, MailSendStep, SenderHaltStep
   DEF NotificationsNext, SenderServe, SenderContinue

LEMMA NoticingStands == Noticing => NotificationsStand
BY NoticingFacts DEF NotificationsStand, RunOf, KeptOf

(***************************************************************************)
(* Folds                                                                   *)
(***************************************************************************)
\* Induction on the subsets of a finite set: a set of them has all of them if it has each
\* of which it has every part with one element less.
LEMMA SubsetInduction ==
    ASSUME NEW S, IsFiniteSet(S), NEW T,
           \A s \in SUBSET S : (\A x \in s : s \ {x} \in T) => s \in T
    PROVE  SUBSET S \subseteq T
<1> DEFINE Bad == (SUBSET S) \ T
           Less == StrictSubsetOrdering(S)
<1>1. SUFFICES ASSUME Bad # {} PROVE FALSE
  OBVIOUS
<1>2. IsWellFoundedOn(Less, SUBSET S)
  BY FS_StrictSubsetOrderingWellFounded, FS_FiniteSubsetsOfFinite
<1>3. PICK s \in Bad : \A u \in Bad : <<u, s>> \notin Less
  <2> HIDE DEF Less
  <2>1. Bad \subseteq SUBSET S
    OBVIOUS
  <2> HIDE DEF Bad
  <2> QED BY <1>1, <1>2, <2>1, WFMin
<1>4. \A x \in s : s \ {x} \in T
  <2> SUFFICES ASSUME NEW x \in s, s \ {x} \notin T PROVE FALSE
    OBVIOUS
  <2>1. s \ {x} \in Bad
    BY <1>3
  <2>2. <<s \ {x}, s>> \in Less
    BY <1>3 DEF StrictSubsetOrdering
  <2> QED BY <2>1, <2>2, <1>3
<1> QED BY <1>3, <1>4

\* What a fold over S is, by the element picked of each subset, and the value it comes to
\* with the value of the rest.
Folds(g, S, V, b, pick, H) ==
    /\ g \in [SUBSET S -> V]
    /\ \A s \in SUBSET S : g[s] = IF s = {} THEN b ELSE H[<<pick[s], g[s \ {pick[s]}]>>]

Picks(pick, S) == \A s \in SUBSET S : s # {} => pick[s] \in s

\* Two folds agree on what they both fold, ...
LEMMA FoldsAgree ==
    ASSUME NEW V, NEW b, NEW pick, NEW H, NEW A, NEW B, NEW g, NEW h, NEW S, IsFiniteSet(S),
           Folds(g, A, V, b, pick, H), Folds(h, B, V, b, pick, H), S \subseteq A, S \subseteq B, Picks(pick, S)
    PROVE  \A s \in SUBSET S : g[s] = h[s]
<1> DEFINE T == {s \in SUBSET S : g[s] = h[s]}
<1>1. ASSUME NEW s \in SUBSET S, \A x \in s : s \ {x} \in T
      PROVE  s \in T
  <2>1. s \in SUBSET A /\ s \in SUBSET B
    OBVIOUS
  <2>2. s # {} => g[s \ {pick[s]}] = h[s \ {pick[s]}]
    BY <1>1 DEF Picks
  <2> QED BY <2>1, <2>2 DEF Folds
<1> HIDE DEF T
<1>2. SUBSET S \subseteq T
  BY <1>1, SubsetInduction
<1> QED BY <1>2 DEF T

\* ... and there is one.
LEMMA FoldExists ==
    ASSUME NEW S, IsFiniteSet(S), NEW V, NEW b \in V, NEW pick, Picks(pick, S), NEW H \in [S \X V -> V]
    PROVE  \E g : Folds(g, S, V, b, pick, H)
<1> DEFINE T == {s \in SUBSET S : \E g : Folds(g, s, V, b, pick, H)}
<1>1. ASSUME NEW s \in SUBSET S, \A x \in s : s \ {x} \in T
      PROVE  s \in T
  <2> DEFINE folded == [x \in s |-> CHOOSE g : Folds(g, s \ {x}, V, b, pick, H)]
             value(u) == IF u = {} THEN b ELSE H[<<pick[u], folded[pick[u]][u \ {pick[u]}]>>]
             g == [u \in SUBSET s |-> value(u)]
  <2>1. \A x \in s : Folds(folded[x], s \ {x}, V, b, pick, H)
    BY <1>1
  <2>2. \A u \in SUBSET s : u # {} => pick[u] \in u
    BY DEF Picks
  <2> HIDE DEF folded
  <2>3. ASSUME NEW x \in s, NEW w \in SUBSET (s \ {x})
        PROVE  folded[x][w] = value(w) /\ folded[x][w] \in V
    <3>1. folded[x][w] = (IF w = {} THEN b ELSE H[<<pick[w], folded[x][w \ {pick[w]}]>>]) /\ folded[x][w] \in V
      BY <2>1, ZenonT(60) DEF Folds
    <3>2. ASSUME w # {}
          PROVE  folded[x][w \ {pick[w]}] = folded[pick[w]][w \ {pick[w]}]
      <4>1. PICK y : y = pick[w]
        OBVIOUS
      <4>2. y \in w /\ y \in s
        BY <4>1, <3>2, <2>2
      <4>3. w \ {y} \subseteq s \ {x} /\ w \ {y} \subseteq s \ {y}
        OBVIOUS
      <4>4. IsFiniteSet(w \ {y}) /\ Picks(pick, w \ {y})
        BY FS_Subset DEF Picks
      <4>5. Folds(folded[x], s \ {x}, V, b, pick, H) /\ Folds(folded[y], s \ {y}, V, b, pick, H)
        BY <2>1, <4>2
      <4>6. \A u \in SUBSET (w \ {y}) : folded[x][u] = folded[y][u]
        BY <4>3, <4>4, <4>5, FoldsAgree
      <4> QED BY <4>1, <4>6
    <3> QED BY <3>1, <3>2
  <2>4. \A u \in SUBSET s : value(u) \in V
    <3> SUFFICES ASSUME NEW u \in SUBSET s, u # {} PROVE value(u) \in V
      OBVIOUS
    <3>1. pick[u] \in S /\ pick[u] \in s
      BY <2>2
    <3>2. folded[pick[u]][u \ {pick[u]}] \in V
      BY <2>3, <3>1
    <3> QED BY <3>1, <3>2
  <2>5. ASSUME NEW u \in SUBSET s
        PROVE  g[u] = IF u = {} THEN b ELSE H[<<pick[u], g[u \ {pick[u]}]>>]
    <3>1. u # {} => folded[pick[u]][u \ {pick[u]}] = value(u \ {pick[u]})
      BY <2>2, <2>3
    <3>2. u \ {pick[u]} \in SUBSET s
      OBVIOUS
    <3> HIDE DEF value
    <3>3. g[u] = value(u) /\ g[u \ {pick[u]}] = value(u \ {pick[u]})
      BY <3>2
    <3> QED BY <3>1, <3>3 DEF value
  <2>6. Folds(g, s, V, b, pick, H)
    <3> HIDE DEF value
    <3>1. g \in [SUBSET s -> V]
      BY <2>4
    <3> HIDE DEF g
    <3> QED BY <3>1, <2>5 DEF Folds
  <2> QED BY <2>6
<1> HIDE DEF T
<1>2. SUBSET S \subseteq T
  BY <1>1, SubsetInduction
<1> QED BY <1>2 DEF T

\* Whatever satisfies the equation where its value for the rest is one of V is a fold.
LEMMA FoldIs ==
    ASSUME NEW S, IsFiniteSet(S), NEW V, NEW b \in V, NEW pick, Picks(pick, S), NEW H \in [S \X V -> V],
           NEW h, h = [s \in SUBSET S |-> h[s]], h[{}] = b,
           \A s \in SUBSET S : s # {} /\ h[s \ {pick[s]}] \in V => h[s] = H[<<pick[s], h[s \ {pick[s]}]>>]
    PROVE  Folds(h, S, V, b, pick, H)
<1> DEFINE T == {s \in SUBSET S : h[s] \in V}
<1>1. ASSUME NEW s \in SUBSET S, \A x \in s : s \ {x} \in T
      PROVE  s \in T
  <2>1. CASE s = {}
    BY <2>1
  <2>2. CASE s # {}
    <3>1. pick[s] \in s /\ pick[s] \in S
      BY <2>2 DEF Picks
    <3>2. h[s \ {pick[s]}] \in V
      BY <1>1, <3>1
    <3> QED BY <2>2, <3>1, <3>2
  <2> QED BY <2>1, <2>2
<1> HIDE DEF T
<1>2. SUBSET S \subseteq T
  BY <1>1, SubsetInduction
<1>3. \A s \in SUBSET S : h[s] \in V
  BY <1>2 DEF T
<1>4. \A s \in SUBSET S : s # {} => s \ {pick[s]} \in SUBSET S
  OBVIOUS
<1>5. \A s \in SUBSET S : h[s] = IF s = {} THEN b ELSE H[<<pick[s], h[s \ {pick[s]}]>>]
  BY <1>3, <1>4
<1> QED BY <1>3, <1>5 DEF Folds

\* What a fold over S has come to, once it is past an element that leads into W, and W is kept.
LEMMA FoldLeads ==
    ASSUME NEW S, IsFiniteSet(S), NEW V, NEW b, NEW pick, Picks(pick, S), NEW H, NEW g, Folds(g, S, V, b, pick, H),
           NEW W, \A x \in S : \A d \in W : H[<<x, d>>] \in W,
           NEW i \in S, \A d \in V : H[<<i, d>>] \in W
    PROVE  g[S] \in W
<1> DEFINE T == {s \in SUBSET S : i \in s => g[s] \in W}
<1>1. ASSUME NEW s \in SUBSET S, \A x \in s : s \ {x} \in T
      PROVE  s \in T
  <2> SUFFICES ASSUME i \in s PROVE g[s] \in W
    OBVIOUS
  <2>1. PICK x : x = pick[s]
    OBVIOUS
  <2>2. x \in s /\ x \in S /\ s \ {x} \in SUBSET S
    BY <2>1 DEF Picks
  <2>3. g[s] = H[<<x, g[s \ {x}]>>] /\ g[s \ {x}] \in V
    BY <2>1, <2>2 DEF Folds
  <2>4. CASE x = i
    BY <2>3, <2>4
  <2>5. CASE x # i
    <3>1. g[s \ {x}] \in W
      BY <1>1, <2>2, <2>5
    <3> QED BY <2>2, <2>3, <3>1
  <2> QED BY <2>4, <2>5
<1> HIDE DEF T
<1>2. SUBSET S \subseteq T
  BY <1>1, SubsetInduction
<1> QED BY <1>2 DEF T

\* The greatest element of a set of indices is one of them.
LEMMA MaxPicks ==
    ASSUME NEW S, IsFiniteSet(S), S \subseteq Nat, NEW s \in SUBSET S, s # {}
    PROVE  Max(s) \in s
<1> DEFINE T == {u \in SUBSET S : u # {} => \E x \in u : \A y \in u : x >= y}
<1>1. ASSUME NEW u \in SUBSET S, \A x \in u : u \ {x} \in T
      PROVE  u \in T
  <2> SUFFICES ASSUME NEW x \in u PROVE \E z \in u : \A y \in u : z >= y
    OBVIOUS
  <2>1. CASE u \ {x} = {}
    <3>1. \A y \in u : x >= y
      BY <2>1
    <3> QED BY <3>1
  <2>2. CASE u \ {x} # {}
    <3>1. PICK z \in u \ {x} : \A y \in u \ {x} : z >= y
      BY <1>1, <2>2
    <3>2. CASE x >= z
      <4>1. \A y \in u : x >= y
        BY <3>1, <3>2
      <4> QED BY <4>1
    <3>3. CASE ~(x >= z)
      <4>1. \A y \in u : z >= y
        BY <3>1, <3>3
      <4> QED BY <4>1
    <3> QED BY <3>2, <3>3
  <2> QED BY <2>1, <2>2
<1> HIDE DEF T
<1>2. SUBSET S \subseteq T
  BY <1>1, SubsetInduction
<1>3. \E x \in s : \A y \in s : x >= y
  BY <1>2 DEF T
<1> QED BY <1>3 DEF Max

\* The fold over a sequence picks the last of the indices.
LEMMA IndexPicks ==
    ASSUME NEW E, NEW seq \in Seq(E)
    PROVE  IsFiniteSet(DOMAIN seq) /\ Picks([s \in SUBSET DOMAIN seq |-> Max(s)], DOMAIN seq)
<1>1. PICK S : S = DOMAIN seq
  OBVIOUS
<1>2. S = 1..Len(seq) /\ Len(seq) \in Nat
  BY <1>1
<1>3. IsFiniteSet(S) /\ S \subseteq Nat
  BY <1>2, FS_Interval
<1>4. \A s \in SUBSET S : s # {} => Max(s) \in s
  BY <1>3, MaxPicks
<1> QED BY <1>1, <1>3, <1>4 DEF Picks

(***************************************************************************)
(* The catalogue                                                           *)
(***************************************************************************)
HasVideo(row) == row.video # Null => resource[row.video] # Null
Given == [id : Lesson, durationMinutes : {Null} \cup Nat, video : {Null} \cup Resource]
\* What findCourseById() has loaded.
Loaded(found) ==
    /\ found \in [module : Modules, lesson : Lessons]
    /\ \A l \in Lesson : found.lesson[l] # Null => HasVideo(found.lesson[l])
PlanSteps == {"planLessons", "planCourse", "planSave", "planCommit"}
AuthoringOf(r) ==
    /\ r.pc \in PlanSteps \cup {"courseSave", "planApply", "courseRemove", "moduleInsert", "statsLessons", "statsCourse", "statsSave"}
          => r.course \in Course
    /\ r.course # Null => r.course \in taken
    /\ r.pc \in {"courseSave", "planApply"} => r.row \in CourseRow
    /\ r.pc = "planApply" => Loaded(r.found) /\ r.plan \in {Null, <<>>} \cup Plan
    /\ r.pc \in PlanSteps => r.found \in [module : Modules, lesson : Lessons]
    /\ r.pc \notin PlanSteps => r.own = NoRows
    /\ r.pc = "planCommit" => ~r.own.course
    /\ r.pc \in {"moduleSave", "moduleRemove", "statsModule", "lessonInsert", "lessonRemove"} => r.module \in Module
    /\ r.pc = "moduleSave" => r.row \in Course
    /\ r.pc \in {"moduleSave"} => r.module \in taken
    /\ r.pc \in {"lessonInsert", "lessonSave"} => r.row \in LessonRow /\ HasVideo(r.row)
    /\ r.pc = "lessonInsert" => r.row.moduleId = r.module
    /\ r.pc \in {"lessonSave", "lessonRemove"} => r.lesson \in Lesson
    /\ r.pc = "lessonSave" => r.lesson \in taken /\ (r.refresh => r.module \in Module)
    /\ r.pc \in {"resourceSave", "linkedFind"} => r.video \in Resource /\ r.row \in ResourceRow
    /\ IsFiniteSet(r.read)
Stocked ==
    /\ CatalogTypes
    /\ \A p \in Proc : AuthoringOf(author[p])
    /\ \A c \in Course : course[c] # Null => c \in taken
    /\ \A m \in Module : module[m] # Null => m \in taken
    /\ \A l \in Lesson : lesson[l] # Null => l \in taken /\ HasVideo(lesson[l])
    /\ StatsMatch

\* The numbers of a course are numbers.
LEMMA StatsType ==
    ASSUME NEW S, IsFiniteSet(S), \A x \in S : x[2] \in Nat
    PROVE  /\ Stats(S) \in CourseRow
           /\ S = {} => Stats(S) = [lessonCount |-> 0, totalDurationMinutes |-> 0]
           /\ \A x : S = {x} => Stats(S) = [lessonCount |-> 1, totalDurationMinutes |-> x[2]]
<1> DEFINE pick == [s \in SUBSET S |-> CHOOSE x \in s : TRUE]
           H == [y \in S \X Nat |-> y[1][2] + y[2]]
           Is(h) == h = [s \in SUBSET S |-> IF s = {} THEN 0 ELSE (CHOOSE x \in s : TRUE)[2] + h[s \ {CHOOSE x \in s : TRUE}]]
<1>1. Picks(pick, S)
  BY DEF Picks
<1>2. H \in [S \X Nat -> Nat]
  OBVIOUS
<1>3. PICK g : Folds(g, S, Nat, 0, pick, H)
  <2> HIDE DEF pick, H
  <2> QED BY <1>1, <1>2, FoldExists
<1>4. Is(g)
  <2>1. ASSUME NEW s \in SUBSET S, s # {}
        PROVE  g[s] = (CHOOSE x \in s : TRUE)[2] + g[s \ {CHOOSE x \in s : TRUE}]
    <3>1. PICK x : x = CHOOSE y \in s : TRUE
      OBVIOUS
    <3>2. x \in s /\ pick[s] = x
      BY <3>1, <2>1
    <3>3. g[s \ {x}] \in Nat /\ g[s] = H[<<x, g[s \ {x}]>>]
      <4> HIDE DEF pick, H
      <4> QED BY <1>3, <2>1, <3>2 DEF Folds
    <3> QED BY <3>1, <3>2, <3>3
  <2>2. g[{}] = 0 /\ g = [s \in SUBSET S |-> g[s]]
    <3> HIDE DEF pick, H
    <3> QED BY <1>3 DEF Folds
  <2> QED BY <2>1, <2>2
<1>5. PICK h : h = CHOOSE f : Is(f)
  OBVIOUS
<1>6. Is(h)
  <2> HIDE DEF Is
  <2> QED BY <1>4, <1>5
<1>7. Stats(S) = [lessonCount |-> Cardinality(S), totalDurationMinutes |-> h[S]]
  BY <1>5 DEF Stats, MapThenSumSet, MapThenFoldSet
<1>8. Folds(h, S, Nat, 0, pick, H)
  <2>1. h = [s \in SUBSET S |-> h[s]] /\ h[{}] = 0
    BY <1>6
  <2>2. ASSUME NEW s \in SUBSET S, s # {}, h[s \ {pick[s]}] \in Nat
        PROVE  h[s] = H[<<pick[s], h[s \ {pick[s]}]>>]
    <3>1. pick[s] \in S /\ pick[s] = CHOOSE x \in s : TRUE
      BY <2>2
    <3>2. h[s] = pick[s][2] + h[s \ {pick[s]}]
      BY <1>6, <3>1, <2>2
    <3> QED BY <3>1, <3>2, <2>2
  <2> HIDE DEF pick, H, Is
  <2>3. \A s \in SUBSET S : s # {} /\ h[s \ {pick[s]}] \in Nat => h[s] = H[<<pick[s], h[s \ {pick[s]}]>>]
    BY <2>2
  <2>4. 0 \in Nat
    OBVIOUS
  <2> QED BY <1>1, <1>2, <2>1, <2>3, <2>4, FoldIs
<1>9. h[S] \in Nat /\ (S = {} => h[S] = 0)
  <2> HIDE DEF pick, H
  <2> QED BY <1>8 DEF Folds
<1>10. ASSUME NEW x, S = {x}
       PROVE  h[S] = x[2]
  <2>1. PICK y : y = CHOOSE z \in S : TRUE
    OBVIOUS
  <2>2. y = x
    BY <2>1, <1>10
  <2>3. S # {} /\ S \ {y} = {} /\ x[2] \in Nat
    BY <2>2, <1>10
  <2>4. h[S] = y[2] + h[S \ {y}] /\ h[{}] = 0
    BY <1>6, <2>1, <2>3
  <2> QED BY <2>2, <2>3, <2>4
<1>11. Cardinality(S) \in Nat /\ (S = {} => Cardinality(S) = 0) /\ \A x : S = {x} => Cardinality(S) = 1
  BY FS_CardinalityType, FS_EmptySet, FS_Singleton
<1> HIDE DEF Is
<1>12. \A x : S = {x} => Stats(S) = [lessonCount |-> 1, totalDurationMinutes |-> x[2]]
  BY <1>7, <1>10, <1>11
<1> QED BY <1>7, <1>9, <1>11, <1>12 DEF CourseRow

\* A set that has each state in which the lessons of a section are saved, one after the
\* other, has the last; and so has one that each of them leads into.
LEMMA LessonsFold ==
    ASSUME NEW db, NEW c, NEW found, NEW replace, NEW section, NEW m, m = section.id,
           NEW E, NEW seq \in Seq(E), seq = section.lessons,
           NEW V, NEW b \in V, b = SectionKept(db, c, found, replace, section),
           \A i \in DOMAIN seq : \A d \in V : LessonSaved(d, found, m, seq[i]) \in V
    PROVE  /\ SectionSaved(db, c, found, replace, section) \in V
           /\ \A W \in SUBSET V :
                 seq # <<>> /\ (\A i \in DOMAIN seq : \A d \in V : LessonSaved(d, found, m, seq[i]) \in W)
                    => SectionSaved(db, c, found, replace, section) \in W
<1> DEFINE S == DOMAIN seq
           pick == [s \in SUBSET S |-> Max(s)]
           H == [y \in S \X V |-> LessonSaved(y[2], found, m, seq[y[1]])]
           Is(h) == h = [s \in SUBSET S |-> IF s = {} THEN b ELSE LessonSaved(h[s \ {Max(s)}], found, m, seq[Max(s)])]
<1>1. IsFiniteSet(S) /\ Picks(pick, S)
  BY IndexPicks
<1>2. H \in [S \X V -> V]
  OBVIOUS
<1>3. PICK g : Folds(g, S, V, b, pick, H)
  <2> HIDE DEF S, pick, H
  <2> QED BY <1>1, <1>2, FoldExists
<1>4. Is(g)
  <2>1. ASSUME NEW s \in SUBSET S, s # {}
        PROVE  g[s] = LessonSaved(g[s \ {Max(s)}], found, m, seq[Max(s)])
    <3>1. PICK x : x = Max(s)
      OBVIOUS
    <3>2. x \in s /\ pick[s] = x
      BY <1>1, <3>1, <2>1 DEF Picks
    <3>3. g[s \ {x}] \in V /\ g[s] = H[<<x, g[s \ {x}]>>]
      <4> HIDE DEF S, pick, H
      <4> QED BY <1>3, <2>1, <3>2 DEF Folds
    <3>4. g[s] = LessonSaved(g[s \ {x}], found, m, seq[x])
      BY <3>2, <3>3
    <3> QED BY <3>1, <3>4
  <2>2. g[{}] = b /\ g = [s \in SUBSET S |-> g[s]]
    <3> HIDE DEF S, pick, H
    <3> QED BY <1>3 DEF Folds
  <2> QED BY <2>1, <2>2
<1>5. PICK h : h = CHOOSE f : Is(f)
  OBVIOUS
<1>6. Is(h)
  <2> HIDE DEF Is
  <2> QED BY <1>4, <1>5
<1>7. SectionSaved(db, c, found, replace, section) = h[S]
  BY <1>5 DEF SectionSaved, FoldLeft, MapThenFoldSet
<1>8. Folds(h, S, V, b, pick, H)
  <2>1. h = [s \in SUBSET S |-> h[s]] /\ h[{}] = b
    BY <1>6
  <2>2. ASSUME NEW s \in SUBSET S, s # {}, h[s \ {pick[s]}] \in V
        PROVE  h[s] = H[<<pick[s], h[s \ {pick[s]}]>>]
    <3>1. PICK x : x = Max(s)
      OBVIOUS
    <3>2. x \in S /\ pick[s] = x
      BY <1>1, <2>2, <3>1 DEF Picks
    <3>3. h[s] = LessonSaved(h[s \ {x}], found, m, seq[x])
      BY <1>6, <2>2, <3>1
    <3> QED BY <2>2, <3>2, <3>3
  <2> HIDE DEF S, pick, H, Is
  <2>3. \A s \in SUBSET S : s # {} /\ h[s \ {pick[s]}] \in V => h[s] = H[<<pick[s], h[s \ {pick[s]}]>>]
    BY <2>2
  <2> QED BY <1>1, <1>2, <2>1, <2>3, FoldIs
<1>9. h[S] \in V
  <2> HIDE DEF S, pick, H, Is
  <2> QED BY <1>8 DEF Folds
<1>10. ASSUME NEW W \in SUBSET V, seq # <<>>, \A i \in DOMAIN seq : \A d \in V : LessonSaved(d, found, m, seq[i]) \in W
       PROVE  h[S] \in W
  <2>1. PICK i : i \in S
    BY <1>10
  <2>2. (\A x \in S : \A d \in W : H[<<x, d>>] \in W) /\ (\A d \in V : H[<<i, d>>] \in W)
    BY <1>10, <2>1
  <2> HIDE DEF S, pick, H, Is
  <2> QED BY <1>1, <1>8, <2>1, <2>2, FoldLeads
<1> QED BY <1>7, <1>9, <1>10

\* The same of the sections of a plan; one of them that leads into a set the others keep is enough.
LEMMA SectionsFold ==
    ASSUME NEW b, NEW c, NEW found, NEW replace, NEW E, NEW plan \in Seq(E), NEW V, b \in V,
           \A i \in DOMAIN plan : \A d \in V : SectionSaved(d, c, found, replace, plan[i]) \in V
    PROVE  /\ SectionsSaved(b, c, found, replace, plan) \in V
           /\ \A W \in SUBSET V : \A i \in DOMAIN plan :
                 /\ \A k \in DOMAIN plan : \A d \in W : SectionSaved(d, c, found, replace, plan[k]) \in W
                 /\ \A d \in V : SectionSaved(d, c, found, replace, plan[i]) \in W
                 => SectionsSaved(b, c, found, replace, plan) \in W
<1> DEFINE S == DOMAIN plan
           pick == [s \in SUBSET S |-> Max(s)]
           H == [y \in S \X V |-> SectionSaved(y[2], c, found, replace, plan[y[1]])]
           Is(h) == h = [s \in SUBSET S |-> IF s = {} THEN b ELSE SectionSaved(h[s \ {Max(s)}], c, found, replace, plan[Max(s)])]
<1>1. IsFiniteSet(S) /\ Picks(pick, S)
  BY IndexPicks
<1>2. H \in [S \X V -> V]
  OBVIOUS
<1>3. PICK g : Folds(g, S, V, b, pick, H)
  <2> HIDE DEF S, pick, H
  <2> QED BY <1>1, <1>2, FoldExists
<1>4. Is(g)
  <2>1. ASSUME NEW s \in SUBSET S, s # {}
        PROVE  g[s] = SectionSaved(g[s \ {Max(s)}], c, found, replace, plan[Max(s)])
    <3>1. PICK x : x = Max(s)
      OBVIOUS
    <3>2. x \in s /\ pick[s] = x
      BY <1>1, <3>1, <2>1 DEF Picks
    <3>3. g[s \ {x}] \in V /\ g[s] = H[<<x, g[s \ {x}]>>]
      <4> HIDE DEF S, pick, H
      <4> QED BY <1>3, <2>1, <3>2 DEF Folds
    <3>4. g[s] = SectionSaved(g[s \ {x}], c, found, replace, plan[x])
      BY <3>2, <3>3
    <3> QED BY <3>1, <3>4
  <2>2. g[{}] = b /\ g = [s \in SUBSET S |-> g[s]]
    <3> HIDE DEF S, pick, H
    <3> QED BY <1>3 DEF Folds
  <2> QED BY <2>1, <2>2
<1>5. PICK h : h = CHOOSE f : Is(f)
  OBVIOUS
<1>6. Is(h)
  <2> HIDE DEF Is
  <2> QED BY <1>4, <1>5
<1>7. SectionsSaved(b, c, found, replace, plan) = h[S]
  BY <1>5 DEF SectionsSaved, FoldLeft, MapThenFoldSet
<1>8. Folds(h, S, V, b, pick, H)
  <2>1. h = [s \in SUBSET S |-> h[s]] /\ h[{}] = b
    BY <1>6
  <2>2. ASSUME NEW s \in SUBSET S, s # {}, h[s \ {pick[s]}] \in V
        PROVE  h[s] = H[<<pick[s], h[s \ {pick[s]}]>>]
    <3>1. PICK x : x = Max(s)
      OBVIOUS
    <3>2. x \in S /\ pick[s] = x
      BY <1>1, <2>2, <3>1 DEF Picks
    <3>3. h[s] = SectionSaved(h[s \ {x}], c, found, replace, plan[x])
      BY <1>6, <2>2, <3>1
    <3> QED BY <2>2, <3>2, <3>3
  <2> HIDE DEF S, pick, H, Is
  <2>3. \A s \in SUBSET S : s # {} /\ h[s \ {pick[s]}] \in V => h[s] = H[<<pick[s], h[s \ {pick[s]}]>>]
    BY <2>2
  <2> QED BY <1>1, <1>2, <2>1, <2>3, FoldIs
<1>9. h[S] \in V
  <2> HIDE DEF S, pick, H, Is
  <2> QED BY <1>8 DEF Folds
<1>10. ASSUME NEW W \in SUBSET V, NEW i \in DOMAIN plan,
              \A k \in DOMAIN plan : \A d \in W : SectionSaved(d, c, found, replace, plan[k]) \in W,
              \A d \in V : SectionSaved(d, c, found, replace, plan[i]) \in W
       PROVE  h[S] \in W
  <2>1. (\A x \in S : \A d \in W : H[<<x, d>>] \in W) /\ (\A d \in V : H[<<i, d>>] \in W) /\ i \in S
    BY <1>10
  <2> HIDE DEF S, pick, H, Is
  <2> QED BY <1>1, <1>8, <2>1, FoldLeads
<1> QED BY <1>7, <1>9, <1>10

\* How many lessons a plan has is a number, and none if no section has any.
LEMMA GivenFold ==
    ASSUME NEW E, NEW plan \in Seq(E), \A i \in DOMAIN plan : Len(plan[i].lessons) \in Nat
    PROVE  /\ LessonsGiven(plan) \in Nat
           /\ (\A i \in DOMAIN plan : Len(plan[i].lessons) = 0) => LessonsGiven(plan) = 0
<1>1. ASSUME NEW V \in {Nat, {0}}, \A i \in DOMAIN plan : \A n \in V : n + Len(plan[i].lessons) \in V
      PROVE  LessonsGiven(plan) \in V
  <2> DEFINE S == DOMAIN plan
             pick == [s \in SUBSET S |-> Max(s)]
             H == [y \in S \X V |-> y[2] + Len(plan[y[1]].lessons)]
             Is(h) == h = [s \in SUBSET S |-> IF s = {} THEN 0 ELSE h[s \ {Max(s)}] + Len(plan[Max(s)].lessons)]
  <2>1. IsFiniteSet(S) /\ Picks(pick, S)
    BY IndexPicks
  <2>2. H \in [S \X V -> V]
    BY <1>1
  <2>3. PICK g : Folds(g, S, V, 0, pick, H)
    <3> HIDE DEF S, pick, H
    <3> QED BY <2>1, <2>2, FoldExists
  <2>4. Is(g)
    <3>1. ASSUME NEW s \in SUBSET S, s # {}
          PROVE  g[s] = g[s \ {Max(s)}] + Len(plan[Max(s)].lessons)
      <4>1. PICK x : x = Max(s)
        OBVIOUS
      <4>2. x \in s /\ pick[s] = x
        BY <2>1, <4>1, <3>1 DEF Picks
      <4>3. g[s \ {x}] \in V /\ g[s] = H[<<x, g[s \ {x}]>>]
        <5> HIDE DEF S, pick, H
        <5> QED BY <2>3, <3>1, <4>2 DEF Folds
      <4>4. g[s] = g[s \ {x}] + Len(plan[x].lessons)
        BY <4>2, <4>3
      <4> QED BY <4>1, <4>4
    <3>2. g[{}] = 0 /\ g = [s \in SUBSET S |-> g[s]]
      <4> HIDE DEF S, pick, H
      <4> QED BY <2>3 DEF Folds
    <3> QED BY <3>1, <3>2
  <2>5. PICK h : h = CHOOSE f : Is(f)
    OBVIOUS
  <2>6. Is(h)
    <3> HIDE DEF Is
    <3> QED BY <2>4, <2>5
  <2>7. LessonsGiven(plan) = h[S]
    BY <2>5 DEF LessonsGiven, FoldLeft, MapThenFoldSet
  <2>8. Folds(h, S, V, 0, pick, H)
    <3>1. h = [s \in SUBSET S |-> h[s]] /\ h[{}] = 0
      BY <2>6
    <3>2. ASSUME NEW s \in SUBSET S, s # {}, h[s \ {pick[s]}] \in V
          PROVE  h[s] = H[<<pick[s], h[s \ {pick[s]}]>>]
      <4>1. PICK x : x = Max(s)
        OBVIOUS
      <4>2. x \in S /\ pick[s] = x
        BY <2>1, <3>2, <4>1 DEF Picks
      <4>3. h[s] = h[s \ {x}] + Len(plan[x].lessons)
        BY <2>6, <3>2, <4>1
      <4> QED BY <3>2, <4>2, <4>3
    <3> HIDE DEF S, pick, H, Is
    <3>3. \A s \in SUBSET S : s # {} /\ h[s \ {pick[s]}] \in V => h[s] = H[<<pick[s], h[s \ {pick[s]}]>>]
      BY <3>2
    <3>4. 0 \in V
      BY <1>1
    <3> QED BY <2>1, <2>2, <3>1, <3>3, <3>4, FoldIs
  <2>9. h[S] \in V
    <3> HIDE DEF S, pick, H, Is
    <3> QED BY <2>8 DEF Folds
  <2> QED BY <2>7, <2>9
<1>2. LessonsGiven(plan) \in Nat
  <2>1. PICK V \in {Nat, {0}} : V = Nat
    OBVIOUS
  <2>2. \A i \in DOMAIN plan : \A n \in V : n + Len(plan[i].lessons) \in V
    BY <2>1
  <2> QED BY <1>1, <2>1, <2>2
<1>3. ASSUME \A i \in DOMAIN plan : Len(plan[i].lessons) = 0
      PROVE  LessonsGiven(plan) = 0
  <2>1. PICK V \in {Nat, {0}} : V = {0}
    OBVIOUS
  <2>2. \A i \in DOMAIN plan : \A n \in V : n + Len(plan[i].lessons) \in V
    BY <1>3, <2>1
  <2>3. LessonsGiven(plan) \in V
    BY <1>1, <2>2
  <2> QED BY <2>1, <2>3
<1> QED BY <1>2, <1>3

Section == [id : Module, lessons : Seq(Given)]
\* The modules and lessons a transaction may have while it saves the curriculum of c.
Curriculum(c, ids) ==
    {db \in [module : Modules, lesson : Lessons, ok : BOOLEAN] :
        /\ \A m \in Module : db.module[m] # Null => m \in ids /\ (db.module[m] = c \/ course[db.module[m]] # Null)
        /\ \A l \in Lesson : db.lesson[l] # Null =>
              l \in ids /\ db.module[db.lesson[l].moduleId] # Null /\ HasVideo(db.lesson[l])}
Teaches(db, c) == \E l \in Lesson : db.lesson[l] # Null /\ db.module[db.lesson[l].moduleId] = c

\* A curriculum, by its parts.
LEMMA CurriculumIs ==
    ASSUME NEW c, NEW ids, NEW db,
           db = [module |-> db.module, lesson |-> db.lesson, ok |-> db.ok],
           db.module \in Modules, db.lesson \in Lessons, db.ok \in BOOLEAN,
           \A m \in Module : db.module[m] # Null => m \in ids /\ (db.module[m] = c \/ course[db.module[m]] # Null),
           \A l \in Lesson : db.lesson[l] # Null =>
              l \in ids /\ db.module[db.lesson[l].moduleId] # Null /\ HasVideo(db.lesson[l])
    PROVE  db \in Curriculum(c, ids)
<1>1. db \in [module : Modules, lesson : Lessons, ok : BOOLEAN]
  OBVIOUS
<1> QED BY <1>1 DEF Curriculum

\* The save of a section's module, and the removal of its other lessons.
LEMMA KeptIn ==
    ASSUME NEW c \in Course, NEW ids, NEW db \in Curriculum(c, ids), NEW found, NEW replace \in BOOLEAN,
           NEW section \in Section, section.id \in ids
    PROVE  LET b == SectionKept(db, c, found, replace, section) IN
           /\ b \in Curriculum(c, ids) /\ b.module[section.id] = c
           /\ found = NoContent /\ ~replace /\ Teaches(db, c) => Teaches(b, c)
<1> DEFINE b == SectionKept(db, c, found, replace, section)
<1>1. PICK m \in Module : m = section.id
  BY DEF Section
<1>2. /\ db \in [module : Modules, lesson : Lessons, ok : BOOLEAN]
      /\ \A k \in Module : db.module[k] # Null => k \in ids /\ (db.module[k] = c \/ course[db.module[k]] # Null)
      /\ \A l \in Lesson : db.lesson[l] # Null =>
            l \in ids /\ db.module[db.lesson[l].moduleId] # Null /\ HasVideo(db.lesson[l])
  BY DEF Curriculum
<1>3. PICK saved : saved = ModuleSaved(db, c, found, m)
  OBVIOUS
<1>4. /\ saved.module = [db.module EXCEPT ![m] = c] /\ saved.ok \in BOOLEAN
      /\ \A l \in Lesson : saved.lesson[l] = IF found.module[m] # Null /\ l \in Under(found, m) /\ db.lesson[l] # Null
                                             THEN [db.lesson[l] EXCEPT !.moduleId = m] ELSE db.lesson[l]
  BY <1>2, <1>3 DEF ModuleSaved
<1>5. /\ b = [module |-> b.module, lesson |-> b.lesson, ok |-> b.ok]
      /\ b.module = saved.module /\ b.ok = saved.ok
      /\ b.lesson = [l \in Lesson |-> b.lesson[l]]
      /\ \A l \in Lesson : b.lesson[l] = Null \/ b.lesson[l] = saved.lesson[l]
      /\ found = NoContent /\ ~replace => \A l \in Lesson : b.lesson[l] = saved.lesson[l]
  BY <1>1, <1>3 DEF SectionKept, ModuleSaved
<1> HIDE DEF b
<1>6. b.module \in Modules /\ b.module[m] = c /\ \A k \in Module : b.module[k] = IF k = m THEN c ELSE db.module[k]
  BY <1>2, <1>4, <1>5 DEF Modules
<1>7. c # Null /\ Null \notin LessonRow
  BY CatalogAssumption, CatalogNullAssumption
<1>8. ASSUME NEW l \in Lesson, b.lesson[l] # Null
      PROVE  /\ b.lesson[l] \in LessonRow /\ l \in ids /\ b.module[b.lesson[l].moduleId] # Null
             /\ HasVideo(b.lesson[l])
  <2>1. db.lesson[l] # Null /\ db.lesson[l] \in LessonRow
    BY <1>2, <1>4, <1>5, <1>8 DEF Lessons
  <2>2. db.lesson[l].moduleId \in Module
    BY <2>1 DEF LessonRow
  <2>3. CASE b.lesson[l] = db.lesson[l]
    BY <1>2, <1>6, <1>7, <2>1, <2>2, <2>3
  <2>4. CASE b.lesson[l] = [db.lesson[l] EXCEPT !.moduleId = m]
    <3>1. b.lesson[l] \in LessonRow /\ b.lesson[l].moduleId = m /\ b.lesson[l].video = db.lesson[l].video
      BY <2>1, <2>4 DEF LessonRow
    <3> QED BY <1>2, <1>6, <1>7, <2>1, <3>1 DEF HasVideo
  <2> QED BY <1>4, <1>5, <1>8, <2>3, <2>4
<1>9. b.lesson \in Lessons
  BY <1>5, <1>8 DEF Lessons
<1>10. ASSUME NEW k \in Module, b.module[k] # Null
       PROVE  k \in ids /\ (b.module[k] = c \/ course[b.module[k]] # Null)
  BY <1>1, <1>2, <1>6, <1>10
<1>11. b \in Curriculum(c, ids)
  BY <1>4, <1>5, <1>6, <1>8, <1>9, <1>10, CurriculumIs
<1>12. ASSUME found = NoContent, ~replace, Teaches(db, c)
       PROVE  Teaches(b, c)
  <2>1. PICK l \in Lesson : db.lesson[l] # Null /\ db.module[db.lesson[l].moduleId] = c
    BY <1>12 DEF Teaches
  <2>2. db.lesson[l].moduleId \in Module
    BY <1>2, <2>1 DEF Lessons, LessonRow
  <2>3. b.lesson[l] = db.lesson[l]
    BY <1>4, <1>5, <1>12 DEF NoContent
  <2> QED BY <1>6, <2>1, <2>2, <2>3 DEF Teaches
<1> QED BY <1>1, <1>6, <1>11, <1>12 DEF b

\* The save of a lesson into a module of the course.
LEMMA LessonIn ==
    ASSUME NEW c \in Course, NEW ids, NEW m \in Module, NEW db \in Curriculum(c, ids), db.module[m] = c,
           NEW found, Loaded(found), NEW given \in Given, given.id \in ids
    PROVE  LET d == LessonSaved(db, found, m, given) IN
           d \in Curriculum(c, ids) /\ d.module[m] = c /\ Teaches(d, c)
<1> DEFINE d == LessonSaved(db, found, m, given)
<1>1. PICK l \in Lesson : l = given.id
  BY DEF Given
<1>2. /\ db \in [module : Modules, lesson : Lessons, ok : BOOLEAN]
      /\ \A k \in Module : db.module[k] # Null => k \in ids /\ (db.module[k] = c \/ course[db.module[k]] # Null)
      /\ \A k \in Lesson : db.lesson[k] # Null =>
            k \in ids /\ db.module[db.lesson[k].moduleId] # Null /\ HasVideo(db.lesson[k])
  BY DEF Curriculum
<1>3. PICK old : old = IF l \in Under(found, m) THEN found.lesson[l]
                       ELSE IF db.lesson[l] # Null THEN db.lesson[l]
                       ELSE [moduleId |-> m, durationMinutes |-> 0, video |-> Null]
  OBVIOUS
<1>4. old \in LessonRow /\ HasVideo(old)
  <2>1. CASE l \in Under(found, m)
    BY <1>3, <2>1 DEF Under, Loaded, Lessons
  <2>2. CASE l \notin Under(found, m) /\ db.lesson[l] # Null
    BY <1>2, <1>3, <2>2 DEF Lessons
  <2>3. CASE l \notin Under(found, m) /\ db.lesson[l] = Null
    BY <1>3, <2>3 DEF LessonRow, HasVideo
  <2> QED BY <2>1, <2>2, <2>3
<1>5. PICK clip : clip = IF given.video = Null \/ resource[given.video] = Null THEN old.video ELSE given.video
  OBVIOUS
<1>6. PICK minutes : minutes = IF given.durationMinutes = Null THEN old.durationMinutes ELSE given.durationMinutes
  OBVIOUS
<1>7. PICK row : row = [moduleId |-> m, durationMinutes |-> minutes, video |-> clip]
  OBVIOUS
<1>8. row \in LessonRow /\ row.moduleId = m /\ HasVideo(row)
  <2>1. clip \in Resource \cup {Null} /\ (clip # Null => resource[clip] # Null)
    BY <1>4, <1>5 DEF Given, LessonRow, HasVideo
  <2>2. minutes \in Nat
    BY <1>4, <1>6 DEF Given, LessonRow
  <2> QED BY <1>7, <2>1, <2>2 DEF LessonRow, HasVideo
<1>9. /\ d = [module |-> d.module, lesson |-> d.lesson, ok |-> d.ok]
      /\ d.module = db.module
      /\ d.ok \in BOOLEAN
      /\ d.lesson = [db.lesson EXCEPT ![l] = row]
  <2>1. PICK free \in BOOLEAN : free = \A k \in Lesson \ {l} : db.lesson[k] # Null /\ clip # Null => db.lesson[k].video # clip
    OBVIOUS
  <2>2. d = [db EXCEPT !.lesson[l] = row, !.ok = @ /\ free]
    BY <1>1, <1>3, <1>5, <1>6, <1>7, <2>1 DEF LessonSaved
  <2> HIDE DEF d
  <2> QED BY <1>2, <2>1, <2>2
<1> HIDE DEF d
<1>10. d.lesson \in Lessons /\ d.lesson[l] = row /\ \A k \in Lesson \ {l} : d.lesson[k] = db.lesson[k]
  BY <1>2, <1>8, <1>9 DEF Lessons
<1>11. c # Null /\ row # Null
  BY <1>8, CatalogAssumption, CatalogNullAssumption
<1>12. ASSUME NEW k \in Lesson, d.lesson[k] # Null
       PROVE  k \in ids /\ d.module[d.lesson[k].moduleId] # Null /\ HasVideo(d.lesson[k])
  <2>1. CASE k = l
    BY <1>1, <1>8, <1>9, <1>10, <1>11, <2>1
  <2>2. CASE k # l
    BY <1>2, <1>9, <1>10, <1>12, <2>2
  <2> QED BY <2>1, <2>2
<1>13. d \in Curriculum(c, ids)
  <2>1. \A k \in Module : d.module[k] # Null => k \in ids /\ (d.module[k] = c \/ course[d.module[k]] # Null)
    BY <1>2, <1>9
  <2>2. d.module \in Modules
    BY <1>2, <1>9
  <2> QED BY <1>9, <1>10, <1>12, <2>1, <2>2, CurriculumIs
<1>14. Teaches(d, c)
  BY <1>8, <1>9, <1>10, <1>11 DEF Teaches
<1> QED BY <1>9, <1>13, <1>14 DEF d

\* A section is saved.
LEMMA SectionIn ==
    ASSUME NEW c \in Course, NEW ids, NEW db \in Curriculum(c, ids), NEW found, Loaded(found), NEW replace \in BOOLEAN,
           NEW section \in Section, section.id \in ids, \A i \in DOMAIN section.lessons : section.lessons[i].id \in ids
    PROVE  LET d == SectionSaved(db, c, found, replace, section) IN
           /\ d \in Curriculum(c, ids)
           /\ section.lessons # <<>> => Teaches(d, c)
           /\ found = NoContent /\ ~replace /\ Teaches(db, c) => Teaches(d, c)
<1> DEFINE V == {d \in Curriculum(c, ids) : d.module[section.id] = c}
           W == {d \in V : Teaches(d, c)}
<1>1. PICK m \in Module : m = section.id
  BY DEF Section
<1>2. PICK seq \in Seq(Given) : seq = section.lessons
  BY DEF Section
<1>3. PICK b : b = SectionKept(db, c, found, replace, section)
  OBVIOUS
<1>4. b \in V /\ (found = NoContent /\ ~replace /\ Teaches(db, c) => b \in W)
  BY <1>3, KeptIn
<1>5. \A i \in DOMAIN seq : \A d \in V : LessonSaved(d, found, m, seq[i]) \in W
  <2> SUFFICES ASSUME NEW i \in DOMAIN seq, NEW d \in V PROVE LessonSaved(d, found, m, seq[i]) \in W
    OBVIOUS
  <2>1. seq[i] \in Given /\ seq[i].id \in ids
    BY <1>2
  <2>2. d \in Curriculum(c, ids) /\ d.module[m] = c
    BY <1>1
  <2> HIDE DEF V
  <2>3. /\ LessonSaved(d, found, m, seq[i]) \in Curriculum(c, ids) /\ LessonSaved(d, found, m, seq[i]).module[m] = c
        /\ Teaches(LessonSaved(d, found, m, seq[i]), c)
    BY <2>1, <2>2, LessonIn
  <2> QED BY <1>1, <2>3 DEF V
<1>6. W \in SUBSET V
  OBVIOUS
<1>7. V \subseteq Curriculum(c, ids) /\ \A d \in W : Teaches(d, c)
  OBVIOUS
<1> HIDE DEF V, W
<1>8. \A i \in DOMAIN seq : \A d \in V : LessonSaved(d, found, m, seq[i]) \in V
  BY <1>5, <1>6
<1>9. /\ SectionSaved(db, c, found, replace, section) \in V
      /\ seq # <<>> => SectionSaved(db, c, found, replace, section) \in W
  <2>1. /\ SectionSaved(db, c, found, replace, section) \in V
        /\ \A U \in SUBSET V :
              seq # <<>> /\ (\A i \in DOMAIN seq : \A d \in V : LessonSaved(d, found, m, seq[i]) \in U)
                 => SectionSaved(db, c, found, replace, section) \in U
    <3>1. m = section.id /\ seq = section.lessons /\ seq \in Seq(Given) /\ b \in V
      BY <1>1, <1>2, <1>4
    <3> QED BY <3>1, <1>3, <1>8, LessonsFold
  <2> QED BY <1>5, <1>6, <2>1
<1>10. ASSUME b \in W
       PROVE  SectionSaved(db, c, found, replace, section) \in W
  <2>1. \A i \in DOMAIN seq : \A d \in W : LessonSaved(d, found, m, seq[i]) \in W
    BY <1>5, <1>6
  <2> QED BY <1>1, <1>2, <1>3, <1>10, <2>1, LessonsFold
<1> QED BY <1>2, <1>4, <1>7, <1>9, <1>10

\* A curriculum is saved. One that was never found is counted with its lessons, if it has any.
LEMMA SectionsIn ==
    ASSUME NEW c \in Course, NEW ids, NEW db \in Curriculum(c, ids), NEW found, Loaded(found), NEW replace \in BOOLEAN,
           NEW plan \in Seq(Section), Ids(plan) \subseteq ids
    PROVE  LET d == SectionsSaved(db, c, found, replace, plan) IN
           /\ d \in Curriculum(c, ids)
           /\ found = NoContent /\ ~replace => Teaches(d, c) \/ LessonsGiven(plan) = 0
           /\ LessonsGiven(plan) \in Nat
<1> DEFINE W == {d \in Curriculum(c, ids) : Teaches(d, c)}
<1>1. ASSUME NEW i \in DOMAIN plan
      PROVE  /\ plan[i] \in Section /\ plan[i].id \in ids
             /\ \A j \in DOMAIN plan[i].lessons : plan[i].lessons[j].id \in ids
             /\ Len(plan[i].lessons) \in Nat
             /\ Len(plan[i].lessons) # 0 => plan[i].lessons # <<>>
  <2>1. plan[i] \in Section
    OBVIOUS
  <2>2. plan[i].lessons \in Seq(Given)
    BY <2>1 DEF Section
  <2>3. {plan[i].id} \cup {plan[i].lessons[j].id : j \in DOMAIN plan[i].lessons} \subseteq Ids(plan)
    BY DEF Ids
  <2>4. plan[i].id \in Ids(plan) /\ \A j \in DOMAIN plan[i].lessons : plan[i].lessons[j].id \in Ids(plan)
    BY <2>3
  <2> QED BY <2>1, <2>2, <2>4
<1>2. ASSUME NEW i \in DOMAIN plan, NEW d \in Curriculum(c, ids)
      PROVE  LET e == SectionSaved(d, c, found, replace, plan[i]) IN
             /\ e \in Curriculum(c, ids)
             /\ plan[i].lessons # <<>> => Teaches(e, c)
             /\ found = NoContent /\ ~replace /\ Teaches(d, c) => Teaches(e, c)
  BY <1>1, SectionIn
<1>3. PICK V : V = Curriculum(c, ids)
  OBVIOUS
<1>4. W \in SUBSET V /\ \A d \in W : Teaches(d, c)
  BY <1>3
<1>5. \A i \in DOMAIN plan : \A d \in V : SectionSaved(d, c, found, replace, plan[i]) \in V
  BY <1>2, <1>3
<1>6. SectionsSaved(db, c, found, replace, plan) \in V
  BY <1>3, <1>5, SectionsFold
<1>7. ASSUME found = NoContent, ~replace, NEW i \in DOMAIN plan, Len(plan[i].lessons) # 0
      PROVE  SectionsSaved(db, c, found, replace, plan) \in W
  <2>1. \A k \in DOMAIN plan : \A d \in W : SectionSaved(d, c, found, replace, plan[k]) \in W
    BY <1>2, <1>7
  <2>2. \A d \in V : SectionSaved(d, c, found, replace, plan[i]) \in W
    BY <1>1, <1>2, <1>3, <1>7
  <2> HIDE DEF W
  <2> QED BY <1>3, <1>4, <1>5, <2>1, <2>2, SectionsFold
<1>8. LessonsGiven(plan) \in Nat /\ ((\A i \in DOMAIN plan : Len(plan[i].lessons) = 0) => LessonsGiven(plan) = 0)
  BY <1>1, GivenFold
<1> QED BY <1>3, <1>4, <1>6, <1>7, <1>8

RefreshOf(r, c) ==
    \/ r.pc = "statsModule" /\ module[r.module] = c
    \/ r.pc \in {"statsLessons", "statsCourse", "statsSave"} /\ r.course = c
MatchOf(c) == course[c] # Null /\ c \notin drifted /\ ~Refreshing(c) => course[c] = Stats(LessonsOf(c, module, lesson))

LEMMA RefreshingIs == \A c : Refreshing(c) <=> \E p \in Proc : RefreshOf(author[p], c)
  BY DEF Refreshing, RefreshOf

\* The lessons of a course can be counted.
LEMMA LessonsCount ==
    ASSUME NEW c, NEW M, NEW L \in Lessons
    PROVE  /\ IsFiniteSet(LessonsOf(c, M, L)) /\ \A x \in LessonsOf(c, M, L) : x[2] \in Nat
           /\ LessonsOf(c, M, L) \in SUBSET (Lesson \X Nat)
           /\ LessonsOf(c, M, L) = {} <=> \A l \in Lesson : L[l] # Null => M[L[l].moduleId] # c
<1>1. PICK K : K = {k \in Lesson : L[k] # Null /\ M[L[k].moduleId] = c}
  OBVIOUS
<1>2. IsFiniteSet(K)
  BY <1>1, CatalogAssumption, FS_Subset
<1>3. LessonsOf(c, M, L) = {<<l, L[l].durationMinutes>> : l \in K}
  BY <1>1 DEF LessonsOf
<1>4. IsFiniteSet(LessonsOf(c, M, L))
  <2>1. PICK f : f = [l \in K |-> <<l, L[l].durationMinutes>>]
    OBVIOUS
  <2>2. LessonsOf(c, M, L) = {f[l] : l \in K}
    BY <1>3, <2>1
  <2>3. f \in [K -> LessonsOf(c, M, L)]
    BY <1>3, <2>1
  <2>4. \A y \in LessonsOf(c, M, L) : \E l \in K : f[l] = y
    BY <2>2
  <2>5. f \in Surjection(K, LessonsOf(c, M, L))
    BY <2>3, <2>4 DEF Surjection
  <2> QED BY <1>2, <2>5, FS_Surjection
<1>5. \A l \in K : l \in Lesson /\ L[l].durationMinutes \in Nat
  BY <1>1 DEF Lessons, LessonRow
<1>6. LessonsOf(c, M, L) \subseteq Lesson \X Nat
  BY <1>3, <1>5
<1>7. LessonsOf(c, M, L) = {} <=> K = {}
  BY <1>3
<1> QED BY <1>1, <1>4, <1>6, <1>7

LEMMA NoAuthoringTyped ==
    NoAuthoring \in Authoring /\ AuthoringOf(NoAuthoring) /\ NoAuthoring.pc = "idle" /\ NoAuthoring.own = NoRows
<1>1. NoAuthoring \in Authoring
  BY DEF NoAuthoring, NoRows, Authoring
<1>2. IsFiniteSet(NoAuthoring.read)
  BY FS_EmptySet DEF NoAuthoring
<1>3. NoAuthoring.pc = "idle" /\ NoAuthoring.course = Null /\ NoAuthoring.own = NoRows
  BY DEF NoAuthoring
<1> QED BY <1>1, <1>2, <1>3 DEF AuthoringOf, PlanSteps

\* What a request holds stays good while ids are used and resources made.
LEMMA AuthoringKept ==
    ASSUME NEW r \in Authoring, AuthoringOf(r), taken \subseteq taken',
           \A v \in Resource : resource[v] # Null => resource'[v] # Null
    PROVE  AuthoringOf(r)'
<1>1. ASSUME NEW row \in LessonRow, HasVideo(row)
      PROVE  HasVideo(row)'
  BY <1>1 DEF HasVideo, LessonRow
<1>2. ASSUME r.pc = "planApply"
      PROVE  Loaded(r.found)' /\ r.plan \in {Null, <<>>} \cup Plan
  <2>1. Loaded(r.found) /\ r.plan \in {Null, <<>>} \cup Plan
    BY <1>2 DEF AuthoringOf, PlanSteps
  <2>2. \A l \in Lesson : r.found.lesson[l] # Null => r.found.lesson[l] \in LessonRow /\ HasVideo(r.found.lesson[l])
    BY <2>1 DEF Lessons, Loaded
  <2>3. \A l \in Lesson : r.found.lesson[l] # Null => HasVideo(r.found.lesson[l])'
    BY <1>1, <2>2
  <2> QED BY <2>1, <2>3 DEF Loaded
<1>3. r.pc \in {"lessonInsert", "lessonSave"} => r.row \in LessonRow /\ HasVideo(r.row) /\ HasVideo(r.row)'
  BY <1>1 DEF AuthoringOf, PlanSteps
<1>4. r.course # Null => r.course \in taken'
  BY DEF AuthoringOf, PlanSteps
<1>5. /\ r.pc = "moduleSave" => r.module \in taken'
      /\ r.pc = "lessonSave" => r.lesson \in taken' /\ (r.refresh => r.module \in Module)
  BY DEF AuthoringOf, PlanSteps
<1> QED BY <1>2, <1>3, <1>4, <1>5 DEF AuthoringOf, PlanSteps

LEMMA AuthorMoves ==
    ASSUME Stocked, NEW p \in Proc, NEW r \in Authoring, author' = [author EXCEPT ![p] = r], AuthoringOf(r)',
           taken \subseteq taken', \A v \in Resource : resource[v] # Null => resource'[v] # Null
    PROVE  /\ author' \in [Proc -> Authoring] /\ author'[p] = r
           /\ \A q \in Proc \ {p} : author'[q] = author[q]
           /\ \A q \in Proc : AuthoringOf(author[q])'
<1>1. author \in [Proc -> Authoring] /\ \A q \in Proc : AuthoringOf(author[q])
  BY DEF Stocked, CatalogTypes
<1>2. author' \in [Proc -> Authoring] /\ author'[p] = r /\ \A q \in Proc \ {p} : author'[q] = author[q]
  BY <1>1
<1>3. ASSUME NEW q \in Proc
      PROVE  AuthoringOf(author[q])'
  <2>1. PICK s \in Authoring : s = author'[q]
    BY <1>2
  <2>2. AuthoringOf(s)'
    <3>1. CASE q = p
      BY <1>2, <2>1, <3>1
    <3>2. CASE q # p
      BY <1>1, <1>2, <2>1, <3>2, AuthoringKept
    <3> QED BY <3>1, <3>2
  <2> QED BY <2>1, <2>2 DEF AuthoringOf, PlanSteps
<1> QED BY <1>2, <1>3

\* A course's numbers still match if its lessons and they are the same, and it is not left behind.
LEMMA MatchStays ==
    ASSUME NEW c, MatchOf(c), course'[c] = course[c], LessonsOf(c, module, lesson)' = LessonsOf(c, module, lesson),
           c \notin drifted' => c \notin drifted, c \notin drifted' /\ Refreshing(c) => Refreshing(c)'
    PROVE  MatchOf(c)'
  BY DEF MatchOf

\* A step in which the request p only goes on, and stops refreshing no course that is there.
LEMMA AuthorQuiet ==
    ASSUME Stocked, NEW p \in Proc, NEW r \in Authoring, author' = [author EXCEPT ![p] = r], AuthoringOf(r),
           UNCHANGED <<course, module, lesson, taken, drifted>>,
           resource' \in [Resource -> {Null} \cup ResourceRow],
           \A v \in Resource : resource[v] # Null => resource'[v] # Null,
           \A c \in Course : course[c] # Null /\ RefreshOf(author[p], c) => RefreshOf(r, c)
    PROVE  Stocked'
<1>1. AuthoringOf(r)'
  BY AuthoringKept
<1>2. /\ author' \in [Proc -> Authoring] /\ author'[p] = r
      /\ \A q \in Proc \ {p} : author'[q] = author[q]
      /\ \A q \in Proc : AuthoringOf(author[q])'
  BY <1>1, AuthorMoves
<1>3. ASSUME NEW c \in Course
      PROVE  MatchOf(c)'
  <2>1. MatchOf(c) /\ LessonsOf(c, module, lesson)' = LessonsOf(c, module, lesson)
    BY DEF Stocked, StatsMatch, MatchOf
  <2>2. CASE course[c] = Null
    BY <2>2 DEF MatchOf
  <2>3. CASE course[c] # Null
    <3>1. ASSUME Refreshing(c)
          PROVE  Refreshing(c)'
      <4>1. PICK q \in Proc : RefreshOf(author[q], c)
        BY <3>1, RefreshingIs
      <4>2. RefreshOf(author'[q], c)
        BY <1>2, <2>3, <4>1
      <4>3. \/ author'[q].pc = "statsModule" /\ module'[author'[q].module] = c
            \/ author'[q].pc \in {"statsLessons", "statsCourse", "statsSave"} /\ author'[q].course = c
        BY <4>2 DEF RefreshOf
      <4> QED BY <4>3 DEF Refreshing
    <3> QED BY <2>1, <3>1, MatchStays
  <2> QED BY <2>2, <2>3
<1>4. ASSUME NEW l \in Lesson, lesson'[l] # Null
      PROVE  l \in taken' /\ HasVideo(lesson[l])'
  <2>1. lesson[l] \in LessonRow /\ HasVideo(lesson[l]) /\ l \in taken
    BY <1>4 DEF Stocked, CatalogTypes, Lessons
  <2> QED BY <2>1 DEF HasVideo, LessonRow
<1>5. StatsMatch'
  BY <1>3 DEF StatsMatch, MatchOf
<1> QED BY <1>2, <1>4, <1>5 DEF Stocked, CatalogTypes

\* A step that leaves the courses' numbers right for each course.
LEMMA AuthorLoud ==
    ASSUME Stocked, NEW p \in Proc, NEW r \in Authoring, author' = [author EXCEPT ![p] = r], AuthoringOf(r),
           UNCHANGED resource, taken \subseteq taken', taken' \subseteq Course \cup Module \cup Lesson,
           course' \in [Course -> {Null} \cup CourseRow], module' \in Modules, lesson' \in Lessons, drifted' \subseteq Course,
           \A m \in Module : module'[m] # Null => m \in taken' /\ course'[module'[m]] # Null,
           \A l \in Lesson : lesson'[l] # Null => l \in taken' /\ module'[lesson'[l].moduleId] # Null /\ HasVideo(lesson'[l]),
           \A c \in Course : course'[c] # Null => c \in taken',
           \A c \in Course : MatchOf(c)'
    PROVE  Stocked'
<1>1. AuthoringOf(r)'
  BY AuthoringKept
<1>2. author' \in [Proc -> Authoring] /\ \A q \in Proc : AuthoringOf(author[q])'
  BY <1>1, AuthorMoves
<1>3. \A l \in Lesson : lesson'[l] # Null => HasVideo(lesson[l])'
  BY DEF HasVideo
<1>4. StatsMatch'
  BY DEF StatsMatch, MatchOf
<1> QED BY <1>2, <1>3, <1>4 DEF Stocked, CatalogTypes

\* The refreshes of the other requests go on where the modules they refer to stay.
LEMMA RefreshGoesOn ==
    ASSUME NEW p \in Proc, NEW c, \A q \in Proc \ {p} : author'[q] = author[q], ~RefreshOf(author[p], c),
           \A q \in Proc : author[q].pc = "statsModule" /\ module[author[q].module] = c => module'[author[q].module] = c,
           Refreshing(c)
    PROVE  Refreshing(c)'
<1>1. PICK q \in Proc : RefreshOf(author[q], c)
  BY RefreshingIs
<1>2. author'[q] = author[q]
  BY <1>1
<1>3. \/ author'[q].pc = "statsModule" /\ module'[author'[q].module] = c
      \/ author'[q].pc \in {"statsLessons", "statsCourse", "statsSave"} /\ author'[q].course = c
  BY <1>1, <1>2 DEF RefreshOf
<1> QED BY <1>3 DEF Refreshing

\* A course that the history does not leave behind has its lessons, and a refresh of it goes on.
LEMMA NotLeftBehind ==
    ASSUME NEW except, LeftBehind(except), NEW c \in Course, c # except, MatchOf(c), course'[c] = course[c]
    PROVE  MatchOf(c)'
<1>1. CASE c \in drifted'
  BY <1>1 DEF MatchOf
<1>2. CASE c \notin drifted'
  <2>1. c \notin drifted /\ c \notin Changed /\ c \notin Dropped
    BY <1>2 DEF LeftBehind
  <2>2. LessonsOf(c, module, lesson)' = LessonsOf(c, module, lesson)
    BY <2>1 DEF Changed, LessonsOf
  <2>3. Refreshing(c) => Refreshing(c)'
    BY <2>1 DEF Dropped
  <2> QED BY <2>1, <2>2, <2>3, MatchStays
<1> QED BY <1>1, <1>2

\* What a step starts from.
LEMMA StockedIs ==
    ASSUME Stocked, NEW p \in Proc
    PROVE  /\ author \in [Proc -> Authoring] /\ author[p] \in Authoring /\ AuthoringOf(author[p])
           /\ course \in [Course -> {Null} \cup CourseRow] /\ module \in Modules /\ lesson \in Lessons
           /\ resource \in [Resource -> {Null} \cup ResourceRow]
           /\ taken \subseteq Course \cup Module \cup Lesson /\ drifted \subseteq Course
           /\ \A m \in Module : module[m] # Null => m \in taken /\ module[m] \in Course /\ course[module[m]] # Null
           /\ \A l \in Lesson : lesson[l] # Null =>
                 /\ l \in taken /\ lesson[l] \in LessonRow /\ lesson[l].moduleId \in Module
                 /\ module[lesson[l].moduleId] # Null /\ HasVideo(lesson[l])
           /\ \A c \in Course : course[c] # Null => c \in taken /\ course[c] \in CourseRow
           /\ \A c \in Course : MatchOf(c) /\ c # Null
           /\ \A q \in Proc : author[q].pc = "statsModule" => author[q].module \in Module
<1>1. CatalogTypes
  BY DEF Stocked
<1>2. \A c \in Course : MatchOf(c)
  BY DEF Stocked, StatsMatch, MatchOf
<1>3. \A c \in Course : c # Null
  BY CatalogAssumption
<1>4. \A q \in Proc : author[q].pc = "statsModule" => author[q].module \in Module
  BY DEF Stocked, AuthoringOf, PlanSteps
<1>5. author[p] \in Authoring /\ AuthoringOf(author[p])
  BY <1>1 DEF Stocked, CatalogTypes
<1>6. ASSUME NEW m \in Module, module[m] # Null
      PROVE  m \in taken /\ module[m] \in Course /\ course[module[m]] # Null
  BY <1>1, <1>6 DEF Stocked, CatalogTypes, Modules
<1>7. ASSUME NEW l \in Lesson, lesson[l] # Null
      PROVE  /\ l \in taken /\ lesson[l] \in LessonRow /\ lesson[l].moduleId \in Module
             /\ module[lesson[l].moduleId] # Null /\ HasVideo(lesson[l])
  BY <1>1, <1>7 DEF Stocked, CatalogTypes, Lessons, LessonRow
<1>8. ASSUME NEW c \in Course, course[c] # Null
      PROVE  c \in taken /\ course[c] \in CourseRow
  BY <1>1, <1>8 DEF Stocked, CatalogTypes
<1>9. author \in [Proc -> Authoring] /\ course \in [Course -> {Null} \cup CourseRow] /\ module \in Modules /\ lesson \in Lessons
  BY <1>1 DEF CatalogTypes
<1>10. /\ resource \in [Resource -> {Null} \cup ResourceRow]
       /\ taken \subseteq Course \cup Module \cup Lesson /\ drifted \subseteq Course
  BY <1>1 DEF CatalogTypes
<1> QED BY <1>2, <1>3, <1>4, <1>5, <1>6, <1>7, <1>8, <1>9, <1>10

LEMMA StockedInit ==
    ASSUME NEW begun \in BOOLEAN, CatalogInit(begun)
    PROVE  Stocked
<1>1. PICK c \in Course, m \in Module, l \in Lesson, v \in Resource :
        /\ course = [x \in Course |-> IF begun /\ x = c THEN [lessonCount |-> 1, totalDurationMinutes |-> 0] ELSE Null]
        /\ module = [x \in Module |-> IF begun /\ x = m THEN c ELSE Null]
        /\ lesson = [x \in Lesson |-> IF begun /\ x = l THEN [moduleId |-> m, durationMinutes |-> 0, video |-> v] ELSE Null]
        /\ resource = [x \in Resource |-> IF begun /\ x = v THEN [status |-> "pending", durationSeconds |-> 0] ELSE Null]
        /\ taken = IF begun THEN {c, m, l} ELSE {}
        /\ author = [p \in Proc |-> NoAuthoring]
        /\ drifted = {}
  BY DEF CatalogInit
<1>2. c # Null /\ Null \notin CourseRow /\ Null \notin LessonRow /\ Null \notin ResourceRow
  BY CatalogAssumption, CatalogNullAssumption
<1>3. PICK row \in LessonRow : row = [moduleId |-> m, durationMinutes |-> 0, video |-> v]
  BY DEF LessonRow
<1>4. PICK count \in CourseRow : count = [lessonCount |-> 1, totalDurationMinutes |-> 0]
  BY DEF CourseRow
<1>5. PICK clip \in ResourceRow : clip = [status |-> "pending", durationSeconds |-> 0]
  BY DEF ResourceRow
<1>6. /\ course = [x \in Course |-> IF begun /\ x = c THEN count ELSE Null]
      /\ module = [x \in Module |-> IF begun /\ x = m THEN c ELSE Null]
      /\ lesson = [x \in Lesson |-> IF begun /\ x = l THEN row ELSE Null]
      /\ resource = [x \in Resource |-> IF begun /\ x = v THEN clip ELSE Null]
      /\ row.moduleId = m /\ row.video = v /\ row.durationMinutes = 0
  BY <1>1, <1>3, <1>4, <1>5
<1>7. /\ course \in [Course -> {Null} \cup CourseRow] /\ module \in Modules /\ lesson \in Lessons
      /\ resource \in [Resource -> {Null} \cup ResourceRow]
  BY <1>6 DEF Modules, Lessons
<1>8. author \in [Proc -> Authoring] /\ \A p \in Proc : author[p].pc = "idle" /\ AuthoringOf(author[p])
  BY <1>1, NoAuthoringTyped
<1>9. CatalogTypes
  BY <1>1, <1>2, <1>6, <1>7, <1>8 DEF CatalogTypes
<1>10. ASSUME NEW x \in Lesson, lesson[x] # Null
       PROVE  x \in taken /\ HasVideo(lesson[x])
  BY <1>1, <1>2, <1>6, <1>10 DEF HasVideo
<1>11. ASSUME NEW x \in Course, course[x] # Null
       PROVE  course[x] = Stats(LessonsOf(x, module, lesson))
  <2>1. begun /\ x = c /\ course[x] = count
    BY <1>6, <1>11
  <2>2. \A k \in Lesson : lesson[k] # Null /\ module[lesson[k].moduleId] = c <=> k = l
    BY <1>2, <1>6, <2>1
  <2>3. {k \in Lesson : lesson[k] # Null /\ module[lesson[k].moduleId] = c} = {l}
    BY <2>2
  <2>4. PICK K : K = {k \in Lesson : lesson[k] # Null /\ module[lesson[k].moduleId] = c}
    OBVIOUS
  <2>5. LessonsOf(x, module, lesson) = {<<k, lesson[k].durationMinutes>> : k \in K}
    BY <2>1, <2>4 DEF LessonsOf
  <2>6. LessonsOf(x, module, lesson) = {<<l, 0>>}
    BY <1>6, <2>1, <2>3, <2>4, <2>5
  <2>7. PICK t : t = <<l, 0>> /\ t[2] = 0
    <3>1. <<l, 0>>[2] = 0
      OBVIOUS
    <3> QED BY <3>1
  <2>8. PICK S : S = {t}
    OBVIOUS
  <2>9. IsFiniteSet(S) /\ \A y \in S : y[2] \in Nat
    <3>1. IsFiniteSet({t}) /\ \A y \in {t} : y = t
      BY FS_Singleton
    <3> QED BY <2>7, <2>8, <3>1
  <2>10. \A y : S = {y} => Stats(S) = [lessonCount |-> 1, totalDurationMinutes |-> y[2]]
    BY <2>9, StatsType
  <2>11. Stats(S) = [lessonCount |-> 1, totalDurationMinutes |-> 0]
    BY <2>7, <2>8, <2>10
  <2> QED BY <1>4, <2>1, <2>6, <2>7, <2>8, <2>11
<1> QED BY <1>1, <1>2, <1>6, <1>8, <1>9, <1>10, <1>11 DEF Stocked, StatsMatch

\* createVideo() and the steps that find what a request works on.
LEMMA ResourceCreateStep ==
    ASSUME Stocked, NEW p \in Proc, NEW v \in Resource, ResourceCreate(v)
    PROVE  Stocked'
<1>1. /\ author \in [Proc -> Authoring] /\ author[p] \in Authoring /\ AuthoringOf(author[p])
      /\ resource \in [Resource -> {Null} \cup ResourceRow]
  BY StockedIs
<1>2. PICK clip \in ResourceRow : clip = [status |-> "pending", durationSeconds |-> 0]
  BY DEF ResourceRow
<1>3. resource' = [resource EXCEPT ![v] = clip] /\ clip # Null
  BY <1>2, CatalogNullAssumption DEF ResourceCreate
<1>4. author' = [author EXCEPT ![p] = author[p]] /\ UNCHANGED <<course, module, lesson, taken, drifted>>
  BY <1>1 DEF ResourceCreate
<1>5. resource' \in [Resource -> {Null} \cup ResourceRow] /\ \A u \in Resource : resource[u] # Null => resource'[u] # Null
  BY <1>1, <1>3
<1> QED BY <1>1, <1>4, <1>5, AuthorQuiet

LEMMA BeginStep ==
    ASSUME Stocked, NEW p \in Proc, NEW r \in Authoring, AuthorBegin(p, r), AuthoringOf(r), UNCHANGED <<rows, drifted>>
    PROVE  Stocked'
<1>1. author[p].pc = "idle" /\ author' = [author EXCEPT ![p] = r]
  BY DEF AuthorBegin
<1>2. UNCHANGED <<course, module, lesson, resource, taken, drifted>>
  BY DEF rows
<1>3. resource' \in [Resource -> {Null} \cup ResourceRow] /\ \A u \in Resource : resource[u] # Null => resource'[u] # Null
  BY <1>2, StockedIs
<1>4. \A c : ~RefreshOf(author[p], c)
  BY <1>1 DEF RefreshOf
<1> QED BY <1>1, <1>2, <1>3, <1>4, AuthorQuiet

\* What the memory of a request is that has found something.
LEMMA FoundTyped ==
    ASSUME NEW r, NEW step, NEW row,
           r = [pc |-> step, course |-> r.course, module |-> r.module, lesson |-> r.lesson, video |-> r.video, row |-> row,
                found |-> r.found, plan |-> r.plan, own |-> NoRows, replace |-> r.replace, refresh |-> r.refresh, read |-> {}],
           step \in {"idle", "courseSave", "courseRemove", "planApply", "moduleInsert", "moduleSave", "moduleRemove",
                     "lessonInsert", "lessonSave", "lessonRemove", "resourceSave", "linkedFind",
                     "statsModule", "statsLessons", "statsCourse", "statsSave"},
           r.course \in {Null} \cup Course, r.module \in {Null} \cup Module, r.lesson \in {Null} \cup Lesson,
           r.video \in {Null} \cup Resource, row \in {Null} \cup CourseRow \cup Course \cup LessonRow \cup ResourceRow,
           r.found \in {Null} \cup [module : Modules, lesson : Lessons], r.plan \in {Null, <<>>} \cup Plan,
           r.replace \in BOOLEAN, r.refresh \in BOOLEAN
    PROVE  r \in Authoring /\ IsFiniteSet(r.read) /\ r.own = NoRows /\ r.row = row /\ r.pc = step
<1>1. r \in Authoring
  <2>1. NoRows \in [course : BOOLEAN, module : SUBSET Module, lesson : SUBSET Lesson]
    BY DEF NoRows
  <2> QED BY <2>1 DEF Authoring
<1>2. r.read = {} /\ r.own = NoRows /\ r.row = row /\ r.pc = step
  <2>1. PICK s : /\ s = [pc |-> step, course |-> r.course, module |-> r.module, lesson |-> r.lesson, video |-> r.video, row |-> row,
                         found |-> r.found, plan |-> r.plan, own |-> NoRows, replace |-> r.replace, refresh |-> r.refresh, read |-> {}]
                 /\ s.read = {} /\ s.own = NoRows /\ s.row = row /\ s.pc = step
    OBVIOUS
  <2> QED BY <2>1
<1> QED BY <1>1, <1>2, FS_EmptySet

\* What findCourseById() loads is well typed, and its videos exist.
LEMMA ContentLoaded ==
    ASSUME Stocked, NEW p \in Proc, NEW c \in Course
    PROVE  Loaded(Content(c))
<1>1. /\ lesson \in Lessons /\ resource \in [Resource -> {Null} \cup ResourceRow]
      /\ \A l \in Lesson : lesson[l] # Null => lesson[l] \in LessonRow /\ HasVideo(lesson[l])
  BY StockedIs
<1>2. PICK found : found = Content(c)
  OBVIOUS
<1>3. /\ found = [module |-> found.module, lesson |-> found.lesson]
      /\ found.module = [m \in Module |-> IF module[m] = c THEN c ELSE Null]
      /\ found.lesson = [l \in Lesson |-> found.lesson[l]]
  BY <1>2 DEF Content
<1>4. ASSUME NEW l \in Lesson, found.lesson[l] # Null
      PROVE  found.lesson[l] \in LessonRow /\ HasVideo(found.lesson[l])
  <2>1. PICK minutes : minutes = (resource[lesson[l].video].durationSeconds + 59) \div 60
    OBVIOUS
  <2>2. found.lesson[l] =
        IF lesson[l] = Null \/ module[lesson[l].moduleId] # c THEN Null
        ELSE IF lesson[l].durationMinutes = 0 /\ lesson[l].video # Null
        THEN [lesson[l] EXCEPT !.durationMinutes = minutes]
        ELSE lesson[l]
    BY <1>2, <2>1 DEF Content
  <2>3. lesson[l] \in LessonRow /\ HasVideo(lesson[l])
    BY <1>1, <1>4, <2>2
  <2>4. CASE lesson[l].video # Null
    <3>1. resource[lesson[l].video] \in ResourceRow
      BY <1>1, <2>3, <2>4 DEF HasVideo, LessonRow
    <3>2. PICK seconds \in Nat : seconds = resource[lesson[l].video].durationSeconds
      BY <3>1 DEF ResourceRow
    <3>3. (seconds + 59) \div 60 \in Nat
      OBVIOUS
    <3>4. minutes \in Nat
      BY <2>1, <3>2, <3>3
    <3> QED BY <1>4, <2>2, <2>3, <3>4 DEF HasVideo, LessonRow
  <2>5. CASE lesson[l].video = Null
    BY <1>4, <2>2, <2>3, <2>5
  <2> QED BY <2>4, <2>5
<1>5. found.module \in Modules /\ found.lesson \in Lessons
  BY <1>3, <1>4 DEF Modules, Lessons
<1> QED BY <1>2, <1>3, <1>4, <1>5 DEF Loaded

LEMMA CourseFindStep ==
    ASSUME Stocked, NEW p \in Proc, CourseFind(p)
    PROVE  Stocked'
<1>1. PICK c \in Course :
        /\ course[c] # Null
        /\ \/ AuthorBegin(p, [Found("courseSave", course[c]) EXCEPT !.course = c])
           \/ \E plan \in {Null, <<>>} \cup Plan, replace \in BOOLEAN :
                AuthorBegin(p, [Found("planApply", course[c]) EXCEPT !.course = c, !.found = Content(c),
                                                                     !.plan = plan, !.replace = replace])
           \/ AuthorBegin(p, [Found("courseRemove", course[c]) EXCEPT !.course = c])
        /\ UNCHANGED <<rows, drifted>>
  BY DEF CourseFind
<1>2. PICK row \in CourseRow : row = course[c]
  BY <1>1, StockedIs
<1>3. c \in taken /\ c # Null
  BY <1>1, StockedIs
<1>4. ASSUME NEW step \in {"courseSave", "courseRemove"}, AuthorBegin(p, [Found(step, row) EXCEPT !.course = c])
      PROVE  Stocked'
  <2>1. PICK r : r = [Found(step, row) EXCEPT !.course = c]
    OBVIOUS
  <2>2. /\ r = [pc |-> step, course |-> c, module |-> Null, lesson |-> Null, video |-> Null, row |-> row,
                found |-> Null, plan |-> Null, own |-> NoRows, replace |-> FALSE, refresh |-> FALSE, read |-> {}]
        /\ r.course = c /\ r.module = Null /\ r.lesson = Null /\ r.video = Null /\ r.found = Null /\ r.plan = Null
        /\ r.replace = FALSE /\ r.refresh = FALSE
    BY <2>1 DEF Found, NoAuthoring
  <2>3. r \in Authoring /\ IsFiniteSet(r.read) /\ r.own = NoRows /\ r.row = row /\ r.pc = step
    BY <2>2, FoundTyped
  <2>4. AuthoringOf(r)
    BY <1>3, <2>2, <2>3 DEF AuthoringOf, PlanSteps
  <2> QED BY <1>1, <1>4, <2>1, <2>3, <2>4, BeginStep
<1>5. ASSUME NEW plan \in {Null, <<>>} \cup Plan, NEW replace \in BOOLEAN,
             AuthorBegin(p, [Found("planApply", row) EXCEPT !.course = c, !.found = Content(c), !.plan = plan, !.replace = replace])
      PROVE  Stocked'
  <2>1. PICK r : r = [Found("planApply", row) EXCEPT !.course = c, !.found = Content(c), !.plan = plan, !.replace = replace]
    OBVIOUS
  <2>2. PICK found : found = Content(c)
    OBVIOUS
  <2>3. Loaded(found)
    BY <2>2, ContentLoaded
  <2>4. /\ r = [pc |-> "planApply", course |-> c, module |-> Null, lesson |-> Null, video |-> Null, row |-> row,
                found |-> found, plan |-> plan, own |-> NoRows, replace |-> replace, refresh |-> FALSE, read |-> {}]
        /\ r.course = c /\ r.module = Null /\ r.lesson = Null /\ r.video = Null /\ r.found = found /\ r.plan = plan
        /\ r.replace = replace /\ r.refresh = FALSE
    BY <2>1, <2>2 DEF Found, NoAuthoring
  <2>5. r \in Authoring /\ IsFiniteSet(r.read) /\ r.own = NoRows /\ r.row = row /\ r.pc = "planApply"
    BY <2>3, <2>4, FoundTyped, ZenonT(60) DEF Loaded
  <2>6. AuthoringOf(r)
    BY <1>3, <2>3, <2>4, <2>5 DEF AuthoringOf, PlanSteps
  <2> QED BY <1>1, <1>5, <2>1, <2>5, <2>6, BeginStep
<1> QED BY <1>1, <1>2, <1>4, <1>5

LEMMA ModuleFindStep ==
    ASSUME Stocked, NEW p \in Proc, ModuleFind(p)
    PROVE  Stocked'
<1>1. UNCHANGED <<rows, drifted>>
  BY DEF ModuleFind
<1>2. ASSUME NEW c \in Course, course[c] # Null, AuthorBegin(p, [Found("moduleInsert", Null) EXCEPT !.course = c])
      PROVE  Stocked'
  <2>1. PICK r : r = [Found("moduleInsert", Null) EXCEPT !.course = c]
    OBVIOUS
  <2>2. /\ r = [pc |-> "moduleInsert", course |-> c, module |-> Null, lesson |-> Null, video |-> Null, row |-> Null,
                found |-> Null, plan |-> Null, own |-> NoRows, replace |-> FALSE, refresh |-> FALSE, read |-> {}]
        /\ r.course = c /\ r.module = Null /\ r.lesson = Null /\ r.video = Null /\ r.found = Null /\ r.plan = Null
        /\ r.replace = FALSE /\ r.refresh = FALSE
    BY <2>1 DEF Found, NoAuthoring
  <2>3. r \in Authoring /\ IsFiniteSet(r.read) /\ r.own = NoRows /\ r.pc = "moduleInsert"
    BY <2>2, FoundTyped
  <2>4. AuthoringOf(r)
    BY <1>2, <2>2, <2>3, StockedIs DEF AuthoringOf, PlanSteps
  <2> QED BY <1>1, <1>2, <2>1, <2>3, <2>4, BeginStep
<1>3. ASSUME NEW m \in Module, NEW step \in {"moduleSave", "moduleRemove"}, module[m] # Null,
             AuthorBegin(p, [Found(step, module[m]) EXCEPT !.module = m])
      PROVE  Stocked'
  <2>1. PICK c \in Course : c = module[m]
    BY <1>3, StockedIs
  <2>2. PICK r : r = [Found(step, c) EXCEPT !.module = m]
    OBVIOUS
  <2>3. /\ r = [pc |-> step, course |-> Null, module |-> m, lesson |-> Null, video |-> Null, row |-> c,
                found |-> Null, plan |-> Null, own |-> NoRows, replace |-> FALSE, refresh |-> FALSE, read |-> {}]
        /\ r.course = Null /\ r.module = m /\ r.lesson = Null /\ r.video = Null /\ r.found = Null /\ r.plan = Null
        /\ r.replace = FALSE /\ r.refresh = FALSE
    BY <2>2 DEF Found, NoAuthoring
  <2>4. r \in Authoring /\ IsFiniteSet(r.read) /\ r.own = NoRows /\ r.pc = step /\ r.row = c
    BY <2>3, FoundTyped
  <2>5. m \in taken
    BY <1>3, StockedIs
  <2>6. AuthoringOf(r)
    BY <2>3, <2>4, <2>5 DEF AuthoringOf, PlanSteps
  <2> QED BY <1>1, <1>3, <2>1, <2>2, <2>4, <2>6, BeginStep
<1> QED BY <1>2, <1>3 DEF ModuleFind

LEMMA LessonFindStep ==
    ASSUME Stocked, NEW p \in Proc, LessonFind(p)
    PROVE  Stocked'
<1>1. UNCHANGED <<rows, drifted>>
  BY DEF LessonFind
<1>2. ASSUME NEW m \in Module, NEW minutes \in Minutes, 
             AuthorBegin(p, [Found("lessonInsert", [moduleId |-> m, durationMinutes |-> minutes, video |-> Null]) EXCEPT !.module = m])
      PROVE  Stocked'
  <2>1. PICK row : row = [moduleId |-> m, durationMinutes |-> minutes, video |-> Null]
    OBVIOUS
  <2>2. row \in LessonRow /\ HasVideo(row) /\ row.moduleId = m
    BY <2>1, CatalogAssumption DEF LessonRow, HasVideo
  <2>3. PICK r : r = [Found("lessonInsert", row) EXCEPT !.module = m]
    OBVIOUS
  <2>4. /\ r = [pc |-> "lessonInsert", course |-> Null, module |-> m, lesson |-> Null, video |-> Null, row |-> row,
                found |-> Null, plan |-> Null, own |-> NoRows, replace |-> FALSE, refresh |-> FALSE, read |-> {}]
        /\ r.course = Null /\ r.module = m /\ r.lesson = Null /\ r.video = Null /\ r.found = Null /\ r.plan = Null
        /\ r.replace = FALSE /\ r.refresh = FALSE
    BY <2>3 DEF Found, NoAuthoring
  <2>5. r \in Authoring /\ IsFiniteSet(r.read) /\ r.own = NoRows /\ r.pc = "lessonInsert" /\ r.row = row
    BY <2>2, <2>4, FoundTyped
  <2>6. AuthoringOf(r)
    BY <2>2, <2>4, <2>5 DEF AuthoringOf, PlanSteps
  <2> QED BY <1>1, <1>2, <2>1, <2>3, <2>5, <2>6, BeginStep
<1>3. ASSUME NEW l \in Lesson, lesson[l] # Null, NEW step \in {"lessonSave", "lessonRemove"}, NEW row \in LessonRow, HasVideo(row),
             NEW m \in {Null} \cup Module, NEW refresh \in BOOLEAN, refresh => m \in Module, step = "lessonRemove" => m \in Module,
             AuthorBegin(p, [Found(step, row) EXCEPT !.lesson = l, !.module = m, !.refresh = refresh])
      PROVE  Stocked'
  <2>1. PICK r : r = [Found(step, row) EXCEPT !.lesson = l, !.module = m, !.refresh = refresh]
    OBVIOUS
  <2>2. /\ r = [pc |-> step, course |-> Null, module |-> m, lesson |-> l, video |-> Null, row |-> row,
                found |-> Null, plan |-> Null, own |-> NoRows, replace |-> FALSE, refresh |-> refresh, read |-> {}]
        /\ r.course = Null /\ r.module = m /\ r.lesson = l /\ r.video = Null /\ r.found = Null /\ r.plan = Null
        /\ r.replace = FALSE /\ r.refresh = refresh
    BY <2>1 DEF Found, NoAuthoring
  <2>3. r \in Authoring /\ IsFiniteSet(r.read) /\ r.own = NoRows /\ r.pc = step /\ r.row = row
    BY <2>2, FoundTyped, ZenonT(60)
  <2>4. l \in taken
    BY <1>3, StockedIs
  <2>5. AuthoringOf(r)
    BY <1>3, <2>2, <2>3, <2>4 DEF AuthoringOf, PlanSteps
  <2> QED BY <1>1, <1>3, <2>1, <2>3, <2>5, BeginStep
<1>4. ASSUME NEW l \in Lesson, lesson[l] # Null,
             \/ AuthorBegin(p, [Found("lessonSave", lesson[l]) EXCEPT !.lesson = l])
             \/ \E minutes \in Minutes \cup {lesson[l].durationMinutes} :
                  AuthorBegin(p, [Found("lessonSave", [lesson[l] EXCEPT !.durationMinutes = minutes])
                                     EXCEPT !.lesson = l, !.module = lesson[l].moduleId, !.refresh = TRUE])
             \/ AuthorBegin(p, [Found("lessonRemove", lesson[l])
                                   EXCEPT !.lesson = l, !.module = lesson[l].moduleId, !.refresh = TRUE])
      PROVE  Stocked'
  <2>1. PICK row \in LessonRow : row = lesson[l] /\ HasVideo(row) /\ row.moduleId \in Module
    BY <1>4, StockedIs
  <2>2. CASE AuthorBegin(p, [Found("lessonSave", lesson[l]) EXCEPT !.lesson = l])
    <3>1. [Found("lessonSave", row) EXCEPT !.lesson = l] = [Found("lessonSave", row) EXCEPT !.lesson = l, !.module = Null, !.refresh = FALSE]
      <4>1. PICK r : r = [Found("lessonSave", row) EXCEPT !.lesson = l]
        OBVIOUS
      <4>2. PICK s : s = [Found("lessonSave", row) EXCEPT !.lesson = l, !.module = Null, !.refresh = FALSE]
        OBVIOUS
      <4>3. r = [pc |-> "lessonSave", course |-> Null, module |-> Null, lesson |-> l, video |-> Null, row |-> row,
                 found |-> Null, plan |-> Null, own |-> NoRows, replace |-> FALSE, refresh |-> FALSE, read |-> {}]
        BY <4>1 DEF Found, NoAuthoring
      <4>4. s = [pc |-> "lessonSave", course |-> Null, module |-> Null, lesson |-> l, video |-> Null, row |-> row,
                 found |-> Null, plan |-> Null, own |-> NoRows, replace |-> FALSE, refresh |-> FALSE, read |-> {}]
        BY <4>2 DEF Found, NoAuthoring
      <4> QED BY <4>1, <4>2, <4>3, <4>4
    <3>2. AuthorBegin(p, [Found("lessonSave", row) EXCEPT !.lesson = l, !.module = Null, !.refresh = FALSE])
      BY <2>1, <2>2, <3>1
    <3> QED BY <1>3, <1>4, <2>1, <3>2
  <2>3. ASSUME NEW minutes \in Minutes \cup {lesson[l].durationMinutes},
               AuthorBegin(p, [Found("lessonSave", [lesson[l] EXCEPT !.durationMinutes = minutes])
                                     EXCEPT !.lesson = l, !.module = lesson[l].moduleId, !.refresh = TRUE])
        PROVE  Stocked'
    <3>1. PICK new : new = [row EXCEPT !.durationMinutes = minutes]
      OBVIOUS
    <3>2. minutes \in Nat
      BY <2>1, CatalogAssumption DEF LessonRow
    <3>3. new \in LessonRow /\ HasVideo(new)
      BY <2>1, <3>1, <3>2 DEF LessonRow, HasVideo
    <3> QED BY <1>3, <1>4, <2>1, <2>3, <3>1, <3>3
  <2>4. CASE AuthorBegin(p, [Found("lessonRemove", lesson[l]) EXCEPT !.lesson = l, !.module = lesson[l].moduleId, !.refresh = TRUE])
    BY <1>3, <1>4, <2>1, <2>4
  <2> QED BY <1>4, <2>2, <2>3, <2>4
<1> QED BY <1>2, <1>4 DEF LessonFind

LEMMA ResourceHookStep ==
    ASSUME Stocked, NEW p \in Proc, ResourceHook(p)
    PROVE  Stocked'
<1>1. PICK v \in Resource, status \in {"pending", "uploading", "processing", "ready", "failed"}, seconds \in Seconds :
        /\ resource[v] # Null
        /\ AuthorBegin(p, [Found("resourceSave",
                                 [status |-> status,
                                  durationSeconds |-> IF seconds > 0 THEN seconds ELSE resource[v].durationSeconds])
                              EXCEPT !.video = v])
        /\ UNCHANGED <<rows, drifted>>
  BY DEF ResourceHook
<1>2. resource[v] \in ResourceRow
  BY <1>1, StockedIs
<1>3. PICK length \in Nat : length = IF seconds > 0 THEN seconds ELSE resource[v].durationSeconds
  BY <1>2, CatalogAssumption DEF ResourceRow
<1>4. PICK row \in ResourceRow : row = [status |-> status, durationSeconds |-> length]
  BY DEF ResourceRow
<1>5. PICK r : r = [Found("resourceSave", row) EXCEPT !.video = v]
  OBVIOUS
<1>6. /\ r = [pc |-> "resourceSave", course |-> Null, module |-> Null, lesson |-> Null, video |-> v, row |-> row,
              found |-> Null, plan |-> Null, own |-> NoRows, replace |-> FALSE, refresh |-> FALSE, read |-> {}]
      /\ r.course = Null /\ r.module = Null /\ r.lesson = Null /\ r.video = v /\ r.found = Null /\ r.plan = Null
      /\ r.replace = FALSE /\ r.refresh = FALSE
  BY <1>5 DEF Found, NoAuthoring
<1>7. r \in Authoring /\ IsFiniteSet(r.read) /\ r.own = NoRows /\ r.pc = "resourceSave" /\ r.row = row
  BY <1>6, FoundTyped
<1>8. AuthoringOf(r)
  BY <1>6, <1>7 DEF AuthoringOf, PlanSteps
<1> QED BY <1>1, <1>3, <1>4, <1>5, <1>7, <1>8, BeginStep

\* The steps that change no course, module or lesson, and leave no course behind.
LEMMA ResourceSaveStep ==
    ASSUME Stocked, NEW p \in Proc, ResourceSave(p)
    PROVE  Stocked'
<1>1. PICK row : row = author[p].row
  OBVIOUS
<1>2. /\ author[p].pc = "resourceSave"
      /\ resource' = [resource EXCEPT ![author[p].video] = row]
      /\ IF row.status = "ready" /\ row.durationSeconds > 0 THEN AuthorTo(p, "linkedFind") ELSE AuthorEnd(p)
      /\ UNCHANGED <<course, module, lesson, taken, made, drifted>>
  BY <1>1 DEF ResourceSave
<1>3. /\ author \in [Proc -> Authoring] /\ author[p] \in Authoring /\ AuthoringOf(author[p])
      /\ resource \in [Resource -> {Null} \cup ResourceRow]
  BY StockedIs
<1>4. row \in ResourceRow /\ author[p].video \in Resource /\ row # Null
  BY <1>1, <1>2, <1>3, CatalogNullAssumption DEF AuthoringOf, PlanSteps
<1>5. resource' \in [Resource -> {Null} \cup ResourceRow] /\ \A u \in Resource : resource[u] # Null => resource'[u] # Null
  BY <1>2, <1>3, <1>4
<1>6. \A c : ~RefreshOf(author[p], c)
  BY <1>2 DEF RefreshOf
<1>7. CASE row.status = "ready" /\ row.durationSeconds > 0
  <2>1. PICK r : r = [author[p] EXCEPT !.pc = "linkedFind"]
    OBVIOUS
  <2>2. r \in Authoring
    BY <1>3, <2>1 DEF Authoring
  <2>3. AuthoringOf(r)
    BY <1>1, <1>2, <1>3, <1>4, <2>1 DEF AuthoringOf, PlanSteps, Authoring
  <2>4. author' = [author EXCEPT ![p] = r]
    BY <1>2, <1>3, <1>7, <2>1 DEF AuthorTo
  <2> QED BY <1>2, <1>5, <1>6, <2>2, <2>3, <2>4, AuthorQuiet
<1>8. CASE ~(row.status = "ready" /\ row.durationSeconds > 0)
  <2>1. author' = [author EXCEPT ![p] = NoAuthoring]
    BY <1>2, <1>8 DEF AuthorEnd
  <2> QED BY <1>2, <1>5, <1>6, <2>1, NoAuthoringTyped, AuthorQuiet
<1> QED BY <1>7, <1>8

LEMMA LinkedFindStep ==
    ASSUME Stocked, NEW p \in Proc, LinkedFind(p)
    PROVE  Stocked'
<1>1. PICK minutes : minutes = (author[p].row.durationSeconds + 59) \div 60
  OBVIOUS
<1>2. PICK linked : linked = {l \in Lesson : lesson[l] # Null /\ lesson[l].video = author[p].video}
  OBVIOUS
<1>3. /\ author[p].pc = "linkedFind"
      /\ IF linked = {} THEN AuthorEnd(p)
         ELSE \E l \in linked :
                  author' = [author EXCEPT ![p] =
                     IF lesson[l].durationMinutes = minutes
                     THEN [[NoAuthoring EXCEPT !.module = lesson[l].moduleId] EXCEPT !.pc = "statsModule"]
                     ELSE [[NoAuthoring EXCEPT !.module = lesson[l].moduleId] EXCEPT !.pc = "lessonSave", !.lesson = l, !.refresh = TRUE,
                                       !.row = [lesson[l] EXCEPT !.durationMinutes = minutes]]]
      /\ UNCHANGED <<rows, made, drifted>>
  BY <1>1, <1>2 DEF LinkedFind
<1>4. UNCHANGED <<course, module, lesson, resource, taken, drifted>>
  BY <1>3 DEF rows
<1>5. resource' \in [Resource -> {Null} \cup ResourceRow] /\ \A u \in Resource : resource[u] # Null => resource'[u] # Null
  BY <1>4, StockedIs
<1>6. \A c : ~RefreshOf(author[p], c)
  BY <1>3 DEF RefreshOf
<1>7. CASE linked = {}
  <2>1. author' = [author EXCEPT ![p] = NoAuthoring]
    BY <1>3, <1>7 DEF AuthorEnd
  <2> QED BY <1>4, <1>5, <1>6, <2>1, NoAuthoringTyped, AuthorQuiet
<1>8. ASSUME NEW l \in linked,
             author' = [author EXCEPT ![p] =
                     IF lesson[l].durationMinutes = minutes
                     THEN [[NoAuthoring EXCEPT !.module = lesson[l].moduleId] EXCEPT !.pc = "statsModule"]
                     ELSE [[NoAuthoring EXCEPT !.module = lesson[l].moduleId] EXCEPT !.pc = "lessonSave", !.lesson = l, !.refresh = TRUE,
                                       !.row = [lesson[l] EXCEPT !.durationMinutes = minutes]]]
      PROVE  Stocked'
  <2>1. l \in Lesson /\ lesson[l] # Null
    BY <1>2
  <2>2. PICK m \in Module : m = lesson[l].moduleId
    BY <2>1, StockedIs
  <2>3. lesson[l] \in LessonRow /\ HasVideo(lesson[l]) /\ l \in taken
    BY <2>1, StockedIs
  <2>4. CASE lesson[l].durationMinutes = minutes
    <3>1. PICK r : r = [[NoAuthoring EXCEPT !.module = m] EXCEPT !.pc = "statsModule"]
      OBVIOUS
    <3>2. /\ r = [pc |-> "statsModule", course |-> Null, module |-> m, lesson |-> Null, video |-> Null, row |-> Null,
                  found |-> Null, plan |-> Null, own |-> NoRows, replace |-> FALSE, refresh |-> FALSE, read |-> {}]
          /\ r.course = Null /\ r.module = m /\ r.lesson = Null /\ r.video = Null /\ r.found = Null /\ r.plan = Null
          /\ r.replace = FALSE /\ r.refresh = FALSE
      BY <3>1 DEF NoAuthoring
    <3>3. r \in Authoring /\ IsFiniteSet(r.read) /\ r.own = NoRows /\ r.pc = "statsModule"
      BY <3>2, FoundTyped
    <3>4. AuthoringOf(r)
      BY <3>2, <3>3 DEF AuthoringOf, PlanSteps
    <3>5. author' = [author EXCEPT ![p] = r]
      BY <1>8, <2>2, <2>4, <3>1
    <3> QED BY <1>4, <1>5, <1>6, <3>3, <3>4, <3>5, AuthorQuiet
  <2>5. CASE lesson[l].durationMinutes # minutes
    <3>1. PICK row : row = [lesson[l] EXCEPT !.durationMinutes = minutes]
      OBVIOUS
    <3>2. minutes \in Nat
      <4>1. author[p].row \in ResourceRow
        BY <1>3, StockedIs DEF AuthoringOf, PlanSteps
      <4>2. PICK seconds \in Nat : seconds = author[p].row.durationSeconds
        BY <4>1 DEF ResourceRow
      <4>3. (seconds + 59) \div 60 \in Nat
        OBVIOUS
      <4> QED BY <1>1, <4>2, <4>3
    <3>3. row \in LessonRow /\ HasVideo(row)
      BY <2>3, <3>1, <3>2 DEF LessonRow, HasVideo
    <3>4. PICK r : r = [[NoAuthoring EXCEPT !.module = m] EXCEPT !.pc = "lessonSave", !.lesson = l, !.refresh = TRUE, !.row = row]
      OBVIOUS
    <3>5. /\ r = [pc |-> "lessonSave", course |-> Null, module |-> m, lesson |-> l, video |-> Null, row |-> row,
                  found |-> Null, plan |-> Null, own |-> NoRows, replace |-> FALSE, refresh |-> TRUE, read |-> {}]
          /\ r.course = Null /\ r.module = m /\ r.lesson = l /\ r.video = Null /\ r.found = Null /\ r.plan = Null
          /\ r.replace = FALSE /\ r.refresh = TRUE
      BY <3>4 DEF NoAuthoring
    <3>6. r \in Authoring /\ IsFiniteSet(r.read) /\ r.own = NoRows /\ r.pc = "lessonSave" /\ r.row = row
      <4>1. row \in {Null} \cup CourseRow \cup Course \cup LessonRow \cup ResourceRow
        BY <3>3
      <4> QED BY <2>1, <3>5, <4>1, FoundTyped
    <3>7. AuthoringOf(r)
      <4>1. l \in taken /\ l \in Lesson
        BY <2>1, <2>3
      <4> QED BY <3>3, <3>5, <3>6, <4>1 DEF AuthoringOf, PlanSteps
    <3>8. author' = [author EXCEPT ![p] = r]
      BY <1>8, <2>2, <2>5, <3>1, <3>4
    <3> QED BY <1>4, <1>5, <1>6, <3>6, <3>7, <3>8, AuthorQuiet
  <2> QED BY <2>4, <2>5
<1> QED BY <1>3, <1>7, <1>8

LEMMA StatsModuleStep ==
    ASSUME Stocked, NEW p \in Proc, StatsModule(p)
    PROVE  Stocked'
<1>1. PICK m : m = author[p].module
  OBVIOUS
<1>2. /\ author[p].pc = "statsModule"
      /\ IF module[m] = Null THEN AuthorEnd(p) ELSE author' = [author EXCEPT ![p].pc = "statsLessons", ![p].course = module[m]]
      /\ UNCHANGED <<course, module, lesson, resource, taken, drifted>>
  BY <1>1 DEF StatsModule, rows
<1>3. resource' \in [Resource -> {Null} \cup ResourceRow] /\ \A u \in Resource : resource[u] # Null => resource'[u] # Null
  BY <1>2, StockedIs
<1>4. /\ author \in [Proc -> Authoring] /\ author[p] \in Authoring /\ AuthoringOf(author[p])
      /\ m \in Module /\ \A c \in Course : c # Null
  BY <1>1, <1>2, StockedIs
<1>5. \A c : RefreshOf(author[p], c) => c = module[m]
  BY <1>1, <1>2 DEF RefreshOf
<1>6. CASE module[m] = Null
  <2>1. author' = [author EXCEPT ![p] = NoAuthoring]
    BY <1>2, <1>6 DEF AuthorEnd
  <2> QED BY <1>2, <1>3, <1>4, <1>5, <1>6, <2>1, NoAuthoringTyped, AuthorQuiet
<1>7. CASE module[m] # Null
  <2>1. PICK c \in Course : c = module[m] /\ c \in taken
    BY <1>4, <1>7, StockedIs
  <2>2. PICK r : r = [author[p] EXCEPT !.pc = "statsLessons", !.course = c]
    OBVIOUS
  <2>3. r \in Authoring /\ r.pc = "statsLessons" /\ r.course = c /\ r.read = author[p].read /\ r.own = author[p].own
    BY <1>4, <2>2 DEF Authoring
  <2>4. AuthoringOf(r)
    <3>1. IsFiniteSet(author[p].read) /\ author[p].own = NoRows
      BY <1>2, <1>4 DEF AuthoringOf, PlanSteps
    <3> QED BY <2>1, <2>3, <3>1 DEF AuthoringOf, PlanSteps
  <2>5. author' = [author EXCEPT ![p] = r]
    BY <1>2, <1>4, <1>7, <2>1, <2>2
  <2>6. \A d \in Course : course[d] # Null /\ RefreshOf(author[p], d) => RefreshOf(r, d)
    BY <1>5, <2>1, <2>3 DEF RefreshOf
  <2> QED BY <1>2, <1>3, <2>3, <2>4, <2>5, <2>6, AuthorQuiet
<1> QED BY <1>6, <1>7

LEMMA StatsLessonsStep ==
    ASSUME Stocked, NEW p \in Proc, StatsLessons(p)
    PROVE  Stocked'
<1>1. PICK c : c = author[p].course
  OBVIOUS
<1>2. PICK read : read = LessonsOf(c, module, lesson)
  OBVIOUS
<1>3. /\ author[p].pc = "statsLessons"
      /\ author' = [author EXCEPT ![p].pc = "statsCourse", ![p].read = read]
      /\ UNCHANGED <<course, module, lesson, resource, taken, drifted>>
  BY <1>1, <1>2 DEF StatsLessons, rows
<1>4. resource' \in [Resource -> {Null} \cup ResourceRow] /\ \A u \in Resource : resource[u] # Null => resource'[u] # Null
  BY <1>3, StockedIs
<1>5. author \in [Proc -> Authoring] /\ author[p] \in Authoring /\ AuthoringOf(author[p]) /\ lesson \in Lessons
  BY StockedIs
<1>6. IsFiniteSet(read) /\ read \in SUBSET (Lesson \X Nat)
  BY <1>2, <1>5, LessonsCount
<1>7. PICK r : r = [author[p] EXCEPT !.pc = "statsCourse", !.read = read]
  OBVIOUS
<1>8. r \in Authoring /\ r.pc = "statsCourse" /\ r.course = c /\ r.read = read /\ r.own = author[p].own
  <2>1. PICK T : T = SUBSET (Lesson \X Nat)
    OBVIOUS
  <2>2. read \in T
    BY <1>6, <2>1
  <2>3. PICK a \in Authoring : a = author[p]
    BY <1>5
  <2>4. r = [pc |-> "statsCourse", course |-> a.course, module |-> a.module, lesson |-> a.lesson, video |-> a.video,
             row |-> a.row, found |-> a.found, plan |-> a.plan, own |-> a.own, replace |-> a.replace, refresh |-> a.refresh, read |-> read]
    BY <1>7, <2>3 DEF Authoring
  <2>5. /\ a.course \in {Null} \cup Course /\ a.module \in {Null} \cup Module /\ a.lesson \in {Null} \cup Lesson
        /\ a.video \in {Null} \cup Resource /\ a.row \in {Null} \cup CourseRow \cup Course \cup LessonRow \cup ResourceRow
        /\ a.found \in {Null} \cup [module : Modules, lesson : Lessons] /\ a.plan \in {Null, <<>>} \cup Plan
        /\ a.own \in [course : BOOLEAN, module : SUBSET Module, lesson : SUBSET Lesson]
        /\ a.replace \in BOOLEAN /\ a.refresh \in BOOLEAN
    BY DEF Authoring
  <2>6. r \in Authoring
    BY <2>1, <2>2, <2>4, <2>5 DEF Authoring
  <2> QED BY <1>1, <2>3, <2>4, <2>6
<1>9. AuthoringOf(r)
  BY <1>1, <1>3, <1>5, <1>6, <1>8 DEF AuthoringOf, PlanSteps
<1>10. author' = [author EXCEPT ![p] = r]
  BY <1>3, <1>5, <1>7
<1>11. \A d \in Course : course[d] # Null /\ RefreshOf(author[p], d) => RefreshOf(r, d)
  BY <1>1, <1>3, <1>8 DEF RefreshOf
<1> QED BY <1>3, <1>4, <1>8, <1>9, <1>10, <1>11, AuthorQuiet

LEMMA StatsCourseStep ==
    ASSUME Stocked, NEW p \in Proc, StatsCourse(p)
    PROVE  Stocked'
<1>1. PICK c : c = author[p].course
  OBVIOUS
<1>2. /\ author[p].pc = "statsCourse"
      /\ IF course[c] = Null THEN AuthorEnd(p) ELSE AuthorTo(p, "statsSave")
      /\ UNCHANGED <<course, module, lesson, resource, taken, drifted>>
  BY <1>1 DEF StatsCourse, rows
<1>3. resource' \in [Resource -> {Null} \cup ResourceRow] /\ \A u \in Resource : resource[u] # Null => resource'[u] # Null
  BY <1>2, StockedIs
<1>4. author \in [Proc -> Authoring] /\ author[p] \in Authoring /\ AuthoringOf(author[p])
  BY StockedIs
<1>5. \A d : RefreshOf(author[p], d) => d = c
  BY <1>1, <1>2 DEF RefreshOf
<1>6. CASE course[c] = Null
  <2>1. author' = [author EXCEPT ![p] = NoAuthoring]
    BY <1>2, <1>6 DEF AuthorEnd
  <2> QED BY <1>2, <1>3, <1>5, <1>6, <2>1, NoAuthoringTyped, AuthorQuiet
<1>7. CASE course[c] # Null
  <2>1. PICK r : r = [author[p] EXCEPT !.pc = "statsSave"]
    OBVIOUS
  <2>2. r \in Authoring /\ r.pc = "statsSave" /\ r.course = c /\ r.read = author[p].read /\ r.own = author[p].own
    BY <1>1, <1>4, <2>1 DEF Authoring
  <2>3. AuthoringOf(r)
    BY <1>1, <1>2, <1>4, <2>2 DEF AuthoringOf, PlanSteps
  <2>4. author' = [author EXCEPT ![p] = r]
    BY <1>2, <1>4, <1>7, <2>1 DEF AuthorTo
  <2>5. \A d \in Course : course[d] # Null /\ RefreshOf(author[p], d) => RefreshOf(r, d)
    BY <1>5, <2>2 DEF RefreshOf
  <2> QED BY <1>2, <1>3, <2>2, <2>3, <2>4, <2>5, AuthorQuiet
<1> QED BY <1>6, <1>7

\* What is refreshed by another request than p goes on while the modules stay.
LEMMA StatsSaveStep ==
    ASSUME Stocked, NEW p \in Proc, StatsSave(p)
    PROVE  Stocked'
<1>1. PICK c : c = author[p].course
  OBVIOUS
<1>2. PICK read : read = author[p].read
  OBVIOUS
<1>3. /\ author[p].pc = "statsSave"
      /\ course' = [course EXCEPT ![c] = Stats(read)]
      /\ drifted' = IF read = LessonsOf(c, module, lesson) THEN drifted \ {c} ELSE drifted \cup {c}
      /\ author' = [author EXCEPT ![p] = NoAuthoring]
      /\ UNCHANGED <<module, lesson, resource, taken>>
  BY <1>1, <1>2 DEF StatsSave, AuthorEnd
<1>4. /\ author \in [Proc -> Authoring] /\ author[p] \in Authoring /\ AuthoringOf(author[p]) /\ lesson \in Lessons
      /\ course \in [Course -> {Null} \cup CourseRow] /\ module \in Modules
      /\ taken \subseteq Course \cup Module \cup Lesson /\ drifted \subseteq Course
  BY StockedIs
<1>5. c \in Course /\ c \in taken /\ IsFiniteSet(read) /\ \A x \in read : x[2] \in Nat
  <2>1. c \in Course /\ IsFiniteSet(read) /\ (c # Null => c \in taken)
    BY <1>1, <1>2, <1>3, <1>4 DEF AuthoringOf, PlanSteps
  <2>2. read \subseteq Lesson \X Nat
    BY <1>2, <1>4 DEF Authoring
  <2> QED BY <2>1, <2>2, CatalogAssumption
<1>6. Stats(read) \in CourseRow
  BY <1>5, StatsType
<1>7. /\ course' \in [Course -> {Null} \cup CourseRow] /\ course'[c] = Stats(read)
      /\ \A d \in Course \ {c} : course'[d] = course[d]
  BY <1>3, <1>4, <1>5, <1>6
<1>8. Stats(read) # Null
  BY <1>6, CatalogNullAssumption
<1>9. ASSUME NEW d \in Course
      PROVE  MatchOf(d)'
  <2>1. CASE d = c
    <3>1. drifted' = drifted \cup {c} \/ read = LessonsOf(c, module, lesson)'
      BY <1>3 DEF LessonsOf
    <3> QED BY <1>7, <2>1, <3>1 DEF MatchOf
  <2>2. CASE d # c
    <3>1. MatchOf(d) /\ course'[d] = course[d] /\ (d \notin drifted' => d \notin drifted)
      BY <1>3, <1>7, <2>2, StockedIs
    <3>2. LessonsOf(d, module, lesson)' = LessonsOf(d, module, lesson)
      BY <1>3 DEF LessonsOf
    <3>3. ~RefreshOf(author[p], d)
      BY <1>1, <1>3, <2>2 DEF RefreshOf
    <3>4. \A q \in Proc \ {p} : author'[q] = author[q]
      BY <1>3, <1>4
    <3>5. Refreshing(d) => Refreshing(d)'
      BY <1>3, <3>3, <3>4, RefreshGoesOn
    <3> QED BY <3>1, <3>2, <3>5, MatchStays
  <2> QED BY <2>1, <2>2
<1>10. \A m \in Module : module'[m] # Null => m \in taken' /\ course'[module'[m]] # Null
  BY <1>3, <1>5, <1>7, <1>8, StockedIs
<1>11. \A l \in Lesson : lesson'[l] # Null => l \in taken' /\ module'[lesson'[l].moduleId] # Null /\ HasVideo(lesson'[l])
  BY <1>3, StockedIs
<1>12. \A d \in Course : course'[d] # Null => d \in taken'
  BY <1>3, <1>5, <1>7, StockedIs
<1>13. drifted' \subseteq Course
  BY <1>3, <1>4, <1>5
<1> QED BY <1>3, <1>4, <1>7, <1>9, <1>10, <1>11, <1>12, <1>13, NoAuthoringTyped, AuthorLoud

LEMMA CourseSaveStep ==
    ASSUME Stocked, NEW p \in Proc, CourseSave(p)
    PROVE  Stocked'
<1>1. PICK c : c = author[p].course
  OBVIOUS
<1>2. PICK row : row = author[p].row
  OBVIOUS
<1>3. /\ author[p].pc = "courseSave"
      /\ course' = [course EXCEPT ![c] = row]
      /\ drifted' = IF course[c] = row THEN drifted ELSE drifted \cup {c}
      /\ author' = [author EXCEPT ![p] = NoAuthoring]
      /\ UNCHANGED <<module, lesson, resource, taken>>
  BY <1>1, <1>2 DEF CourseSave, AuthorEnd
<1>4. /\ author \in [Proc -> Authoring] /\ author[p] \in Authoring /\ AuthoringOf(author[p]) /\ lesson \in Lessons
      /\ course \in [Course -> {Null} \cup CourseRow] /\ module \in Modules
      /\ taken \subseteq Course \cup Module \cup Lesson /\ drifted \subseteq Course
  BY StockedIs
<1>5. c \in Course /\ c \in taken /\ row \in CourseRow /\ row # Null
  <2>1. c \in Course /\ row \in CourseRow /\ (c # Null => c \in taken)
    BY <1>1, <1>2, <1>3, <1>4 DEF AuthoringOf, PlanSteps
  <2> QED BY <2>1, CatalogAssumption, CatalogNullAssumption
<1>6. /\ course' \in [Course -> {Null} \cup CourseRow] /\ course'[c] = row
      /\ \A d \in Course \ {c} : course'[d] = course[d]
  BY <1>3, <1>4, <1>5
<1>7. ASSUME NEW d \in Course
      PROVE  MatchOf(d)'
  <2>1. CASE d \in drifted'
    BY <2>1 DEF MatchOf
  <2>2. CASE d \notin drifted'
    <3>1. MatchOf(d) /\ course'[d] = course[d] /\ d \notin drifted
      BY <1>3, <1>6, <2>2, StockedIs
    <3>2. LessonsOf(d, module, lesson)' = LessonsOf(d, module, lesson)
      BY <1>3 DEF LessonsOf
    <3>3. ~RefreshOf(author[p], d)
      BY <1>3 DEF RefreshOf
    <3>4. \A q \in Proc \ {p} : author'[q] = author[q]
      BY <1>3, <1>4
    <3>5. Refreshing(d) => Refreshing(d)'
      BY <1>3, <3>3, <3>4, RefreshGoesOn
    <3> QED BY <3>1, <3>2, <3>5, MatchStays
  <2> QED BY <2>1, <2>2
<1>8. \A m \in Module : module'[m] # Null => m \in taken' /\ course'[module'[m]] # Null
  BY <1>3, <1>5, <1>6, StockedIs
<1>9. \A l \in Lesson : lesson'[l] # Null => l \in taken' /\ module'[lesson'[l].moduleId] # Null /\ HasVideo(lesson'[l])
  BY <1>3, StockedIs
<1>10. \A d \in Course : course'[d] # Null => d \in taken'
  BY <1>3, <1>5, <1>6, StockedIs
<1>11. drifted' \subseteq Course
  BY <1>3, <1>4, <1>5
<1> QED BY <1>3, <1>4, <1>6, <1>7, <1>8, <1>9, <1>10, <1>11, NoAuthoringTyped, AuthorLoud

LEMMA AuthorHaltStep ==
    ASSUME Stocked, NEW p \in Proc, AuthorHalt(p)
    PROVE  Stocked'
<1>1. /\ author' = [author EXCEPT ![p] = NoAuthoring]
      /\ UNCHANGED <<course, module, lesson, resource, taken>>
      /\ LeftBehind(Null)
  BY DEF AuthorHalt, AuthorEnd, rows
<1>2. /\ lesson \in Lessons
      /\ course \in [Course -> {Null} \cup CourseRow] /\ module \in Modules
      /\ taken \subseteq Course \cup Module \cup Lesson /\ drifted \subseteq Course
  BY StockedIs
<1>3. drifted' \subseteq Course
  BY <1>1, <1>2 DEF LeftBehind, Changed, Dropped
<1>4. \A c \in Course : MatchOf(c)'
  BY <1>1, StockedIs, NotLeftBehind
<1>5. \A l \in Lesson : lesson'[l] # Null => l \in taken' /\ module'[lesson'[l].moduleId] # Null /\ HasVideo(lesson'[l])
  BY <1>1, StockedIs
<1>6. \A m \in Module : module'[m] # Null => m \in taken' /\ course'[module'[m]] # Null
  BY <1>1, StockedIs
<1>7. \A d \in Course : course'[d] # Null => d \in taken'
  BY <1>1, StockedIs
<1> QED BY <1>1, <1>2, <1>3, <1>4, <1>5, <1>6, <1>7, NoAuthoringTyped, AuthorLoud

\* Modules that are taken out with their lessons leave the others as they are.
LEMMA WithoutModulesIs ==
    ASSUME Stocked, NEW p \in Proc, NEW removed \in SUBSET Module, NEW db,
           db = WithoutModules([module |-> module, lesson |-> lesson], removed)
    PROVE  /\ db.module \in Modules /\ db.lesson \in Lessons
           /\ \A m \in Module : db.module[m] = IF m \in removed THEN Null ELSE module[m]
           /\ \A l \in Lesson : db.lesson[l] # Null =>
                 db.lesson[l] = lesson[l] /\ lesson[l].moduleId \in Module \ removed /\ db.module[lesson[l].moduleId] # Null
           /\ \A l \in Lesson : lesson[l] # Null /\ lesson[l].moduleId \notin removed => db.lesson[l] = lesson[l]
<1>1. module \in Modules /\ lesson \in Lessons
  BY StockedIs
<1>2. /\ db.module = [m \in Module |-> IF m \in removed THEN Null ELSE module[m]]
      /\ db.lesson = [l \in Lesson |-> IF lesson[l] # Null /\ lesson[l].moduleId \in removed THEN Null ELSE lesson[l]]
  BY DEF WithoutModules
<1>3. db.module \in Modules /\ db.lesson \in Lessons
  BY <1>1, <1>2 DEF Modules, Lessons
<1>4. \A m \in Module : db.module[m] = IF m \in removed THEN Null ELSE module[m]
  BY <1>2
<1>5. ASSUME NEW l \in Lesson, db.lesson[l] # Null
      PROVE  db.lesson[l] = lesson[l] /\ lesson[l].moduleId \in Module \ removed /\ db.module[lesson[l].moduleId] # Null
  <2>1. db.lesson[l] = lesson[l] /\ lesson[l] # Null /\ lesson[l].moduleId \notin removed
    BY <1>2, <1>5
  <2>2. lesson[l].moduleId \in Module /\ module[lesson[l].moduleId] # Null
    BY <2>1, StockedIs
  <2> QED BY <1>4, <2>1, <2>2
<1>6. \A l \in Lesson : lesson[l] # Null /\ lesson[l].moduleId \notin removed => db.lesson[l] = lesson[l]
  BY <1>2
<1> QED BY <1>3, <1>4, <1>5, <1>6

LEMMA CourseRemoveStep ==
    ASSUME Stocked, NEW p \in Proc, CourseRemove(p)
    PROVE  Stocked'
<1>1. PICK c : c = author[p].course
  OBVIOUS
<1>2. PICK removed \in SUBSET Module : removed = {m \in Module : module[m] = c}
  OBVIOUS
<1>3. PICK db : db = WithoutModules([module |-> module, lesson |-> lesson], removed)
  OBVIOUS
<1>4. /\ author[p].pc = "courseRemove"
      /\ course' = [course EXCEPT ![c] = Null]
      /\ module' = db.module /\ lesson' = db.lesson
      /\ author' = [author EXCEPT ![p] = NoAuthoring]
      /\ UNCHANGED <<resource, taken, drifted>>
  BY <1>1, <1>2, <1>3 DEF CourseRemove, AuthorEnd
<1>5. /\ author \in [Proc -> Authoring] /\ author[p] \in Authoring /\ AuthoringOf(author[p]) /\ lesson \in Lessons
      /\ course \in [Course -> {Null} \cup CourseRow] /\ module \in Modules
      /\ taken \subseteq Course \cup Module \cup Lesson /\ drifted \subseteq Course
  BY StockedIs
<1>6. c \in Course
  BY <1>1, <1>4, <1>5 DEF AuthoringOf, PlanSteps
<1>7. /\ module' \in Modules /\ lesson' \in Lessons
      /\ \A m \in Module : module'[m] = IF m \in removed THEN Null ELSE module[m]
      /\ \A l \in Lesson : lesson'[l] # Null =>
            lesson'[l] = lesson[l] /\ lesson[l].moduleId \in Module \ removed /\ module'[lesson[l].moduleId] # Null
      /\ \A l \in Lesson : lesson[l] # Null /\ lesson[l].moduleId \notin removed => lesson'[l] = lesson[l]
  BY <1>3, <1>4, WithoutModulesIs
<1>8. /\ course' \in [Course -> {Null} \cup CourseRow] /\ course'[c] = Null
      /\ \A d \in Course \ {c} : course'[d] = course[d]
  BY <1>4, <1>5, <1>6
<1>9. ASSUME NEW d \in Course
      PROVE  MatchOf(d)'
  <2>1. CASE d = c
    BY <1>8, <2>1 DEF MatchOf
  <2>2. CASE d # c
    <3>1. MatchOf(d) /\ course'[d] = course[d] /\ d # Null
      BY <1>8, <2>2, StockedIs
    <3>2. PICK before : before = {k \in Lesson : lesson[k] # Null /\ module[lesson[k].moduleId] = d}
      OBVIOUS
    <3>3. PICK after : after = {k \in Lesson : lesson'[k] # Null /\ module'[lesson'[k].moduleId] = d}
      OBVIOUS
    <3>4. \A k \in before : k \in Lesson /\ lesson'[k] = lesson[k] /\ k \in after
      <4> SUFFICES ASSUME NEW k \in before PROVE k \in Lesson /\ lesson'[k] = lesson[k] /\ k \in after
        OBVIOUS
      <4>1. k \in Lesson /\ lesson[k] # Null /\ module[lesson[k].moduleId] = d
        BY <3>2
      <4>2. lesson[k].moduleId \in Module /\ lesson[k].moduleId \notin removed
        BY <1>2, <2>2, <4>1, StockedIs
      <4> QED BY <1>7, <3>3, <4>1, <4>2
    <3>5. \A k \in after : k \in before
      <4> SUFFICES ASSUME NEW k \in after PROVE k \in before
        OBVIOUS
      <4>1. k \in Lesson /\ lesson'[k] # Null /\ module'[lesson'[k].moduleId] = d
        BY <3>3
      <4>2. lesson'[k] = lesson[k] /\ lesson[k].moduleId \in Module \ removed
        BY <1>7, <4>1
      <4> QED BY <1>7, <3>2, <4>1, <4>2
    <3>6. after = before
      BY <3>4, <3>5
    <3>7. LessonsOf(d, module, lesson) = {<<l, lesson[l].durationMinutes>> : l \in before}
      BY <3>2 DEF LessonsOf
    <3>8. LessonsOf(d, module, lesson)' = {<<l, lesson'[l].durationMinutes>> : l \in after}
      BY <3>3 DEF LessonsOf
    <3>9. LessonsOf(d, module, lesson)' = LessonsOf(d, module, lesson)
      BY <3>4, <3>6, <3>7, <3>8
    <3>10. ~RefreshOf(author[p], d)
      BY <1>4 DEF RefreshOf
    <3>11. \A q \in Proc \ {p} : author'[q] = author[q]
      BY <1>4, <1>5
    <3>12. \A q \in Proc : author[q].pc = "statsModule" /\ module[author[q].module] = d => module'[author[q].module] = d
      BY <1>2, <1>7, <2>2, StockedIs
    <3>13. Refreshing(d) => Refreshing(d)'
      BY <3>10, <3>11, <3>12, RefreshGoesOn
    <3> QED BY <1>4, <3>1, <3>9, <3>13, MatchStays
  <2> QED BY <2>1, <2>2
<1>10. \A m \in Module : module'[m] # Null => m \in taken' /\ course'[module'[m]] # Null
  BY <1>2, <1>4, <1>7, <1>8, StockedIs
<1>11. \A l \in Lesson : lesson'[l] # Null => l \in taken' /\ module'[lesson'[l].moduleId] # Null /\ HasVideo(lesson'[l])
  BY <1>4, <1>7, StockedIs
<1>12. \A d \in Course : course'[d] # Null => d \in taken'
  BY <1>4, <1>6, <1>8, StockedIs
<1> QED BY <1>4, <1>5, <1>7, <1>8, <1>9, <1>10, <1>11, <1>12, NoAuthoringTyped, AuthorLoud

LEMMA ModuleRemoveStep ==
    ASSUME Stocked, NEW p \in Proc, ModuleRemove(p)
    PROVE  Stocked'
<1>1. PICK removed : removed = {author[p].module}
  OBVIOUS
<1>2. PICK db : db = WithoutModules([module |-> module, lesson |-> lesson], removed)
  OBVIOUS
<1>3. /\ author[p].pc = "moduleRemove"
      /\ module' = db.module /\ lesson' = db.lesson
      /\ author' = [author EXCEPT ![p] = NoAuthoring]
      /\ UNCHANGED <<course, resource, taken>>
      /\ LeftBehind(Null)
  BY <1>1, <1>2 DEF ModuleRemove, AuthorEnd
<1>4. /\ author[p] \in Authoring /\ AuthoringOf(author[p])
      /\ course \in [Course -> {Null} \cup CourseRow]
      /\ taken \subseteq Course \cup Module \cup Lesson /\ drifted \subseteq Course
  BY StockedIs
<1>5. removed \in SUBSET Module
  BY <1>1, <1>3, <1>4 DEF AuthoringOf, PlanSteps
<1>6. /\ module' \in Modules /\ lesson' \in Lessons
      /\ \A m \in Module : module'[m] = IF m \in removed THEN Null ELSE module[m]
      /\ \A l \in Lesson : lesson'[l] # Null =>
            lesson'[l] = lesson[l] /\ lesson[l].moduleId \in Module \ removed /\ module'[lesson[l].moduleId] # Null
  BY <1>2, <1>3, <1>5, WithoutModulesIs
<1>7. drifted' \subseteq Course
  BY <1>3, <1>4 DEF LeftBehind, Changed, Dropped
<1>8. \A c \in Course : MatchOf(c)'
  BY <1>3, StockedIs, NotLeftBehind
<1>9. \A m \in Module : module'[m] # Null => m \in taken' /\ course'[module'[m]] # Null
  BY <1>3, <1>6, StockedIs
<1>10. \A l \in Lesson : lesson'[l] # Null => l \in taken' /\ module'[lesson'[l].moduleId] # Null /\ HasVideo(lesson'[l])
  BY <1>3, <1>6, StockedIs
<1>11. \A d \in Course : course'[d] # Null => d \in taken'
  BY <1>3, StockedIs
<1> QED BY <1>3, <1>4, <1>6, <1>7, <1>8, <1>9, <1>10, <1>11, NoAuthoringTyped, AuthorLoud

LEMMA ModuleInsertStep ==
    ASSUME Stocked, NEW p \in Proc, ModuleInsert(p)
    PROVE  Stocked'
<1>1. PICK c : c = author[p].course
  OBVIOUS
<1>2. /\ author[p].pc = "moduleInsert"
      /\ IF course[c] # Null
         THEN \E m \in Module \ taken : module' = [module EXCEPT ![m] = c] /\ taken' = taken \cup {m}
         ELSE UNCHANGED <<module, taken>>
      /\ author' = [author EXCEPT ![p] = NoAuthoring]
      /\ UNCHANGED <<course, lesson, resource, drifted>>
  BY <1>1 DEF ModuleInsert, AuthorEnd
<1>3. /\ author \in [Proc -> Authoring] /\ author[p] \in Authoring /\ AuthoringOf(author[p]) /\ lesson \in Lessons
      /\ course \in [Course -> {Null} \cup CourseRow] /\ module \in Modules
      /\ resource \in [Resource -> {Null} \cup ResourceRow]
      /\ taken \subseteq Course \cup Module \cup Lesson /\ drifted \subseteq Course
  BY StockedIs
<1>4. c \in Course
  BY <1>1, <1>2, <1>3 DEF AuthoringOf, PlanSteps
<1>5. \A d : ~RefreshOf(author[p], d)
  BY <1>2 DEF RefreshOf
<1>6. CASE course[c] = Null
  BY <1>2, <1>3, <1>5, <1>6, NoAuthoringTyped, AuthorQuiet
<1>7. ASSUME course[c] # Null, NEW m \in Module \ taken, module' = [module EXCEPT ![m] = c], taken' = taken \cup {m}
      PROVE  Stocked'
  <2>1. module[m] = Null
    BY StockedIs
  <2>2. module' \in Modules /\ module'[m] = c /\ \A k \in Module \ {m} : module'[k] = module[k]
    BY <1>3, <1>4, <1>7 DEF Modules
  <2>3. \A l \in Lesson : lesson[l] # Null => lesson[l].moduleId \in Module \ {m} /\ module'[lesson[l].moduleId] = module[lesson[l].moduleId]
    BY <2>1, <2>2, StockedIs
  <2>4. ASSUME NEW d \in Course
        PROVE  MatchOf(d)'
    <3>1. MatchOf(d) /\ d # Null
      BY StockedIs
    <3>2. {k \in Lesson : lesson'[k] # Null /\ module'[lesson'[k].moduleId] = d} = {k \in Lesson : lesson[k] # Null /\ module[lesson[k].moduleId] = d}
      BY <1>2, <2>3
    <3>3. LessonsOf(d, module, lesson)' = LessonsOf(d, module, lesson)
      BY <1>2, <3>2 DEF LessonsOf
    <3>4. \A q \in Proc \ {p} : author'[q] = author[q]
      BY <1>2, <1>3
    <3>5. \A q \in Proc : author[q].pc = "statsModule" /\ module[author[q].module] = d => module'[author[q].module] = d
      BY <2>1, <2>2, <3>1, StockedIs
    <3>6. Refreshing(d) => Refreshing(d)'
      BY <1>5, <3>4, <3>5, RefreshGoesOn
    <3> QED BY <1>2, <3>1, <3>3, <3>6, MatchStays
  <2>5. \A k \in Module : module'[k] # Null => k \in taken' /\ course'[module'[k]] # Null
    BY <1>2, <1>7, <2>2, StockedIs
  <2>6. \A l \in Lesson : lesson'[l] # Null => l \in taken' /\ module'[lesson'[l].moduleId] # Null /\ HasVideo(lesson'[l])
    BY <1>2, <1>7, <2>3, StockedIs
  <2>7. \A d \in Course : course'[d] # Null => d \in taken'
    BY <1>2, <1>7, StockedIs
  <2> QED BY <1>2, <1>3, <1>7, <2>2, <2>4, <2>5, <2>6, <2>7, NoAuthoringTyped, AuthorLoud
<1> QED BY <1>2, <1>6, <1>7

LEMMA ModuleSaveStep ==
    ASSUME Stocked, NEW p \in Proc, ModuleSave(p)
    PROVE  Stocked'
<1>1. PICK c : c = author[p].row
  OBVIOUS
<1>2. PICK m : m = author[p].module
  OBVIOUS
<1>3. /\ author[p].pc = "moduleSave"
      /\ module' = IF course[c] = Null THEN module ELSE [module EXCEPT ![m] = c]
      /\ author' = [author EXCEPT ![p] = NoAuthoring]
      /\ UNCHANGED <<course, lesson, resource, taken>>
      /\ LeftBehind(Null)
  BY <1>1, <1>2 DEF ModuleSave, AuthorEnd
<1>4. /\ author[p] \in Authoring /\ AuthoringOf(author[p])
      /\ course \in [Course -> {Null} \cup CourseRow] /\ module \in Modules /\ lesson \in Lessons
      /\ taken \subseteq Course \cup Module \cup Lesson /\ drifted \subseteq Course
  BY StockedIs
<1>5. c \in Course /\ m \in Module /\ m \in taken /\ c # Null
  BY <1>1, <1>2, <1>3, <1>4, CatalogAssumption DEF AuthoringOf, PlanSteps
<1>6. /\ module' \in Modules
      /\ \A k \in Module : module'[k] = module[k] \/ (k = m /\ module'[k] = c /\ course[c] # Null)
  BY <1>3, <1>4, <1>5 DEF Modules
<1>7. drifted' \subseteq Course
  BY <1>3, <1>4 DEF LeftBehind, Changed, Dropped
<1>8. \A d \in Course : MatchOf(d)'
  BY <1>3, StockedIs, NotLeftBehind
<1>9. \A k \in Module : module'[k] # Null => k \in taken' /\ course'[module'[k]] # Null
  BY <1>3, <1>5, <1>6, StockedIs
<1>10. \A l \in Lesson : lesson'[l] # Null => l \in taken' /\ module'[lesson'[l].moduleId] # Null /\ HasVideo(lesson'[l])
  BY <1>3, <1>5, <1>6, StockedIs
<1>11. \A d \in Course : course'[d] # Null => d \in taken'
  BY <1>3, StockedIs
<1> QED BY <1>3, <1>4, <1>6, <1>7, <1>8, <1>9, <1>10, <1>11, NoAuthoringTyped, AuthorLoud

\* A request whose course is refreshed next.
LEMMA RefreshTyped ==
    ASSUME NEW m \in Module, NEW r, r = [NoAuthoring EXCEPT !.pc = "statsModule", !.module = m]
    PROVE  r \in Authoring /\ AuthoringOf(r) /\ r.pc = "statsModule" /\ r.module = m
<1>1. /\ r = [pc |-> "statsModule", course |-> Null, module |-> m, lesson |-> Null, video |-> Null, row |-> Null,
              found |-> Null, plan |-> Null, own |-> NoRows, replace |-> FALSE, refresh |-> FALSE, read |-> {}]
      /\ r.course = Null /\ r.module = m /\ r.lesson = Null /\ r.video = Null /\ r.found = Null /\ r.plan = Null
      /\ r.replace = FALSE /\ r.refresh = FALSE
  BY DEF NoAuthoring
<1>2. r \in Authoring /\ IsFiniteSet(r.read) /\ r.own = NoRows /\ r.pc = "statsModule"
  BY <1>1, FoundTyped
<1> QED BY <1>1, <1>2 DEF AuthoringOf, PlanSteps

\* The course that is refreshed next need not match.
LEMMA RefreshNext ==
    ASSUME NEW p \in Proc, NEW m, NEW c, author'[p].pc = "statsModule", author'[p].module = m, module'[m] = c
    PROVE  MatchOf(c)'
<1>1. Refreshing(c)'
  BY DEF Refreshing
<1> QED BY <1>1 DEF MatchOf

LEMMA LessonInsertStep ==
    ASSUME Stocked, NEW p \in Proc, LessonInsert(p)
    PROVE  Stocked'
<1>1. PICK row : row = author[p].row
  OBVIOUS
<1>2. PICK m : m = author[p].module
  OBVIOUS
<1>3. PICK r : r = [NoAuthoring EXCEPT !.pc = "statsModule", !.module = m]
  OBVIOUS
<1>4. /\ author[p].pc = "lessonInsert"
      /\ IF module[m] # Null
         THEN \E l \in Lesson \ taken :
                lesson' = [lesson EXCEPT ![l] = row] /\ taken' = taken \cup {l} /\ author' = [author EXCEPT ![p] = r]
         ELSE UNCHANGED <<lesson, taken>> /\ author' = [author EXCEPT ![p] = NoAuthoring]
      /\ UNCHANGED <<course, module, resource, drifted>>
  BY <1>1, <1>2, <1>3 DEF LessonInsert, Refresh, AuthorEnd
<1>5. /\ author \in [Proc -> Authoring] /\ author[p] \in Authoring /\ AuthoringOf(author[p])
      /\ course \in [Course -> {Null} \cup CourseRow] /\ module \in Modules /\ lesson \in Lessons
      /\ resource \in [Resource -> {Null} \cup ResourceRow]
      /\ taken \subseteq Course \cup Module \cup Lesson /\ drifted \subseteq Course
  BY StockedIs
<1>6. row \in LessonRow /\ HasVideo(row) /\ m \in Module /\ row.moduleId = m
  BY <1>1, <1>2, <1>4, <1>5 DEF AuthoringOf, PlanSteps
<1>7. \A d : ~RefreshOf(author[p], d)
  BY <1>4 DEF RefreshOf
<1>8. CASE module[m] = Null
  BY <1>4, <1>5, <1>7, <1>8, NoAuthoringTyped, AuthorQuiet
<1>9. ASSUME module[m] # Null, NEW l \in Lesson \ taken,
             lesson' = [lesson EXCEPT ![l] = row], taken' = taken \cup {l}, author' = [author EXCEPT ![p] = r]
      PROVE  Stocked'
  <2>1. lesson[l] = Null
    BY StockedIs
  <2>2. lesson' \in Lessons /\ lesson'[l] = row /\ \A k \in Lesson \ {l} : lesson'[k] = lesson[k]
    BY <1>5, <1>6, <1>9 DEF Lessons
  <2>3. r \in Authoring /\ AuthoringOf(r) /\ r.pc = "statsModule" /\ r.module = m
    BY <1>3, <1>6, RefreshTyped
  <2>4. author'[p] = r /\ \A q \in Proc \ {p} : author'[q] = author[q]
    BY <1>5, <1>9
  <2>5. ASSUME NEW d \in Course
        PROVE  MatchOf(d)'
    <3>1. CASE d = module[m]
      BY <1>4, <2>3, <2>4, <3>1, RefreshNext
    <3>2. CASE d # module[m]
      <4>1. PICK K : K = {k \in Lesson : lesson[k] # Null /\ module[lesson[k].moduleId] = d}
        OBVIOUS
      <4>2. K = {k \in Lesson : lesson'[k] # Null /\ module'[lesson'[k].moduleId] = d}
        BY <1>4, <1>6, <2>1, <2>2, <3>2, <4>1
      <4>3. \A k \in K : lesson'[k] = lesson[k]
        BY <2>1, <2>2, <4>1
      <4>4. LessonsOf(d, module, lesson) = {<<k, lesson[k].durationMinutes>> : k \in K}
        BY <4>1 DEF LessonsOf
      <4>5. LessonsOf(d, module, lesson)' = {<<k, lesson'[k].durationMinutes>> : k \in K}
        BY <4>2 DEF LessonsOf
      <4>6. LessonsOf(d, module, lesson)' = LessonsOf(d, module, lesson)
        BY <4>3, <4>4, <4>5
      <4>7. Refreshing(d) => Refreshing(d)'
        BY <1>4, <1>7, <2>4, RefreshGoesOn
      <4>8. MatchOf(d)
        BY StockedIs
      <4> QED BY <1>4, <4>6, <4>7, <4>8, MatchStays
    <3> QED BY <3>1, <3>2
  <2>6. \A k \in Module : module'[k] # Null => k \in taken' /\ course'[module'[k]] # Null
    BY <1>4, <1>9, StockedIs
  <2>7. \A k \in Lesson : lesson'[k] # Null => k \in taken' /\ module'[lesson'[k].moduleId] # Null /\ HasVideo(lesson'[k])
    BY <1>4, <1>6, <1>9, <2>2, StockedIs
  <2>8. \A d \in Course : course'[d] # Null => d \in taken'
    BY <1>4, <1>9, StockedIs
  <2> QED BY <1>4, <1>5, <1>9, <2>2, <2>3, <2>5, <2>6, <2>7, <2>8, AuthorLoud
<1> QED BY <1>4, <1>8, <1>9

\* A lesson's row is written or removed; the course that is refreshed need not match, and
\* where nothing is written the refreshes go on.
LEMMA LessonWritten ==
    ASSUME Stocked, NEW p \in Proc, NEW r \in Authoring, author' = [author EXCEPT ![p] = r], AuthoringOf(r),
           UNCHANGED <<course, module, resource, taken>>, LeftBehind(Refreshed(p)), lesson' \in Lessons,
           \A l \in Lesson : lesson'[l] = lesson[l]
              \/ (lesson'[l] # Null => l \in taken /\ module[lesson'[l].moduleId] # Null /\ HasVideo(lesson'[l])),
           \/ Refreshed(p) = Null
           \/ r.pc = "statsModule" /\ r.module = author[p].module /\ author[p].refresh
           \/ lesson' = lesson /\ \A c : ~RefreshOf(author[p], c)
    PROVE  Stocked'
<1>1. /\ author \in [Proc -> Authoring]
      /\ course \in [Course -> {Null} \cup CourseRow] /\ module \in Modules
      /\ taken \subseteq Course \cup Module \cup Lesson /\ drifted \subseteq Course
  BY StockedIs
<1>2. author'[p] = r /\ \A q \in Proc \ {p} : author'[q] = author[q]
  BY <1>1
<1>3. drifted' \subseteq Course
  BY <1>1 DEF LeftBehind, Changed, Dropped
<1>4. ASSUME NEW c \in Course
      PROVE  MatchOf(c)'
  <2>1. MatchOf(c) /\ c # Null
    BY StockedIs
  <2>2. CASE c # Refreshed(p)
    BY <2>1, <2>2, NotLeftBehind
  <2>3. CASE c = Refreshed(p) /\ r.pc = "statsModule" /\ r.module = author[p].module /\ author[p].refresh
    <3>1. module'[r.module] = c
      BY <2>3 DEF Refreshed
    <3> QED BY <1>2, <2>3, <3>1, RefreshNext
  <2>4. CASE c = Refreshed(p) /\ lesson' = lesson /\ \A d : ~RefreshOf(author[p], d)
    <3>1. LessonsOf(c, module, lesson)' = LessonsOf(c, module, lesson)
      BY <2>4 DEF LessonsOf
    <3>2. Refreshing(c) => Refreshing(c)'
      BY <1>2, <2>4, RefreshGoesOn
    <3>3. c \notin drifted' => c \notin drifted
      BY DEF LeftBehind
    <3> QED BY <2>1, <3>1, <3>2, <3>3, MatchStays
  <2> QED BY <2>1, <2>2, <2>3, <2>4
<1>5. \A k \in Module : module'[k] # Null => k \in taken' /\ course'[module'[k]] # Null
  BY StockedIs
<1>6. \A l \in Lesson : lesson'[l] # Null => l \in taken' /\ module'[lesson'[l].moduleId] # Null /\ HasVideo(lesson'[l])
  BY StockedIs
<1>7. \A d \in Course : course'[d] # Null => d \in taken'
  BY StockedIs
<1> QED BY <1>1, <1>3, <1>4, <1>5, <1>6, <1>7, AuthorLoud

LEMMA LessonSaveStep ==
    ASSUME Stocked, NEW p \in Proc, LessonSave(p)
    PROVE  Stocked'
<1>1. PICK row : row = author[p].row
  OBVIOUS
<1>2. PICK l : l = author[p].lesson
  OBVIOUS
<1>3. PICK r : r = [NoAuthoring EXCEPT !.pc = "statsModule", !.module = author[p].module]
  OBVIOUS
<1>4. /\ author[p].pc = "lessonSave"
      /\ IF CanSaveLesson(l, row)
         THEN /\ lesson' = [lesson EXCEPT ![l] = row]
              /\ author' = [author EXCEPT ![p] = IF author[p].refresh THEN r ELSE NoAuthoring]
         ELSE lesson' = lesson /\ author' = [author EXCEPT ![p] = NoAuthoring]
      /\ UNCHANGED <<course, module, resource, taken>>
      /\ LeftBehind(Refreshed(p))
  BY <1>1, <1>2, <1>3 DEF LessonSave, Refresh, AuthorEnd
<1>5. author[p] \in Authoring /\ AuthoringOf(author[p]) /\ lesson \in Lessons
  BY StockedIs
<1>6. /\ row \in LessonRow /\ HasVideo(row) /\ l \in Lesson /\ l \in taken
      /\ author[p].refresh => author[p].module \in Module
  BY <1>1, <1>2, <1>4, <1>5 DEF AuthoringOf, PlanSteps
<1>7. \A c : ~RefreshOf(author[p], c)
  BY <1>4 DEF RefreshOf
<1>8. CASE ~CanSaveLesson(l, row)
  BY <1>4, <1>5, <1>7, <1>8, NoAuthoringTyped, LessonWritten
<1>9. CASE CanSaveLesson(l, row)
  <2>1. module[row.moduleId] # Null
    BY <1>9 DEF CanSaveLesson
  <2>2. lesson' \in Lessons /\ lesson'[l] = row /\ \A k \in Lesson \ {l} : lesson'[k] = lesson[k]
    BY <1>4, <1>5, <1>6, <1>9 DEF Lessons
  <2>3. CASE author[p].refresh
    <3>1. r \in Authoring /\ AuthoringOf(r) /\ r.pc = "statsModule" /\ r.module = author[p].module
      BY <1>3, <1>6, <2>3, RefreshTyped
    <3>2. author' = [author EXCEPT ![p] = r]
      BY <1>4, <1>9, <2>3
    <3> QED BY <1>4, <1>6, <2>1, <2>2, <2>3, <3>1, <3>2, LessonWritten
  <2>4. CASE ~author[p].refresh
    <3>1. author' = [author EXCEPT ![p] = NoAuthoring] /\ Refreshed(p) = Null
      BY <1>4, <1>9, <2>4 DEF Refreshed
    <3> QED BY <1>4, <1>6, <2>1, <2>2, <3>1, NoAuthoringTyped, LessonWritten
  <2> QED BY <2>3, <2>4
<1> QED BY <1>8, <1>9

LEMMA LessonRemoveStep ==
    ASSUME Stocked, NEW p \in Proc, LessonRemove(p)
    PROVE  Stocked'
<1>1. PICK l : l = author[p].lesson
  OBVIOUS
<1>2. PICK r : r = [NoAuthoring EXCEPT !.pc = "statsModule", !.module = author[p].module]
  OBVIOUS
<1>3. /\ author[p].pc = "lessonRemove"
      /\ lesson' = [lesson EXCEPT ![l] = Null]
      /\ author' = [author EXCEPT ![p] = r]
      /\ UNCHANGED <<course, module, resource, taken>>
      /\ LeftBehind(Refreshed(p))
  BY <1>1, <1>2 DEF LessonRemove, Refresh
<1>4. author[p] \in Authoring /\ AuthoringOf(author[p]) /\ lesson \in Lessons
  BY StockedIs
<1>5. l \in Lesson /\ author[p].module \in Module /\ author[p].refresh \in BOOLEAN
  BY <1>1, <1>3, <1>4 DEF AuthoringOf, PlanSteps, Authoring
<1>6. lesson' \in Lessons /\ lesson'[l] = Null /\ \A k \in Lesson \ {l} : lesson'[k] = lesson[k]
  BY <1>3, <1>4, <1>5 DEF Lessons
<1>7. r \in Authoring /\ AuthoringOf(r) /\ r.pc = "statsModule" /\ r.module = author[p].module
  BY <1>2, <1>5, RefreshTyped
<1>8. Refreshed(p) = Null \/ author[p].refresh
  BY DEF Refreshed
<1> QED BY <1>3, <1>6, <1>7, <1>8, LessonWritten

LEMMA PlanTyped == Plan \cup {<<>>} \subseteq Seq(Section)
<1>1. Plan \subseteq Seq(Section)
  BY PlanAssumption, Zenon DEF Section, Given
<1>2. <<>> \in Seq(Section)
  OBVIOUS
<1> QED BY <1>1, <1>2

LEMMA IdsTyped ==
    ASSUME NEW plan \in Seq(Section)
    PROVE  Ids(plan) \subseteq Module \cup Lesson
<1>1. ASSUME NEW i \in DOMAIN plan
      PROVE  {plan[i].id} \cup {plan[i].lessons[j].id : j \in DOMAIN plan[i].lessons} \subseteq Module \cup Lesson
  <2>1. plan[i] \in Section
    OBVIOUS
  <2>2. plan[i].id \in Module /\ plan[i].lessons \in Seq(Given)
    BY <2>1 DEF Section
  <2>3. \A g \in Given : g.id \in Lesson
    BY DEF Given
  <2>4. \A j \in DOMAIN plan[i].lessons : plan[i].lessons[j].id \in Lesson
    BY <2>2, <2>3
  <2> QED BY <2>2, <2>4
<1> QED BY <1>1 DEF Ids

\* What a transaction starts from, and what it may leave behind when it commits.
LEMMA CurriculumCommits ==
    ASSUME Stocked, NEW p \in Proc, NEW c \in Course, NEW ids, NEW db \in Curriculum(c, ids), taken \subseteq ids,
           NEW row \in CourseRow, course' = [course EXCEPT ![c] = row], module' = db.module, lesson' = db.lesson,
           taken' = ids, UNCHANGED resource, c \in ids
    PROVE  /\ course' \in [Course -> {Null} \cup CourseRow] /\ module' \in Modules /\ lesson' \in Lessons
           /\ course'[c] = row /\ \A d \in Course \ {c} : course'[d] = course[d]
           /\ \A m \in Module : module'[m] # Null => m \in taken' /\ course'[module'[m]] # Null
           /\ \A l \in Lesson : lesson'[l] # Null => l \in taken' /\ module'[lesson'[l].moduleId] # Null /\ HasVideo(lesson'[l])
           /\ \A d \in Course : course'[d] # Null => d \in taken'
<1>1. /\ db \in [module : Modules, lesson : Lessons, ok : BOOLEAN]
      /\ \A k \in Module : db.module[k] # Null => k \in ids /\ (db.module[k] = c \/ course[db.module[k]] # Null)
      /\ \A k \in Lesson : db.lesson[k] # Null =>
            k \in ids /\ db.module[db.lesson[k].moduleId] # Null /\ HasVideo(db.lesson[k])
  BY DEF Curriculum
<1>2. course \in [Course -> {Null} \cup CourseRow] /\ row # Null
  BY StockedIs, CatalogNullAssumption
<1>3. /\ course' \in [Course -> {Null} \cup CourseRow]
      /\ course'[c] = row /\ \A d \in Course \ {c} : course'[d] = course[d]
  BY <1>2
<1>4. ASSUME NEW m \in Module, module'[m] # Null
      PROVE  m \in taken' /\ course'[module'[m]] # Null
  <2>1. module'[m] \in Course
    BY <1>1, <1>4 DEF Modules
  <2> QED BY <1>1, <1>2, <1>3, <1>4, <2>1
<1>5. \A l \in Lesson : lesson'[l] # Null => l \in taken' /\ module'[lesson'[l].moduleId] # Null /\ HasVideo(lesson'[l])
  BY <1>1
<1>6. \A d \in Course : course'[d] # Null => d \in taken'
  BY <1>3, StockedIs
<1> QED BY <1>1, <1>3, <1>4, <1>5, <1>6

LEMMA CourseCreateStep ==
    ASSUME Stocked, NEW p \in Proc, CourseCreate(p)
    PROVE  Stocked'
<1>1. PICK c \in Course \ taken, plan \in {<<>>} \cup Plan :
        LET db == SectionsSaved([module |-> module, lesson |-> lesson, ok |-> TRUE], c, NoContent, FALSE, plan) IN
        /\ author[p].pc = "idle"
        /\ db.ok
        /\ course' = [course EXCEPT ![c] = [lessonCount |-> LessonsGiven(plan), totalDurationMinutes |-> 0]]
        /\ module' = db.module /\ lesson' = db.lesson
        /\ taken' = taken \cup {c} \cup Ids(plan)
        /\ UNCHANGED <<resource, author>>
        /\ LeftBehind(Null)
  BY DEF CourseCreate
<1>2. PICK b : b = [module |-> module, lesson |-> lesson, ok |-> TRUE]
  OBVIOUS
<1>3. PICK db : db = SectionsSaved(b, c, NoContent, FALSE, plan)
  OBVIOUS
<1>4. PICK ids : ids = taken \cup {c} \cup Ids(plan)
  OBVIOUS
<1>5. PICK row : row = [lessonCount |-> LessonsGiven(plan), totalDurationMinutes |-> 0]
  OBVIOUS
<1>6. /\ course' = [course EXCEPT ![c] = row]
      /\ module' = db.module /\ lesson' = db.lesson /\ taken' = ids
      /\ UNCHANGED <<resource, author>>
      /\ LeftBehind(Null)
  BY <1>1, <1>2, <1>3, <1>4, <1>5
<1>7. /\ author \in [Proc -> Authoring] /\ author[p] \in Authoring /\ AuthoringOf(author[p])
      /\ course \in [Course -> {Null} \cup CourseRow] /\ module \in Modules /\ lesson \in Lessons
      /\ taken \subseteq Course \cup Module \cup Lesson /\ drifted \subseteq Course
      /\ c # Null
  BY StockedIs
<1>8. b \in Curriculum(c, ids)
  <2>1. /\ b = [module |-> b.module, lesson |-> b.lesson, ok |-> b.ok] /\ b.module = module /\ b.lesson = lesson /\ b.ok \in BOOLEAN
    BY <1>2
  <2>2. \A m \in Module : b.module[m] # Null => m \in ids /\ (b.module[m] = c \/ course[b.module[m]] # Null)
    BY <1>4, <2>1, StockedIs
  <2>3. \A l \in Lesson : b.lesson[l] # Null => l \in ids /\ b.module[b.lesson[l].moduleId] # Null /\ HasVideo(b.lesson[l])
    BY <1>4, <2>1, StockedIs
  <2> QED BY <1>7, <2>1, <2>2, <2>3, CurriculumIs
<1>9. Loaded(NoContent)
  <2>1. PICK found : found = NoContent
    OBVIOUS
  <2>2. /\ found = [module |-> found.module, lesson |-> found.lesson]
        /\ found.module = [m \in Module |-> Null] /\ found.lesson = [l \in Lesson |-> Null]
    BY <2>1 DEF NoContent
  <2>3. found.module \in Modules /\ found.lesson \in Lessons
    BY <2>2 DEF Modules, Lessons
  <2> QED BY <2>1, <2>2, <2>3 DEF Loaded
<1>10. plan \in Seq(Section) /\ Ids(plan) \subseteq ids
  BY <1>4, PlanTyped
<1>11. /\ db \in Curriculum(c, ids)
       /\ Teaches(db, c) \/ LessonsGiven(plan) = 0
       /\ LessonsGiven(plan) \in Nat
  BY <1>3, <1>8, <1>9, <1>10, SectionsIn
<1>12. row \in CourseRow /\ c \in ids /\ taken \subseteq ids
  BY <1>4, <1>5, <1>11 DEF CourseRow
<1>13. /\ course' \in [Course -> {Null} \cup CourseRow] /\ module' \in Modules /\ lesson' \in Lessons
       /\ course'[c] = row /\ \A d \in Course \ {c} : course'[d] = course[d]
       /\ \A m \in Module : module'[m] # Null => m \in taken' /\ course'[module'[m]] # Null
       /\ \A l \in Lesson : lesson'[l] # Null => l \in taken' /\ module'[lesson'[l].moduleId] # Null /\ HasVideo(lesson'[l])
       /\ \A d \in Course : course'[d] # Null => d \in taken'
  BY <1>6, <1>11, <1>12, CurriculumCommits
<1>14. ASSUME NEW d \in Course
       PROVE  MatchOf(d)'
  <2>1. CASE d # c
    <3>1. MatchOf(d) /\ d # Null /\ course'[d] = course[d]
      BY <1>13, <2>1, StockedIs
    <3> QED BY <1>6, <3>1, NotLeftBehind
  <2>2. CASE d = c /\ Teaches(db, c)
    <3>1. LessonsOf(c, module, lesson) = {}
      <4>1. course[c] = Null
        BY <1>1, StockedIs
      <4>2. \A l \in Lesson : lesson[l] # Null => module[lesson[l].moduleId] # c
        BY <4>1, StockedIs
      <4> QED BY <4>2, <1>7, LessonsCount
    <3>2. LessonsOf(c, module', lesson') # {}
      BY <1>6, <1>13, <2>2, LessonsCount DEF Teaches
    <3>3. c \in Changed
      BY <3>1, <3>2 DEF Changed
    <3>4. c \in drifted'
      BY <1>6, <1>7, <3>3 DEF LeftBehind
    <3> QED BY <2>2, <3>4 DEF MatchOf
  <2>3. CASE d = c /\ ~Teaches(db, c)
    <3>1. LessonsOf(c, module', lesson') = {}
      BY <1>6, <1>13, <2>3, LessonsCount DEF Teaches
    <3>2. LessonsOf(c, module, lesson)' = {}
      BY <3>1 DEF LessonsOf
    <3>3. row = [lessonCount |-> 0, totalDurationMinutes |-> 0]
      BY <1>5, <1>11, <2>3
    <3>4. Stats({}) = [lessonCount |-> 0, totalDurationMinutes |-> 0]
      BY FS_EmptySet, StatsType
    <3> QED BY <1>13, <2>3, <3>2, <3>3, <3>4 DEF MatchOf
  <2> QED BY <2>1, <2>2, <2>3
<1>15. drifted' \subseteq Course
  BY <1>6, <1>7 DEF LeftBehind, Changed, Dropped
<1>16. author' = [author EXCEPT ![p] = author[p]]
  BY <1>6, <1>7
<1>17. taken' \subseteq Course \cup Module \cup Lesson
  <2>1. Ids(plan) \subseteq Module \cup Lesson
    BY <1>10, IdsTyped
  <2> QED BY <1>4, <1>6, <1>7, <2>1
<1> QED BY <1>6, <1>7, <1>12, <1>13, <1>14, <1>15, <1>16, <1>17, AuthorLoud

\* The rows a transaction of updateCourse() starts from ...
LEMMA BackIn ==
    ASSUME Stocked, NEW p \in Proc, NEW c \in Course, NEW its, NEW ids, taken \subseteq ids, NEW ok \in BOOLEAN
    PROVE  [module |-> [m \in Module |-> IF m \in its /\ module[m] # Null THEN c ELSE module[m]],
            lesson |-> lesson, ok |-> ok] \in Curriculum(c, ids)
<1>1. module \in Modules /\ lesson \in Lessons /\ c # Null
  BY StockedIs
<1>2. PICK mods : mods = [m \in Module |-> IF m \in its /\ module[m] # Null THEN c ELSE module[m]]
  OBVIOUS
<1>3. mods \in Modules /\ \A m \in Module : mods[m] = Null <=> module[m] = Null
  BY <1>1, <1>2 DEF Modules
<1>4. PICK back : back = [module |-> mods, lesson |-> lesson, ok |-> ok]
  OBVIOUS
<1>5. back = [module |-> back.module, lesson |-> back.lesson, ok |-> back.ok] /\ back.module = mods /\ back.lesson = lesson /\ back.ok = ok
  BY <1>4
<1>6. \A m \in Module : mods[m] # Null => m \in ids /\ (mods[m] = c \/ course[mods[m]] # Null)
  BY <1>2, <1>3, StockedIs
<1>7. \A l \in Lesson : lesson[l] # Null => l \in ids /\ mods[lesson[l].moduleId] # Null /\ HasVideo(lesson[l])
  BY <1>3, StockedIs
<1> QED BY <1>1, <1>2, <1>3, <1>4, <1>5, <1>6, <1>7, CurriculumIs

\* ... and those without the modules it no longer has.
LEMMA PrunedIn ==
    ASSUME NEW c, NEW ids, NEW back \in Curriculum(c, ids), NEW removed
    PROVE  WithoutModules(back, removed) \in Curriculum(c, ids)
<1>1. /\ back \in [module : Modules, lesson : Lessons, ok : BOOLEAN]
      /\ \A m \in Module : back.module[m] # Null => m \in ids /\ (back.module[m] = c \/ course[back.module[m]] # Null)
      /\ \A l \in Lesson : back.lesson[l] # Null =>
            l \in ids /\ back.module[back.lesson[l].moduleId] # Null /\ HasVideo(back.lesson[l])
  BY DEF Curriculum
<1>2. PICK pruned : pruned = WithoutModules(back, removed)
  OBVIOUS
<1>3. /\ pruned = [module |-> pruned.module, lesson |-> pruned.lesson, ok |-> pruned.ok]
      /\ pruned.module = [m \in Module |-> IF m \in removed THEN Null ELSE back.module[m]]
      /\ pruned.lesson = [l \in Lesson |-> IF back.lesson[l] # Null /\ back.lesson[l].moduleId \in removed THEN Null ELSE back.lesson[l]]
      /\ pruned.ok = back.ok
  BY <1>1, <1>2 DEF WithoutModules
<1>4. pruned.module \in Modules /\ pruned.lesson \in Lessons
  BY <1>1, <1>3 DEF Modules, Lessons
<1>5. \A m \in Module : pruned.module[m] # Null => m \in ids /\ (pruned.module[m] = c \/ course[pruned.module[m]] # Null)
  BY <1>1, <1>3
<1>6. ASSUME NEW l \in Lesson, pruned.lesson[l] # Null
      PROVE  l \in ids /\ pruned.module[pruned.lesson[l].moduleId] # Null /\ HasVideo(pruned.lesson[l])
  <2>1. pruned.lesson[l] = back.lesson[l] /\ back.lesson[l].moduleId \notin removed /\ back.lesson[l] # Null
    BY <1>3, <1>6
  <2>2. back.lesson[l].moduleId \in Module
    BY <1>1, <2>1 DEF Lessons, LessonRow
  <2>3. l \in ids /\ back.module[back.lesson[l].moduleId] # Null /\ HasVideo(back.lesson[l])
    BY <1>1, <2>1
  <2>4. pruned.module[back.lesson[l].moduleId] = back.module[back.lesson[l].moduleId]
    BY <1>3, <2>1, <2>2
  <2> QED BY <2>1, <2>3, <2>4
<1> QED BY <1>1, <1>2, <1>3, <1>4, <1>5, <1>6, CurriculumIs

\* What an open transaction remembers, and what it sees.
LEMMA OpenedIs ==
    ASSUME Stocked, NEW p \in Proc, NEW memo, memo.course \in Course, memo.course \in taken,
           NEW ids, NEW db \in Curriculum(memo.course, ids), NEW r, r = Opened(memo, db)
    PROVE  /\ r \in Authoring /\ AuthoringOf(r) /\ r.pc = "planLessons" /\ r.course = memo.course
           /\ course[memo.course] # memo.row => r.own.course
           /\ Seen(r) = [module |-> db.module, lesson |-> db.lesson]
<1>1. PICK own : own = [course |-> course[memo.course] # memo.row,
                        module |-> {m \in Module : db.module[m] # module[m]},
                        lesson |-> {l \in Lesson : db.lesson[l] # lesson[l]}]
  OBVIOUS
<1>2. PICK found : found = [module |-> [m \in Module |-> IF m \in own.module THEN db.module[m] ELSE Null],
                            lesson |-> [l \in Lesson |-> IF l \in own.lesson THEN db.lesson[l] ELSE Null]]
  OBVIOUS
<1>3. PICK c : c = memo.course
  OBVIOUS
<1>4. db.module \in Modules /\ db.lesson \in Lessons /\ module \in Modules /\ lesson \in Lessons
  BY StockedIs DEF Curriculum
<1>5. /\ own \in [course : BOOLEAN, module : SUBSET Module, lesson : SUBSET Lesson]
      /\ course[c] # memo.row => own.course
      /\ own.module = {m \in Module : db.module[m] # module[m]} /\ own.lesson = {l \in Lesson : db.lesson[l] # lesson[l]}
  BY <1>1, <1>3
<1>6. /\ found.module = [m \in Module |-> IF m \in own.module THEN db.module[m] ELSE Null]
      /\ found.lesson = [l \in Lesson |-> IF l \in own.lesson THEN db.lesson[l] ELSE Null]
      /\ found = [module |-> found.module, lesson |-> found.lesson]
  BY <1>2
<1>7. found \in [module : Modules, lesson : Lessons]
  BY <1>4, <1>6 DEF Modules, Lessons
<1>8. r = [pc |-> "planLessons", course |-> c, module |-> Null, lesson |-> Null, video |-> Null, row |-> Null,
           found |-> found, plan |-> Null, own |-> own, replace |-> FALSE, refresh |-> FALSE, read |-> {}]
  BY <1>1, <1>2, <1>3 DEF Opened, NoAuthoring
<1>9. /\ r.pc = "planLessons" /\ r.course = c /\ r.found = found /\ r.own = own /\ r.read = {} /\ r.plan = Null
  BY <1>8
<1>10. r \in Authoring
  BY <1>3, <1>5, <1>7, <1>8 DEF Authoring
<1>11. AuthoringOf(r)
  BY <1>3, <1>7, <1>9, FS_EmptySet DEF AuthoringOf, PlanSteps
<1>12. Seen(r) = [module |-> db.module, lesson |-> db.lesson]
  <2>1. [m \in Module |-> IF m \in own.module THEN found.module[m] ELSE module[m]] = [m \in Module |-> db.module[m]]
    BY <1>5, <1>6
  <2>2. [l \in Lesson |-> IF l \in own.lesson THEN found.lesson[l] ELSE lesson[l]] = [l \in Lesson |-> db.lesson[l]]
    BY <1>5, <1>6
  <2>3. db.module = [m \in Module |-> db.module[m]] /\ db.lesson = [l \in Lesson |-> db.lesson[l]]
    BY <1>4 DEF Modules, Lessons
  <2> QED BY <1>9, <2>1, <2>2, <2>3 DEF Seen
<1> QED BY <1>3, <1>5, <1>9, <1>10, <1>11, <1>12

\* updateCourse() up to the last section: all of it without one, or its transaction is open.
LEMMA PlanApplyIs ==
    ASSUME Stocked, NEW p \in Proc, PlanApply(p)
    PROVE  LET c == author[p].course IN
           /\ c \in Course /\ c \in taken /\ author[p].row \in CourseRow
           /\ author[p].pc = "planApply" /\ UNCHANGED <<lesson, resource>>
           /\ \/ /\ course' = [course EXCEPT ![c] = author[p].row]
                 /\ module' \in Modules /\ author' = [author EXCEPT ![p] = NoAuthoring] /\ taken' = taken
                 /\ \A m \in Module : (module'[m] = Null <=> module[m] = Null) /\ (module'[m] = module[m] \/ module'[m] = c)
                 /\ drifted' = drifted \cup Changed \cup Dropped \cup (IF course[c] = author[p].row THEN {} ELSE {c})
              \/ /\ \E ids : \E db \in Curriculum(c, ids) :
                       ids = taken' /\ author' = [author EXCEPT ![p] = Opened(author[p], db)]
                 /\ taken \subseteq taken' /\ taken' \subseteq Course \cup Module \cup Lesson
                 /\ UNCHANGED <<course, module, drifted>>
              \/ author' = [author EXCEPT ![p] = NoAuthoring] /\ UNCHANGED <<course, module, taken, drifted>>
<1> DEFINE memo == author[p]
           c == memo.course
           its == {m \in Module : memo.found.module[m] # Null}
           given == {memo.plan[i].id : i \in DOMAIN memo.plan}
           back == [module |-> [m \in Module |-> IF m \in its /\ module[m] # Null THEN c ELSE module[m]],
                    lesson |-> lesson, ok |-> {m \in Module : module[m] = c} \subseteq its]
           removed == its \ given
           pruned == IF memo.replace THEN WithoutModules(back, removed) ELSE back
           db == IF memo.plan = Null THEN back ELSE SectionsSaved(pruned, c, memo.found, memo.replace, memo.plan)
<1>1. memo = author[p] /\ c = memo.course /\ its \in SUBSET Module /\ removed \in SUBSET Module
  OBVIOUS
<1>2. back = [module |-> [m \in Module |-> IF m \in its /\ module[m] # Null THEN c ELSE module[m]],
              lesson |-> lesson, ok |-> {m \in Module : module[m] = c} \subseteq its]
  OBVIOUS
<1>3. pruned = WithoutModules(back, removed) \/ pruned = back
  OBVIOUS
<1>4. /\ memo.plan = Null => db = back
      /\ memo.plan # Null => db = SectionsSaved(pruned, c, memo.found, memo.replace, memo.plan)
  OBVIOUS
<1>5. /\ memo.pc = "planApply"
      /\ \/ /\ db.ok /\ memo.plan = Null
            /\ course' = [course EXCEPT ![c] = memo.row]
            /\ module' = db.module
            /\ AuthorEnd(p)
            /\ UNCHANGED <<lesson, taken>>
            /\ drifted' = drifted \cup Changed \cup Dropped \cup (IF course[c] = memo.row THEN {} ELSE {c})
         \/ /\ db.ok /\ memo.plan # Null
            /\ author' = [author EXCEPT ![p] = Opened(memo, db)]
            /\ taken' = taken \cup Ids(memo.plan)
            /\ UNCHANGED <<course, module, lesson, drifted>>
         \/ /\ ~db.ok
            /\ AuthorEnd(p)
            /\ UNCHANGED <<course, module, lesson, taken, drifted>>
      /\ UNCHANGED <<resource, made>>
  BY DEF PlanApply
<1> HIDE DEF memo, c, its, given, back, removed, pruned, db
<1>6. /\ author[p] \in Authoring /\ AuthoringOf(author[p]) /\ module \in Modules
      /\ taken \subseteq Course \cup Module \cup Lesson
  BY StockedIs
<1>7. /\ c \in Course /\ c \in taken /\ c # Null /\ memo.row \in CourseRow
      /\ Loaded(memo.found) /\ memo.plan \in {Null, <<>>} \cup Plan /\ memo.replace \in BOOLEAN
  <2>1. /\ c \in Course /\ (c # Null => c \in taken) /\ memo.row \in CourseRow /\ Loaded(memo.found)
        /\ memo.plan \in {Null, <<>>} \cup Plan
    BY <1>1, <1>5, <1>6 DEF AuthoringOf, PlanSteps
  <2>2. memo.replace \in BOOLEAN
    BY <1>1, <1>6 DEF Authoring
  <2> QED BY <2>1, <2>2, CatalogAssumption
<1>8. CASE db.ok /\ memo.plan = Null
  <2>1. module' = [m \in Module |-> IF m \in its /\ module[m] # Null THEN c ELSE module[m]]
    BY <1>2, <1>4, <1>5, <1>8
  <2>2. module' \in Modules /\ \A m \in Module : (module'[m] = Null <=> module[m] = Null) /\ (module'[m] = module[m] \/ module'[m] = c)
    BY <1>6, <1>7, <2>1 DEF Modules
  <2>3. author' = [author EXCEPT ![p] = NoAuthoring]
    BY <1>5, <1>8 DEF AuthorEnd
  <2> QED BY <1>1, <1>5, <1>7, <1>8, <2>2, <2>3
<1>9. CASE db.ok /\ memo.plan # Null
  <2>1. PICK ids : ids = taken \cup Ids(memo.plan)
    OBVIOUS
  <2>2. memo.plan \in {<<>>} \cup Plan /\ memo.plan \in Seq(Section)
    BY <1>7, <1>9, PlanTyped
  <2>3. taken \subseteq ids /\ Ids(memo.plan) \subseteq ids
    BY <2>1
  <2>4. db = SectionsSaved(pruned, c, memo.found, memo.replace, memo.plan)
    BY <1>4, <1>9
  <2>5. db \in Curriculum(c, ids)
    <3>1. back \in Curriculum(c, ids)
      BY <1>2, <1>7, <2>3, BackIn
    <3>2. pruned \in Curriculum(c, ids)
      BY <1>3, <3>1, PrunedIn
    <3> QED BY <1>7, <2>2, <2>3, <2>4, <3>2, SectionsIn
  <2>6. Ids(memo.plan) \subseteq Module \cup Lesson
    BY <2>2, IdsTyped
  <2>7. taken' = ids /\ taken \subseteq taken' /\ taken' \subseteq Course \cup Module \cup Lesson
    BY <1>5, <1>6, <1>9, <2>1, <2>6
  <2>8. author' = [author EXCEPT ![p] = Opened(author[p], db)] /\ UNCHANGED <<course, module, lesson, drifted>>
    BY <1>1, <1>5, <1>9
  <2>9. \E x : \E d \in Curriculum(c, x) : x = taken' /\ author' = [author EXCEPT ![p] = Opened(author[p], d)]
    BY <2>5, <2>7, <2>8
  <2> QED BY <1>1, <1>5, <1>7, <2>7, <2>8, <2>9
<1>10. CASE ~db.ok
  <2>1. author' = [author EXCEPT ![p] = NoAuthoring] /\ UNCHANGED <<course, module, lesson, taken, drifted>>
    BY <1>5, <1>10 DEF AuthorEnd
  <2> QED BY <1>1, <1>5, <1>7, <2>1
<1> QED BY <1>8, <1>9, <1>10

\* Where the history takes in what changes and what is no longer refreshed, a course that is
\* not left behind matches, if its row is the same.
LEMMA NotDrifted ==
    ASSUME NEW d \in Course, MatchOf(d), course'[d] = course[d],
           d \notin drifted' => d \notin drifted /\ d \notin Changed /\ d \notin Dropped
    PROVE  MatchOf(d)'
<1>1. CASE d \in drifted'
  BY <1>1 DEF MatchOf
<1>2. CASE d \notin drifted'
  <2>1. LessonsOf(d, module, lesson)' = LessonsOf(d, module, lesson)
    BY <1>2 DEF Changed, LessonsOf
  <2>2. Refreshing(d) => Refreshing(d)'
    BY <1>2 DEF Dropped
  <2> QED BY <1>2, <2>1, <2>2, MatchStays
<1> QED BY <1>1, <1>2

LEMMA PlanApplyStep ==
    ASSUME Stocked, NEW p \in Proc, PlanApply(p)
    PROVE  Stocked'
<1>1. PICK c : c = author[p].course
  OBVIOUS
<1>2. PICK row : row = author[p].row
  OBVIOUS
<1>3. /\ c \in Course /\ c \in taken /\ row \in CourseRow /\ row # Null
      /\ author[p].pc = "planApply" /\ UNCHANGED <<lesson, resource>>
      /\ \/ /\ course' = [course EXCEPT ![c] = row]
            /\ module' \in Modules /\ author' = [author EXCEPT ![p] = NoAuthoring] /\ taken' = taken
            /\ \A m \in Module : (module'[m] = Null <=> module[m] = Null) /\ (module'[m] = module[m] \/ module'[m] = c)
            /\ drifted' = drifted \cup Changed \cup Dropped \cup (IF course[c] = row THEN {} ELSE {c})
         \/ /\ \E ids : \E db \in Curriculum(c, ids) :
                  ids = taken' /\ author' = [author EXCEPT ![p] = Opened(author[p], db)]
            /\ taken \subseteq taken' /\ taken' \subseteq Course \cup Module \cup Lesson
            /\ UNCHANGED <<course, module, drifted>>
         \/ author' = [author EXCEPT ![p] = NoAuthoring] /\ UNCHANGED <<course, module, taken, drifted>>
  BY <1>1, <1>2, PlanApplyIs, CatalogNullAssumption
<1>4. /\ author \in [Proc -> Authoring] /\ course \in [Course -> {Null} \cup CourseRow] /\ module \in Modules /\ lesson \in Lessons
      /\ resource \in [Resource -> {Null} \cup ResourceRow]
      /\ taken \subseteq Course \cup Module \cup Lesson /\ drifted \subseteq Course
  BY StockedIs
<1>5. \A d : ~RefreshOf(author[p], d)
  BY <1>3 DEF RefreshOf
<1>6. CASE author' = [author EXCEPT ![p] = NoAuthoring] /\ UNCHANGED <<course, module, taken, drifted>>
  BY <1>3, <1>4, <1>5, <1>6, NoAuthoringTyped, AuthorQuiet
<1>7. CASE /\ course' = [course EXCEPT ![c] = row]
           /\ module' \in Modules /\ author' = [author EXCEPT ![p] = NoAuthoring] /\ taken' = taken
           /\ \A m \in Module : (module'[m] = Null <=> module[m] = Null) /\ (module'[m] = module[m] \/ module'[m] = c)
           /\ drifted' = drifted \cup Changed \cup Dropped \cup (IF course[c] = row THEN {} ELSE {c})
  <2>1. /\ course' \in [Course -> {Null} \cup CourseRow] /\ course'[c] = row
        /\ \A d \in Course \ {c} : course'[d] = course[d]
    BY <1>3, <1>4, <1>7
  <2>2. drifted' \subseteq Course
    BY <1>3, <1>4, <1>7 DEF Changed, Dropped
  <2>3. ASSUME NEW d \in Course
        PROVE  MatchOf(d)'
    <3>1. CASE d = c /\ course[c] # row
      BY <1>7, <3>1 DEF MatchOf
    <3>2. CASE d # c \/ course[c] = row
      BY <1>7, <2>1, <3>2, StockedIs, NotDrifted
    <3> QED BY <3>1, <3>2
  <2>4. \A m \in Module : module'[m] # Null => m \in taken' /\ course'[module'[m]] # Null
    BY <1>3, <1>7, <2>1, StockedIs
  <2>5. \A l \in Lesson : lesson'[l] # Null => l \in taken' /\ module'[lesson'[l].moduleId] # Null /\ HasVideo(lesson'[l])
    BY <1>3, <1>7, StockedIs
  <2>6. \A d \in Course : course'[d] # Null => d \in taken'
    BY <1>3, <1>7, <2>1, StockedIs
  <2> QED BY <1>3, <1>4, <1>7, <2>1, <2>2, <2>3, <2>4, <2>5, <2>6, NoAuthoringTyped, AuthorLoud
<1>8. ASSUME NEW ids, NEW db \in Curriculum(c, ids), author' = [author EXCEPT ![p] = Opened(author[p], db)],
             taken \subseteq taken', taken' \subseteq Course \cup Module \cup Lesson, UNCHANGED <<course, module, drifted>>
      PROVE  Stocked'
  <2>1. PICK r : r = Opened(author[p], db)
    OBVIOUS
  <2>2. r \in Authoring /\ AuthoringOf(r)
    BY <1>1, <1>3, <1>8, <2>1, OpenedIs
  <2>3. author' = [author EXCEPT ![p] = r] /\ \A q \in Proc \ {p} : author'[q] = author[q]
    BY <1>4, <1>8, <2>1
  <2>4. ASSUME NEW d \in Course
        PROVE  MatchOf(d)'
    <3>1. MatchOf(d) /\ LessonsOf(d, module, lesson)' = LessonsOf(d, module, lesson)
      BY <1>3, <1>8, StockedIs DEF LessonsOf
    <3>2. Refreshing(d) => Refreshing(d)'
      BY <1>5, <1>8, <2>3, RefreshGoesOn
    <3> QED BY <1>8, <3>1, <3>2, MatchStays
  <2>5. \A m \in Module : module'[m] # Null => m \in taken' /\ course'[module'[m]] # Null
    BY <1>8, StockedIs
  <2>6. \A l \in Lesson : lesson'[l] # Null => l \in taken' /\ module'[lesson'[l].moduleId] # Null /\ HasVideo(lesson'[l])
    BY <1>3, <1>8, StockedIs
  <2>7. \A d \in Course : course'[d] # Null => d \in taken'
    BY <1>8, StockedIs
  <2> QED BY <1>3, <1>4, <1>8, <2>2, <2>3, <2>4, <2>5, <2>6, <2>7, AuthorLoud
<1> QED BY <1>3, <1>6, <1>7, <1>8

LEMMA PlanLessonsStep ==
    ASSUME Stocked, NEW p \in Proc, PlanLessons(p)
    PROVE  Stocked'
<1>1. PICK db : db = Seen(author[p])
  OBVIOUS
<1>2. PICK read : read = LessonsOf(author[p].course, db.module, db.lesson)
  OBVIOUS
<1>3. /\ author[p].pc = "planLessons"
      /\ author' = [author EXCEPT ![p].pc = "planCourse", ![p].read = read]
      /\ UNCHANGED <<course, module, lesson, resource, taken, drifted>>
  BY <1>1, <1>2 DEF PlanLessons, rows
<1>4. resource' \in [Resource -> {Null} \cup ResourceRow] /\ \A u \in Resource : resource[u] # Null => resource'[u] # Null
  BY <1>3, StockedIs
<1>5. author \in [Proc -> Authoring] /\ author[p] \in Authoring /\ AuthoringOf(author[p]) /\ lesson \in Lessons
  BY StockedIs
<1>6. author[p].found \in [module : Modules, lesson : Lessons] /\ author[p].course \in Course
  BY <1>3, <1>5 DEF AuthoringOf, PlanSteps
<1>7. db.lesson \in Lessons
  <2>1. db.lesson = [l \in Lesson |-> IF l \in author[p].own.lesson THEN author[p].found.lesson[l] ELSE lesson[l]]
    BY <1>1 DEF Seen
  <2> QED BY <1>5, <1>6, <2>1 DEF Lessons
<1>8. IsFiniteSet(read) /\ read \in SUBSET (Lesson \X Nat)
  BY <1>2, <1>7, LessonsCount
<1>9. PICK r : r = [author[p] EXCEPT !.pc = "planCourse", !.read = read]
  OBVIOUS
<1>10. /\ r \in Authoring /\ r.pc = "planCourse" /\ r.course = author[p].course /\ r.read = read
       /\ r.found = author[p].found
  <2>1. PICK T : T = SUBSET (Lesson \X Nat)
    OBVIOUS
  <2>2. read \in T
    BY <1>8, <2>1
  <2>3. PICK a \in Authoring : a = author[p]
    BY <1>5
  <2>4. r = [pc |-> "planCourse", course |-> a.course, module |-> a.module, lesson |-> a.lesson, video |-> a.video,
             row |-> a.row, found |-> a.found, plan |-> a.plan, own |-> a.own, replace |-> a.replace, refresh |-> a.refresh, read |-> read]
    BY <1>9, <2>3 DEF Authoring
  <2>5. /\ a.course \in {Null} \cup Course /\ a.module \in {Null} \cup Module /\ a.lesson \in {Null} \cup Lesson
        /\ a.video \in {Null} \cup Resource /\ a.row \in {Null} \cup CourseRow \cup Course \cup LessonRow \cup ResourceRow
        /\ a.found \in {Null} \cup [module : Modules, lesson : Lessons] /\ a.plan \in {Null, <<>>} \cup Plan
        /\ a.own \in [course : BOOLEAN, module : SUBSET Module, lesson : SUBSET Lesson]
        /\ a.replace \in BOOLEAN /\ a.refresh \in BOOLEAN
    BY DEF Authoring
  <2>6. r \in Authoring
    BY <2>1, <2>2, <2>4, <2>5 DEF Authoring
  <2> QED BY <2>3, <2>4, <2>6
<1>11. AuthoringOf(r)
  BY <1>3, <1>5, <1>6, <1>8, <1>10 DEF AuthoringOf, PlanSteps
<1>12. author' = [author EXCEPT ![p] = r]
  BY <1>3, <1>5, <1>9
<1>13. \A d \in Course : ~RefreshOf(author[p], d)
  BY <1>3 DEF RefreshOf
<1> QED BY <1>3, <1>4, <1>10, <1>11, <1>12, <1>13, AuthorQuiet

LEMMA PlanCourseStep ==
    ASSUME Stocked, NEW p \in Proc, PlanCourse(p)
    PROVE  Stocked'
<1>1. PICK step \in {"planSave", "planCommit"} :
        step = IF author[p].own.course \/ course[author[p].course] # Null THEN "planSave" ELSE "planCommit"
  OBVIOUS
<1>2. /\ author[p].pc = "planCourse"
      /\ author' = [author EXCEPT ![p].pc = step]
      /\ UNCHANGED <<course, module, lesson, resource, taken, drifted>>
  BY <1>1 DEF PlanCourse, AuthorTo, rows
<1>3. resource' \in [Resource -> {Null} \cup ResourceRow] /\ \A u \in Resource : resource[u] # Null => resource'[u] # Null
  BY <1>2, StockedIs
<1>4. author \in [Proc -> Authoring] /\ author[p] \in Authoring /\ AuthoringOf(author[p])
  BY StockedIs
<1>5. PICK r : r = [author[p] EXCEPT !.pc = step]
  OBVIOUS
<1>6. /\ r \in Authoring /\ r.pc = step /\ r.course = author[p].course /\ r.read = author[p].read
      /\ r.found = author[p].found /\ r.own = author[p].own
  BY <1>4, <1>5 DEF Authoring
<1>7. step = "planCommit" => ~r.own.course
  BY <1>1, <1>6
<1>8. AuthoringOf(r)
  BY <1>2, <1>4, <1>6, <1>7 DEF AuthoringOf, PlanSteps
<1>9. author' = [author EXCEPT ![p] = r]
  BY <1>2, <1>4, <1>5
<1>10. \A d \in Course : ~RefreshOf(author[p], d)
  BY <1>2 DEF RefreshOf
<1> QED BY <1>2, <1>3, <1>6, <1>8, <1>9, <1>10, AuthorQuiet

\* The rows of an open transaction, over those that are committed, have their foreign keys,
\* but for its course while it has saved that.
WritingOf(r) ==
    r.pc \in PlanSteps =>
        /\ \A m \in Module : Seen(r).module[m] # Null =>
              m \in taken /\ (course[Seen(r).module[m]] # Null \/ (r.own.course /\ Seen(r).module[m] = r.course))
        /\ \A l \in Lesson : Seen(r).lesson[l] # Null =>
              l \in taken /\ HasVideo(Seen(r).lesson[l]) /\ Seen(r).module[Seen(r).lesson[l].moduleId] # Null
Writing == \A p \in Proc : WritingOf(author[p])

LEMMA PlanSaveStep ==
    ASSUME Stocked, Writing, NEW p \in Proc, PlanSave(p)
    PROVE  Stocked'
<1>1. PICK c : c = author[p].course
  OBVIOUS
<1>2. PICK read : read = author[p].read
  OBVIOUS
<1>3. PICK db : db = Seen(author[p])
  OBVIOUS
<1>4. /\ module' = db.module /\ lesson' = db.lesson
      /\ \/ /\ author[p].pc = "planSave"
            /\ course' = [course EXCEPT ![c] = Stats(read)]
            /\ drifted' = IF read = LessonsOf(c, module', lesson') THEN (drifted \cup Changed \cup Dropped) \ {c}
                          ELSE drifted \cup Changed \cup Dropped \cup {c}
         \/ author[p].pc = "planCommit" /\ course' = course /\ LeftBehind(Null)
      /\ author' = [author EXCEPT ![p] = NoAuthoring]
      /\ UNCHANGED <<resource, taken>>
  BY <1>1, <1>2, <1>3 DEF PlanSave, AuthorEnd
<1>5. /\ author \in [Proc -> Authoring] /\ author[p] \in Authoring /\ AuthoringOf(author[p])
      /\ course \in [Course -> {Null} \cup CourseRow] /\ module \in Modules /\ lesson \in Lessons
      /\ taken \subseteq Course \cup Module \cup Lesson /\ drifted \subseteq Course
  BY StockedIs
<1>6. author[p].pc \in PlanSteps
  BY <1>4 DEF PlanSteps
<1>7. /\ c \in Course /\ c \in taken /\ c # Null /\ author[p].found \in [module : Modules, lesson : Lessons]
      /\ author[p].pc = "planCommit" => ~author[p].own.course
  BY <1>1, <1>5, <1>6, CatalogAssumption DEF AuthoringOf, PlanSteps
<1>8. IsFiniteSet(read) /\ \A x \in read : x[2] \in Nat
  <2>1. IsFiniteSet(read)
    BY <1>2, <1>5 DEF AuthoringOf
  <2>2. read \subseteq Lesson \X Nat
    BY <1>2, <1>5 DEF Authoring
  <2> QED BY <2>1, <2>2
<1>9. Stats(read) \in CourseRow /\ Stats(read) # Null
  BY <1>8, StatsType, CatalogNullAssumption
<1>10. /\ db.module = [m \in Module |-> IF m \in author[p].own.module THEN author[p].found.module[m] ELSE module[m]]
       /\ db.lesson = [l \in Lesson |-> IF l \in author[p].own.lesson THEN author[p].found.lesson[l] ELSE lesson[l]]
  BY <1>3 DEF Seen
<1>11. module' \in Modules /\ lesson' \in Lessons
  BY <1>4, <1>5, <1>7, <1>10 DEF Modules, Lessons
<1>12. /\ \A m \in Module : module'[m] # Null =>
             m \in taken /\ (course[module'[m]] # Null \/ (author[p].own.course /\ module'[m] = c))
       /\ \A l \in Lesson : lesson'[l] # Null =>
             l \in taken /\ HasVideo(lesson'[l]) /\ module'[lesson'[l].moduleId] # Null
  BY <1>1, <1>3, <1>4, <1>6 DEF Writing, WritingOf
<1>13. /\ course' \in [Course -> {Null} \cup CourseRow] /\ \A d \in Course \ {c} : course'[d] = course[d]
       /\ author[p].pc = "planSave" => course'[c] = Stats(read)
       /\ author[p].pc = "planCommit" => course'[c] = course[c]
  BY <1>4, <1>5, <1>7, <1>9
<1>14. ASSUME NEW d \in Course
       PROVE  MatchOf(d)'
  <2>1. CASE d = c /\ author[p].pc = "planSave"
    <3>1. c \notin drifted' => read = LessonsOf(c, module', lesson')
      BY <1>4, <2>1
    <3>2. LessonsOf(c, module, lesson)' = LessonsOf(c, module', lesson')
      BY DEF LessonsOf
    <3> QED BY <1>13, <2>1, <3>1, <3>2 DEF MatchOf
  <2>2. CASE d # c \/ author[p].pc # "planSave"
    <3>1. d # Null /\ MatchOf(d)
      BY StockedIs
    <3>2. course'[d] = course[d]
      BY <1>4, <1>13, <2>2
    <3>3. d \notin drifted' => d \notin drifted /\ d \notin Changed /\ d \notin Dropped
      BY <1>4, <2>2, <3>1 DEF LeftBehind
    <3> QED BY <3>1, <3>2, <3>3, NotDrifted
  <2> QED BY <2>1, <2>2
<1>15. ASSUME NEW m \in Module, module'[m] # Null
       PROVE  m \in taken' /\ course'[module'[m]] # Null
  <2>1. module'[m] \in Course
    BY <1>11, <1>15 DEF Modules
  <2>2. m \in taken /\ (course[module'[m]] # Null \/ (author[p].own.course /\ module'[m] = c))
    BY <1>12, <1>15
  <2> QED BY <1>4, <1>7, <1>9, <1>13, <2>1, <2>2
<1>16. \A l \in Lesson : lesson'[l] # Null => l \in taken' /\ module'[lesson'[l].moduleId] # Null /\ HasVideo(lesson'[l])
  BY <1>4, <1>12
<1>17. \A d \in Course : course'[d] # Null => d \in taken'
  BY <1>4, <1>7, <1>13, StockedIs
<1>18. drifted' \subseteq Course
  BY <1>4, <1>5, <1>7 DEF Changed, Dropped, LeftBehind
<1> QED BY <1>4, <1>5, <1>11, <1>13, <1>14, <1>15, <1>16, <1>17, <1>18, NoAuthoringTyped, AuthorLoud

\* What a step of a request starts from, and leaves of the others'.
LEMMA AuthorsStay ==
    ASSUME Stocked, NEW p \in Proc, AuthorServe(p) \/ AuthorContinue(p)
    PROVE  /\ \A q \in Proc \ {p} : author'[q] = author[q]
           /\ taken \subseteq taken' /\ \A v \in Resource : resource[v] # Null => resource'[v] # Null
<1>1. author \in [Proc -> Authoring] /\ resource \in [Resource -> {Null} \cup ResourceRow]
  BY StockedIs
<1>2. ASSUME author' = author \/ \E r : author' = [author EXCEPT ![p] = r]
      PROVE  \A q \in Proc \ {p} : author'[q] = author[q]
  BY <1>1, <1>2
<1>3. CASE AuthorServe(p)
  <2>1. CASE \E v \in Resource : ResourceCreate(v)
    BY <1>1, <2>1, CatalogNullAssumption DEF ResourceCreate, ResourceRow
  <2>2. CASE CourseCreate(p)
    BY <2>2 DEF CourseCreate
  <2>3. CASE CourseFind(p) \/ ModuleFind(p) \/ LessonFind(p) \/ ResourceHook(p)
    <3>1. UNCHANGED <<taken, resource>> /\ \E r : author' = [author EXCEPT ![p] = r]
      <4>1. CASE CourseFind(p)
        BY <4>1 DEF CourseFind, AuthorBegin, rows
      <4>2. CASE ModuleFind(p)
        BY <4>2 DEF ModuleFind, AuthorBegin, rows
      <4>3. CASE LessonFind(p)
        BY <4>3 DEF LessonFind, AuthorBegin, rows
      <4>4. CASE ResourceHook(p)
        BY <4>4 DEF ResourceHook, AuthorBegin, rows
      <4> QED BY <2>3, <4>1, <4>2, <4>3, <4>4
    <3> QED BY <1>2, <3>1
  <2> QED BY <1>3, <2>1, <2>2, <2>3 DEF AuthorServe
<1>4. CASE AuthorContinue(p)
  <2>1. /\ author' = author \/ \E r : author' = [author EXCEPT ![p] = r]
        /\ taken \subseteq taken'
    <3>1. CASE PlanApply(p)
      BY <3>1, PlanApplyIs
    <3>2. CASE PlanLessons(p) \/ StatsLessons(p)
      <4>1. ASSUME NEW step, NEW read, author' = [author EXCEPT ![p].pc = step, ![p].read = read]
            PROVE  \E r : author' = [author EXCEPT ![p] = r]
        BY <1>1, <4>1
      <4> QED BY <3>2, <4>1 DEF PlanLessons, StatsLessons, rows
    <3>3. CASE StatsModule(p)
      BY <1>1, <3>3 DEF StatsModule, AuthorEnd, rows
    <3>4. CASE CourseSave(p) \/ PlanCourse(p) \/ PlanSave(p) \/ CourseRemove(p) \/ ModuleSave(p) \/ ModuleRemove(p)
               \/ LessonSave(p) \/ LessonRemove(p) \/ ResourceSave(p) \/ LinkedFind(p) \/ StatsCourse(p) \/ StatsSave(p) \/ AuthorHalt(p)
      <4>1. taken' = taken
        BY <3>4 DEF CourseSave, PlanCourse, PlanSave, CourseRemove, ModuleSave, ModuleRemove, LessonSave, LessonRemove,
                    ResourceSave, LinkedFind, StatsCourse, StatsSave, AuthorHalt, rows
      <4>2. \E r : author' = [author EXCEPT ![p] = r]
        BY <3>4 DEF CourseSave, PlanCourse, PlanSave, CourseRemove, ModuleSave, ModuleRemove, LessonSave, LessonRemove,
                    ResourceSave, LinkedFind, StatsCourse, StatsSave, AuthorHalt, AuthorEnd, AuthorTo, Refresh
      <4> QED BY <4>1, <4>2
    <3>5. CASE ModuleInsert(p) \/ LessonInsert(p)
      BY <3>5 DEF ModuleInsert, LessonInsert, AuthorEnd, Refresh
    <3> QED BY <1>4, <3>1, <3>2, <3>3, <3>4, <3>5 DEF AuthorContinue
  <2>2. \A v \in Resource : resource[v] # Null => resource'[v] # Null
    <3>1. CASE ResourceSave(p)
      <4>1. author[p].row \in ResourceRow /\ author[p].row # Null
        BY <3>1, StockedIs, CatalogNullAssumption DEF ResourceSave, AuthoringOf
      <4> QED BY <1>1, <3>1, <4>1 DEF ResourceSave
    <3>2. CASE ~ResourceSave(p)
      <4>1. resource' = resource
        BY <1>4, <3>2 DEF AuthorContinue, CourseSave, PlanApply, PlanLessons, PlanCourse, PlanSave, CourseRemove, ModuleInsert, ModuleSave,
                          ModuleRemove, LessonInsert, LessonSave, LessonRemove, LinkedFind, StatsModule, StatsLessons, StatsCourse,
                          StatsSave, AuthorHalt, rows
      <4> QED BY <4>1
    <3> QED BY <3>1, <3>2
  <2> QED BY <1>2, <2>1, <2>2
<1> QED BY <1>3, <1>4

\* An open transaction that goes on in the same rows keeps its foreign keys, if what is written
\* collides with none of them.
LEMMA WritingKept ==
    ASSUME Stocked, Stocked', NEW q \in Proc, NEW r \in Authoring, AuthoringOf(r), WritingOf(r),
           taken \subseteq taken', \A v \in Resource : resource[v] # Null => resource'[v] # Null,
           UNCHANGED <<course, module, lesson>> \/ (r.own # NoRows => ~Collide(Statement, Open(r)))
    PROVE  WritingOf(r)'
<1> SUFFICES ASSUME r.pc \in PlanSteps
             PROVE  WritingOf(r)'
  BY DEF WritingOf
<1>1. PICK own : own = r.own
  OBVIOUS
<1>2. PICK found \in [module : Modules, lesson : Lessons] : found = r.found
  BY DEF AuthoringOf
<1>3. own \in [course : BOOLEAN, module : SUBSET Module, lesson : SUBSET Lesson]
  BY <1>1 DEF Authoring
<1>4. /\ \A m \in Module : Seen(r).module[m] = IF m \in own.module THEN found.module[m] ELSE module[m]
      /\ \A l \in Lesson : Seen(r).lesson[l] = IF l \in own.lesson THEN found.lesson[l] ELSE lesson[l]
      /\ \A m \in Module : Seen(r)'.module[m] = IF m \in own.module THEN found.module[m] ELSE module'[m]
      /\ \A l \in Lesson : Seen(r)'.lesson[l] = IF l \in own.lesson THEN found.lesson[l] ELSE lesson'[l]
  BY <1>1, <1>2 DEF Seen
<1>5. /\ \A m \in Module : Seen(r).module[m] # Null =>
            m \in taken /\ (course[Seen(r).module[m]] # Null \/ (own.course /\ Seen(r).module[m] = r.course))
      /\ \A l \in Lesson : Seen(r).lesson[l] # Null =>
            l \in taken /\ HasVideo(Seen(r).lesson[l]) /\ Seen(r).module[Seen(r).lesson[l].moduleId] # Null
  BY <1>1 DEF WritingOf
<1>6. /\ course \in [Course -> {Null} \cup CourseRow] /\ module \in Modules /\ lesson \in Lessons
      /\ \A m \in Module : module[m] # Null => module[m] \in Course
  BY StockedIs
<1>7. /\ module' \in Modules /\ lesson' \in Lessons
      /\ \A m \in Module : module'[m] # Null => m \in taken' /\ course'[module'[m]] # Null
      /\ \A l \in Lesson : lesson'[l] # Null => l \in taken' /\ HasVideo(lesson[l])' /\ module'[lesson'[l].moduleId] # Null
  BY DEF Stocked, CatalogTypes
<1>8. \/ \A x \in Course : course'[x] = course[x] \/ course[x] = Null \/ course'[x] # Null \/ \A m \in own.module : found.module[m] # x
      \/ own = NoRows
  BY <1>1, <1>2, <1>3 DEF Collide, Statement, Open
<1>9. ASSUME NEW m \in own.module, found.module[m] # Null, course[found.module[m]] # Null
      PROVE  course'[found.module[m]] # Null
  <2>1. found.module[m] \in Course /\ own.module # {}
    BY <1>2, <1>3, <1>9 DEF Modules
  <2>2. own # NoRows
    BY <2>1 DEF NoRows
  <2> QED BY <1>8, <1>9, <2>1, <2>2
<1>10. ASSUME NEW l \in own.lesson, found.lesson[l] # Null, NEW k \in Module, k = found.lesson[l].moduleId, module[k] # Null, k \notin own.module
       PROVE  module'[k] # Null
  <2>1. own # NoRows
    BY <1>10 DEF NoRows
  <2>2. CASE UNCHANGED <<course, module, lesson>>
    BY <1>10, <2>2
  <2>3. CASE ~Collide(Statement, Open(r))
    <3>1. Parents(Open(r)) \cap Removed(Statement) = {}
      BY <2>3 DEF Collide
    <3>2. k \in Parents(Open(r))
      BY <1>1, <1>2, <1>10 DEF Parents, Open
    <3>3. module'[k] = Null => k \in Removed(Statement)
      BY <1>10 DEF Removed, Statement
    <3> QED BY <3>1, <3>2, <3>3
  <2> QED BY <1>1, <2>1, <2>2, <2>3
<1>11. ASSUME NEW l \in Lesson \ own.lesson, lesson'[l] # Null, NEW k \in own.module, k = lesson'[l].moduleId
       PROVE  found.module[k] # Null
  <2>1. own # NoRows
    BY <1>11 DEF NoRows
  <2>2. CASE lesson'[l] = lesson[l]
    <3>1. Seen(r).lesson[l] = lesson[l] /\ k \in Module
      BY <1>3, <1>4, <1>11
    <3> QED BY <1>4, <1>5, <1>11, <2>2, <3>1
  <2>3. CASE lesson'[l] # lesson[l]
    <3>1. ~Collide(Statement, Open(r))
      BY <1>1, <2>1, <2>3
    <3>2. Parents(Statement) \cap Removed(Open(r)) = {}
      BY <3>1 DEF Collide
    <3>3. k \in Parents(Statement)
      BY <1>11, <2>3 DEF Parents, Statement
    <3>4. found.module[k] = Null => k \in Removed(Open(r))
      BY <1>1, <1>2, <1>11 DEF Removed, Open
    <3> QED BY <3>2, <3>3, <3>4
  <2> QED BY <2>2, <2>3
<1>12. ASSUME NEW m \in Module, Seen(r)'.module[m] # Null
       PROVE  m \in taken' /\ (course'[Seen(r)'.module[m]] # Null \/ (own.course /\ Seen(r)'.module[m] = r.course))
  <2>1. CASE m \in own.module
    BY <1>4, <1>5, <1>9, <1>12, <2>1
  <2>2. CASE m \notin own.module
    BY <1>4, <1>7, <1>12, <2>2
  <2> QED BY <2>1, <2>2
<1>13. ASSUME NEW l \in Lesson, Seen(r)'.lesson[l] # Null
       PROVE  l \in taken' /\ HasVideo(Seen(r).lesson[l])' /\ Seen(r)'.module[Seen(r)'.lesson[l].moduleId] # Null
  <2>1. CASE l \in own.lesson
    <3>1. Seen(r).lesson[l] = found.lesson[l] /\ Seen(r)'.lesson[l] = found.lesson[l] /\ found.lesson[l] # Null
      BY <1>4, <1>13, <2>1
    <3>2. found.lesson[l] \in LessonRow /\ found.lesson[l].moduleId \in Module
      BY <1>2, <3>1 DEF Lessons, LessonRow
    <3>3. PICK k \in Module : k = found.lesson[l].moduleId
      BY <3>2
    <3>4. l \in taken /\ HasVideo(found.lesson[l]) /\ Seen(r).module[k] # Null
      BY <1>5, <3>1, <3>3
    <3>5. HasVideo(Seen(r).lesson[l])'
      BY <3>1, <3>2, <3>4 DEF HasVideo, LessonRow
    <3>6. Seen(r)'.module[k] # Null
      <4>1. CASE k \in own.module
        BY <1>4, <3>4, <4>1
      <4>2. CASE k \notin own.module
        <5>1. module[k] # Null
          BY <1>4, <3>4, <4>2
        <5> QED BY <1>4, <1>10, <2>1, <3>1, <3>3, <4>2, <5>1
      <4> QED BY <4>1, <4>2
    <3> QED BY <3>1, <3>3, <3>4, <3>5, <3>6
  <2>2. CASE l \notin own.lesson
    <3>1. Seen(r)'.lesson[l] = lesson'[l] /\ lesson'[l] # Null
      BY <1>4, <1>13, <2>2
    <3>2. lesson'[l] \in LessonRow /\ lesson'[l].moduleId \in Module
      BY <1>7, <3>1 DEF Lessons, LessonRow
    <3>3. PICK k \in Module : k = lesson'[l].moduleId
      BY <3>2
    <3>4. l \in taken' /\ HasVideo(lesson[l])' /\ module'[k] # Null
      BY <1>7, <3>1, <3>3
    <3>5. Seen(r)'.module[k] # Null
      <4>1. CASE k \in own.module
        BY <1>4, <1>11, <2>2, <3>1, <3>3, <4>1
      <4>2. CASE k \notin own.module
        BY <1>4, <3>4, <4>2
      <4> QED BY <4>1, <4>2
    <3> QED BY <3>1, <3>3, <3>4, <3>5 DEF HasVideo
  <2> QED BY <2>1, <2>2
<1> QED BY <1>1, <1>12, <1>13 DEF WritingOf

\* Only updateCourse() opens a transaction that stays open, or goes on with it.
LEMMA NotPlanning ==
    ASSUME Stocked, NEW p \in Proc,
           \/ PlanSave(p) \/ CourseCreate(p) \/ CourseFind(p) \/ ModuleFind(p) \/ LessonFind(p) \/ ResourceHook(p)
           \/ CourseSave(p) \/ CourseRemove(p) \/ ModuleInsert(p) \/ ModuleSave(p) \/ ModuleRemove(p)
           \/ LessonInsert(p) \/ LessonSave(p) \/ LessonRemove(p) \/ ResourceSave(p) \/ LinkedFind(p)
           \/ StatsModule(p) \/ StatsLessons(p) \/ StatsCourse(p) \/ StatsSave(p) \/ AuthorHalt(p)
    PROVE  author'[p].pc \notin PlanSteps
<1>1. author \in [Proc -> Authoring]
  BY StockedIs
<1>2. ASSUME author' = [author EXCEPT ![p] = NoAuthoring]
      PROVE  author'[p].pc \notin PlanSteps
  BY <1>1, <1>2, NoAuthoringTyped DEF PlanSteps
<1>3. ASSUME NEW step, step \notin PlanSteps,
             \/ author' = [author EXCEPT ![p].pc = step]
             \/ \E x : author' = [author EXCEPT ![p].pc = step, ![p].course = x] \/ author' = [author EXCEPT ![p].pc = step, ![p].read = x]
      PROVE  author'[p].pc \notin PlanSteps
  BY <1>1, <1>3 DEF Authoring
<1>4. ASSUME NEW r, r.pc \notin PlanSteps, author' = [author EXCEPT ![p] = r]
      PROVE  author'[p].pc \notin PlanSteps
  BY <1>1, <1>4
<1>5. ASSUME NEW x, NEW y, NEW z, NEW step, step \notin PlanSteps
      PROVE  /\ [Found(step, x) EXCEPT !.course = y].pc \notin PlanSteps
             /\ [Found(step, x) EXCEPT !.module = y].pc \notin PlanSteps
             /\ [Found(step, x) EXCEPT !.lesson = y].pc \notin PlanSteps
             /\ [Found(step, x) EXCEPT !.video = y].pc \notin PlanSteps
             /\ [Found(step, x) EXCEPT !.lesson = y, !.module = z, !.refresh = TRUE].pc \notin PlanSteps
  BY <1>5 DEF Found, NoAuthoring
<1>6. CASE CourseCreate(p)
  BY <1>6 DEF CourseCreate, PlanSteps
<1>7. CASE CourseFind(p)
  <2>1. ASSUME NEW c \in Course, AuthorBegin(p, [Found("courseSave", course[c]) EXCEPT !.course = c])
        PROVE  author'[p].pc \notin PlanSteps
    BY <1>1, <2>1 DEF AuthorBegin, Found, NoAuthoring, PlanSteps
  <2>2. ASSUME NEW c \in Course, NEW plan, NEW replace,
               AuthorBegin(p, [Found("planApply", course[c]) EXCEPT !.course = c, !.found = Content(c),
                                                                    !.plan = plan, !.replace = replace])
        PROVE  author'[p].pc \notin PlanSteps
    BY <1>1, <2>2 DEF AuthorBegin, Found, NoAuthoring, PlanSteps
  <2>3. ASSUME NEW c \in Course, AuthorBegin(p, [Found("courseRemove", course[c]) EXCEPT !.course = c])
        PROVE  author'[p].pc \notin PlanSteps
    BY <1>1, <2>3 DEF AuthorBegin, Found, NoAuthoring, PlanSteps
  <2> QED BY <1>7, <2>1, <2>2, <2>3 DEF CourseFind
<1>8. CASE ModuleFind(p)
  <2>1. ASSUME NEW c \in Course, AuthorBegin(p, [Found("moduleInsert", Null) EXCEPT !.course = c])
        PROVE  author'[p].pc \notin PlanSteps
    BY <1>1, <2>1 DEF AuthorBegin, Found, NoAuthoring, PlanSteps
  <2>2. ASSUME NEW m \in Module, NEW step \in {"moduleSave", "moduleRemove"},
               AuthorBegin(p, [Found(step, module[m]) EXCEPT !.module = m])
        PROVE  author'[p].pc \notin PlanSteps
    BY <1>1, <2>2 DEF AuthorBegin, Found, NoAuthoring, PlanSteps
  <2> QED BY <1>8, <2>1, <2>2 DEF ModuleFind
<1>9. CASE LessonFind(p)
  <2>1. ASSUME NEW m \in Module, NEW row, AuthorBegin(p, [Found("lessonInsert", row) EXCEPT !.module = m])
        PROVE  author'[p].pc \notin PlanSteps
    BY <1>1, <2>1 DEF AuthorBegin, Found, NoAuthoring, PlanSteps
  <2>2. ASSUME NEW l \in Lesson, AuthorBegin(p, [Found("lessonSave", lesson[l]) EXCEPT !.lesson = l])
        PROVE  author'[p].pc \notin PlanSteps
    BY <1>1, <2>2 DEF AuthorBegin, Found, NoAuthoring, PlanSteps
  <2>3. ASSUME NEW l \in Lesson, NEW row, NEW m, NEW step \in {"lessonSave", "lessonRemove"},
               AuthorBegin(p, [Found(step, row) EXCEPT !.lesson = l, !.module = m, !.refresh = TRUE])
        PROVE  author'[p].pc \notin PlanSteps
    BY <1>1, <2>3 DEF AuthorBegin, Found, NoAuthoring, PlanSteps
  <2> QED BY <1>9, <2>1, <2>2, <2>3 DEF LessonFind
<1>10. CASE ResourceHook(p)
  <2>1. ASSUME NEW v \in Resource, NEW row, AuthorBegin(p, [Found("resourceSave", row) EXCEPT !.video = v])
        PROVE  author'[p].pc \notin PlanSteps
    BY <1>1, <2>1 DEF AuthorBegin, Found, NoAuthoring, PlanSteps
  <2> QED BY <1>10, <2>1 DEF ResourceHook
<1>11. CASE PlanSave(p) \/ CourseSave(p) \/ CourseRemove(p) \/ ModuleInsert(p) \/ ModuleSave(p) \/ ModuleRemove(p) \/ StatsSave(p) \/ AuthorHalt(p)
  BY <1>2, <1>11 DEF PlanSave, CourseSave, CourseRemove, ModuleInsert, ModuleSave, ModuleRemove, StatsSave, AuthorHalt, AuthorEnd
<1>12. CASE LessonInsert(p) \/ LessonSave(p) \/ LessonRemove(p)
  <2>1. [NoAuthoring EXCEPT !.pc = "statsModule", !.module = author[p].module].pc \notin PlanSteps
    BY DEF NoAuthoring, PlanSteps
  <2>2. AuthorEnd(p) \/ Refresh(p)
    BY <1>12 DEF LessonInsert, LessonSave, LessonRemove
  <2> QED BY <1>2, <1>4, <2>1, <2>2 DEF AuthorEnd, Refresh
<1>13. CASE ResourceSave(p)
  <2>1. "linkedFind" \notin PlanSteps
    BY DEF PlanSteps
  <2> QED BY <1>2, <1>3, <1>13, <2>1 DEF ResourceSave, AuthorTo, AuthorEnd
<1>14. CASE LinkedFind(p)
  <2>1. ASSUME NEW l \in Lesson, NEW m, NEW row,
               author' = [author EXCEPT ![p] = [[NoAuthoring EXCEPT !.module = m] EXCEPT !.pc = "statsModule"]]
        PROVE  author'[p].pc \notin PlanSteps
    BY <1>1, <2>1 DEF NoAuthoring, PlanSteps
  <2>2. ASSUME NEW l \in Lesson, NEW m, NEW row,
               author' = [author EXCEPT ![p] = [[NoAuthoring EXCEPT !.module = m] EXCEPT !.pc = "lessonSave", !.lesson = l,
                                                                                        !.refresh = TRUE, !.row = row]]
        PROVE  author'[p].pc \notin PlanSteps
    BY <1>1, <2>2 DEF NoAuthoring, PlanSteps
  <2>3. PICK minutes : minutes = (author[p].row.durationSeconds + 59) \div 60
    OBVIOUS
  <2>4. CASE \E l \in Lesson :
               author' = [author EXCEPT ![p] =
                  IF lesson[l].durationMinutes = minutes
                  THEN [[NoAuthoring EXCEPT !.module = lesson[l].moduleId] EXCEPT !.pc = "statsModule"]
                  ELSE [[NoAuthoring EXCEPT !.module = lesson[l].moduleId] EXCEPT !.pc = "lessonSave", !.lesson = l, !.refresh = TRUE,
                                    !.row = [lesson[l] EXCEPT !.durationMinutes = minutes]]]
    <3>1. PICK l \in Lesson :
               author' = [author EXCEPT ![p] =
                  IF lesson[l].durationMinutes = minutes
                  THEN [[NoAuthoring EXCEPT !.module = lesson[l].moduleId] EXCEPT !.pc = "statsModule"]
                  ELSE [[NoAuthoring EXCEPT !.module = lesson[l].moduleId] EXCEPT !.pc = "lessonSave", !.lesson = l, !.refresh = TRUE,
                                    !.row = [lesson[l] EXCEPT !.durationMinutes = minutes]]]
      BY <2>4
    <3>2. CASE lesson[l].durationMinutes = minutes
      BY <2>1, <3>1, <3>2
    <3>3. CASE lesson[l].durationMinutes # minutes
      BY <2>2, <3>1, <3>3
    <3> QED BY <3>2, <3>3
  <2> QED BY <1>2, <1>14, <2>3, <2>4 DEF LinkedFind, AuthorEnd
<1>15. CASE StatsModule(p) \/ StatsLessons(p) \/ StatsCourse(p)
  <2>1. "statsLessons" \notin PlanSteps /\ "statsCourse" \notin PlanSteps /\ "statsSave" \notin PlanSteps
    BY DEF PlanSteps
  <2> QED BY <1>2, <1>3, <1>15, <2>1 DEF StatsModule, StatsLessons, StatsCourse, AuthorTo, AuthorEnd
<1> QED BY <1>6, <1>7, <1>8, <1>9, <1>10, <1>11, <1>12, <1>13, <1>14, <1>15

LEMMA WritingStep ==
    ASSUME Stocked, Stocked', Writing, NEW p \in Proc, AuthorServe(p) \/ AuthorContinue(p), Unlocked(p)
    PROVE  Writing'
<1>1. /\ \A q \in Proc \ {p} : author'[q] = author[q]
      /\ taken \subseteq taken' /\ \A v \in Resource : resource[v] # Null => resource'[v] # Null
  BY AuthorsStay
<1>2. author \in [Proc -> Authoring] /\ \A q \in Proc : author[q] \in Authoring /\ AuthoringOf(author[q])
  BY DEF Stocked, CatalogTypes
<1>3. ASSUME NEW q \in Proc \ {p}
      PROVE  WritingOf(author[q])'
  <2>1. PICK r \in Authoring : r = author[q]
    BY <1>2
  <2>2. r.own # NoRows => ~Collide(Statement, Open(r))
    BY <2>1 DEF Unlocked
  <2>3. WritingOf(r)'
    BY <1>1, <1>2, <2>1, <2>2, WritingKept DEF Writing
  <2>4. author'[q] = r
    BY <1>1, <2>1
  <2>5. Seen(author[q])' = Seen(r)'
    BY <2>4 DEF Seen
  <2> QED BY <2>3, <2>4, <2>5 DEF WritingOf, HasVideo
<1>4. WritingOf(author[p])'
  <2>1. ASSUME author'[p].pc \notin PlanSteps
        PROVE  WritingOf(author[p])'
    BY <2>1 DEF WritingOf
  <2>2. ASSUME UNCHANGED <<course, module, lesson>>, NEW r \in Authoring, r = author[p], author'[p].pc \in PlanSteps => r.pc \in PlanSteps,
               author'[p].own = r.own, author'[p].found = r.found, author'[p].course = r.course
        PROVE  WritingOf(author[p])'
    <3>1. Seen(author[p])' = Seen(r)'
      BY <2>2 DEF Seen
    <3>2. WritingOf(r)'
      BY <1>1, <1>2, <2>2, WritingKept DEF Writing
    <3>3. CASE r.pc \in PlanSteps
      BY <2>2, <3>1, <3>2, <3>3 DEF WritingOf, HasVideo
    <3> QED BY <2>1, <2>2, <3>3
  <2>3. CASE PlanApply(p)
    <3>1. PICK c : c = author[p].course
      OBVIOUS
    <3>2. CASE author'[p].pc \in PlanSteps
      <4>1. author' # [author EXCEPT ![p] = NoAuthoring]
        BY <1>2, <3>2, NoAuthoringTyped DEF PlanSteps
      <4>2. /\ c \in Course /\ c \in taken /\ author[p].row \in CourseRow /\ UNCHANGED <<course, module, lesson, resource>>
            /\ \E ids : \E db \in Curriculum(c, ids) : ids = taken' /\ author' = [author EXCEPT ![p] = Opened(author[p], db)]
        BY <2>3, <3>1, <4>1, PlanApplyIs
      <4>3. PICK db \in Curriculum(c, taken') : author' = [author EXCEPT ![p] = Opened(author[p], db)]
        BY <4>2
      <4>4. PICK r : r = Opened(author[p], db)
        OBVIOUS
      <4>5. r.course = c /\ (course[c] # author[p].row => r.own.course) /\ Seen(r) = [module |-> db.module, lesson |-> db.lesson]
        BY <3>1, <4>2, <4>4, OpenedIs
      <4>6. author'[p] = r
        BY <1>2, <4>3, <4>4
      <4>7. Seen(r)' = [module |-> db.module, lesson |-> db.lesson]
        BY <4>2, <4>5 DEF Seen
      <4>8. author[p].row # Null
        BY <4>2, CatalogNullAssumption
      <4>9. /\ \A k \in Module : db.module[k] # Null => k \in taken' /\ (db.module[k] = c \/ course[db.module[k]] # Null)
            /\ \A k \in Lesson : db.lesson[k] # Null =>
                  k \in taken' /\ db.module[db.lesson[k].moduleId] # Null /\ HasVideo(db.lesson[k])
        BY DEF Curriculum
      <4>10. \A k \in Lesson : HasVideo(db.lesson[k]) => HasVideo(db.lesson[k])'
        BY <4>2 DEF HasVideo
      <4>11. \A m \in Module : Seen(r)'.module[m] # Null =>
                m \in taken' /\ (course'[Seen(r)'.module[m]] # Null \/ (r.own.course /\ Seen(r)'.module[m] = r.course))
        BY <4>2, <4>5, <4>7, <4>8, <4>9
      <4>12. \A l \in Lesson : Seen(r)'.lesson[l] # Null =>
                l \in taken' /\ HasVideo(Seen(r).lesson[l])' /\ Seen(r)'.module[Seen(r)'.lesson[l].moduleId] # Null
        BY <4>7, <4>9, <4>10 DEF HasVideo
      <4>13. WritingOf(r)'
        BY <4>11, <4>12 DEF WritingOf
      <4>14. Seen(author[p])' = Seen(r)'
        BY <4>6 DEF Seen
      <4> QED BY <4>6, <4>13, <4>14 DEF WritingOf, HasVideo
    <3> QED BY <2>1, <3>2
  <2>4. CASE PlanLessons(p) \/ PlanCourse(p)
    <3>1. PICK r \in Authoring : r = author[p]
      BY <1>2
    <3>2. UNCHANGED <<course, module, lesson>> /\ r.pc \in PlanSteps
      BY <2>4, <3>1 DEF PlanLessons, PlanCourse, rows, PlanSteps
    <3>3. author'[p].own = r.own /\ author'[p].found = r.found /\ author'[p].course = r.course
      BY <1>2, <2>4, <3>1 DEF PlanLessons, PlanCourse, AuthorTo, Authoring
    <3> QED BY <2>2, <3>1, <3>2, <3>3
  <2>5. CASE author' = author /\ UNCHANGED <<course, module, lesson>>
    <3>1. PICK r \in Authoring : r = author[p]
      BY <1>2
    <3> QED BY <2>2, <2>5, <3>1
  <2>6. CASE \/ PlanSave(p) \/ CourseCreate(p) \/ CourseFind(p) \/ ModuleFind(p) \/ LessonFind(p) \/ ResourceHook(p)
             \/ CourseSave(p) \/ CourseRemove(p) \/ ModuleInsert(p) \/ ModuleSave(p) \/ ModuleRemove(p)
             \/ LessonInsert(p) \/ LessonSave(p) \/ LessonRemove(p) \/ ResourceSave(p) \/ LinkedFind(p)
             \/ StatsModule(p) \/ StatsLessons(p) \/ StatsCourse(p) \/ StatsSave(p) \/ AuthorHalt(p)
    BY <2>1, <2>6, NotPlanning
  <2>7. CASE \E v \in Resource : ResourceCreate(v)
    BY <2>5, <2>7 DEF ResourceCreate
  <2> QED BY <2>3, <2>4, <2>6, <2>7 DEF AuthorServe, AuthorContinue
<1> QED BY <1>1, <1>3, <1>4 DEF Writing

LEMMA StockedRest ==
    ASSUME Stocked, Writing, UNCHANGED catalog
    PROVE  Stocked' /\ Writing'
<1>1. UNCHANGED <<course, module, lesson, resource, taken, author, drifted>>
  BY DEF catalog
<1>2. (\A p \in Proc : AuthoringOf(author[p])') /\ (\A l \in Lesson : lesson[l] # Null => HasVideo(lesson[l])')
  BY <1>1 DEF Stocked, AuthoringOf, PlanSteps, HasVideo, Loaded
<1>3. StatsMatch'
  BY <1>1 DEF Stocked, StatsMatch, Refreshing, LessonsOf
<1>4. CatalogTypes'
  BY <1>1 DEF Stocked, CatalogTypes
<1>5. ASSUME NEW p \in Proc
      PROVE  WritingOf(author[p])'
  <2>1. Seen(author[p])' = Seen(author[p]) /\ (\A r : HasVideo(r)' = HasVideo(r))
    BY <1>1 DEF Seen, HasVideo
  <2>2. WritingOf(author[p])
    BY DEF Writing
  <2> QED BY <1>1, <2>1, <2>2 DEF WritingOf, HasVideo
<1> QED BY <1>1, <1>2, <1>3, <1>4, <1>5 DEF Stocked, Writing

LEMMA StockedStep ==
    ASSUME Stocked, Writing, CatalogNext
    PROVE  Stocked' /\ Writing'
<1>1. PICK p \in Proc : (AuthorServe(p) \/ AuthorContinue(p)) /\ Unlocked(p)
  BY DEF CatalogNext
<1>2. ASSUME AuthorServe(p) PROVE Stocked'
  BY <1>2, CourseCreateStep, CourseFindStep, ModuleFindStep, LessonFindStep, ResourceCreateStep, ResourceHookStep
     DEF AuthorServe
<1>3. ASSUME AuthorContinue(p) PROVE Stocked'
  BY <1>3, CourseSaveStep, PlanApplyStep, PlanLessonsStep, PlanCourseStep, PlanSaveStep, CourseRemoveStep, ModuleInsertStep, ModuleSaveStep, ModuleRemoveStep,
     LessonInsertStep, LessonSaveStep, LessonRemoveStep, ResourceSaveStep, LinkedFindStep,
     StatsModuleStep, StatsLessonsStep, StatsCourseStep, StatsSaveStep, AuthorHaltStep
     DEF AuthorContinue
<1>4. Stocked'
  BY <1>1, <1>2, <1>3
<1> QED BY <1>1, <1>4, WritingStep

(***************************************************************************)
(* The services side by side                                               *)
(***************************************************************************)
Inv == Stocked /\ Writing /\ Watching /\ Reporting /\ Noticing

\* The number of requests only grows.
LEMMA MadeGrows ==
    ASSUME made \in Nat, [Next]_vars
    PROVE  made' \in Nat /\ made' >= made
<1>1. SUFFICES made' = made \/ made' = made + 1
  OBVIOUS
<1>2. CASE UNCHANGED vars
  BY <1>2 DEF vars
<1>3. CASE CatalogNext
  <2>1. PICK p \in Proc : AuthorServe(p) \/ AuthorContinue(p)
    BY <1>3 DEF CatalogNext
  <2> QED BY <2>1 DEF AuthorServe, Request, AuthorContinue, CourseSave, PlanApply, CourseRemove, ModuleInsert, ModuleSave,
                      ModuleRemove, LessonInsert, LessonSave, LessonRemove, ResourceSave, LinkedFind, StatsModule,
                      StatsLessons, StatsCourse, StatsSave, AuthorHalt, PlanLessons, PlanCourse, PlanSave
<1>4. CASE VideosNext
  <2>1. PICK p \in Proc : ViewerServe(p) \/ ViewerContinue(p)
    BY <1>4 DEF VideosNext
  <2> QED BY <2>1 DEF ViewerServe, Request, ViewerContinue, UnifiedPost, LegacyPost, ResourceInsert, VideoInsert, PlayCheck,
                      VideoSave, ObjectRemove, HookInfo, WatchFind, WatchSave, ViewerHalt
<1>5. CASE ProgressNext
  BY <1>5 DEF ProgressNext, ReportServe, Request, Restart, ReportContinue, TimerFires, ReportFind, ReportSave, ReportFail
<1>6. CASE NotificationsNext
  BY <1>6 DEF NotificationsNext, SenderServe, Request, SenderContinue, Dispatch, NoticeSave, ReadSave, SenderHalt,
              BecomesDue, MailSend, MailFail
<1> QED BY <1>2, <1>3, <1>4, <1>5, <1>6 DEF Next

LEMMA InvInit ==
    ASSUME Init
    PROVE  Inv
<1>1. /\ CatalogInit(part = "catalog") /\ VideosInit(part = "videos") /\ ProgressInit(part = "progress")
      /\ NotificationsInit /\ RequestsInit
  BY DEF Init
<1>2. (part = "catalog") \in BOOLEAN /\ (part = "videos") \in BOOLEAN /\ (part = "progress") \in BOOLEAN
  OBVIOUS
<1>3. Writing
  BY <1>1, NoAuthoringTyped DEF CatalogInit, Writing, WritingOf, PlanSteps
<1> QED BY <1>1, <1>2, <1>3, StockedInit, WatchingInit, ReportingInit, NoticingInit DEF Inv

LEMMA InvStep ==
    ASSUME Inv, [Next]_vars
    PROVE  Inv'
<1>1. Stocked /\ Writing /\ Watching /\ Reporting /\ Noticing
  BY DEF Inv
<1>2. made' \in Nat /\ made' >= made
  BY <1>1, MadeGrows DEF Reporting
<1>3. Stocked' /\ Writing'
  BY <1>1, StockedStep, StockedRest DEF Next, vars
<1>4. Watching'
  BY <1>1, WatchingStep, WatchingRest DEF Next, vars
<1>5. Reporting'
  BY <1>1, <1>2, ReportingStep, ReportingRest DEF Next, vars
<1>6. Noticing'
  BY <1>1, NoticingStep, NoticingRest DEF Next, vars
<1> QED BY <1>3, <1>4, <1>5, <1>6 DEF Inv

\* Of every reachable state: what is stored, watched, reported and sent, and what the requests
\* in progress have remembered of it, fit together.
THEOREM Invariant == Spec => []Inv
<1>1. Init => Inv
  BY InvInit
<1>2. Inv /\ [Next]_vars => Inv'
  BY InvStep
<1> QED BY <1>1, <1>2, PTL DEF Spec

\* The rows, what requests hold and the history are well typed, a module belongs to a course
\* there is, and a lesson to a module there is: the foreign keys of 'modules' and 'lessons'.
THEOREM Types == Spec => []TypeOK
<1>1. Inv => TypeOK
  BY DEF Inv, Stocked, Watching, Reporting, Noticing, TypeOK
<1> QED BY <1>1, Invariant, PTL

\* updateCourseStats(), of both services: the numbers in a course's row are those of its
\* lessons, unless they are being refreshed or were left behind.
THEOREM StatsHold == Spec => []StatsMatch
<1>1. Inv => StatsMatch
  BY DEF Inv, Stocked
<1> QED BY <1>1, Invariant, PTL

\* A video that can be played has its object at Bunny, unless that was deleted there, and
\* Bunny has no object that no video names, unless a step between the two has failed.
THEOREM BunnyHolds == Spec => []BunnyMatches
<1>1. Inv => BunnyMatches
  BY DEF Inv, Watching
<1> QED BY <1>1, Invariant, PTL

\* processScheduledNotifications() and the queue: a mail is queued and goes out once, what is
\* marked delivered was queued, and what a user has read or deleted stays so, but for the
\* runs, answers and requests that have crossed.
THEOREM NoticesHold == Spec => []NotificationsStand
<1>1. Inv => NotificationsStand
  BY NoticingStands DEF Inv
<1> QED BY <1>1, Invariant, PTL

\* updateProgress(), of both services: a video watched to the end and content that was
\* completed stay so, and the time spent and the percentage are those of the reports saved,
\* unless one was saved over another, crossed another or failed.
THEOREM ReportsHold == Spec => ReportsStand
<1>1. Inv => ProgressStands
  BY ReportingStands DEF Inv
<1>2. ASSUME Inv, [Next]_vars
      PROVE  [\A v \in Video : watch[v] # Null /\ watch[v].isCompleted /\ v \notin rewound'
                 => watch'[v] # Null /\ watch'[v].isCompleted]_videos
  <2>1. Watching
    BY <1>2 DEF Inv
  <2>2. VideosNext \/ UNCHANGED videos
    BY <1>2 DEF Next, vars
  <2> QED BY <2>1, <2>2, WatchStep
<1>3. ASSUME Inv, [Next]_vars
      PROVE  [progress # Null /\ progress.completed /\ "stale" \notin amiss' => progress'.completed]_reports
  <2>1. Reporting
    BY <1>3 DEF Inv
  <2>2. ProgressNext \/ UNCHANGED reports
    BY <1>3 DEF Next, vars
  <2> QED BY <2>1, <2>2, CompletesStep
<1> QED BY <1>1, <1>2, <1>3, Invariant, PTL DEF Spec, ReportsStand, WatchStands, ProgressCompletes
=============================================================================
