------------------------------ MODULE Progress ------------------------------
(***************************************************************************)
(* ProgressService and ProgressGateway: how far one student is with one    *)
(* piece of content; each key has a row, a pending update and timers of    *)
(* its own. Reports that come over the socket wait for three seconds, and  *)
(* the next one replaces them; those that come over HTTP, and those of a   *)
(* completion, are saved at once. Each report has its number, and is found *)
(* and saved in two awaited calls. Positions and metadata are left out.    *)
(***************************************************************************)
EXTENDS Requests

CONSTANTS
    Percents,   \* progressPercent of a report
    Spendings   \* timeSpent of a report that has one

ASSUME ProgressAssumption == Percents \subseteq 0..100 /\ Spendings \subseteq Nat

Number == 1..MaxRequests

VARIABLES
    progress,  \* user_progress
    report,    \* the reports
    pending,   \* pendingUpdates: the number of a report, or 0
    counted,   \* history: the time of the reports that were saved
    latest,    \* history: the number of the report that came last
    amiss      \* history: what has befallen the reports

reports == <<progress, report, pending, counted, latest, amiss>>

ProgressRow == [progressPercent : 0..100, timeSpent : Nat, completed : BOOLEAN]

ASSUME ProgressNullAssumption == Null \notin ProgressRow

\* of is the number of the report it repeats, timed whether a timer has started it.
Report == [state : {"none", "waiting", "finding", "saving", "over"}, of : {0} \cup Number, timed : BOOLEAN,
           percent : 0..100, spent : {Null} \cup Nat, row : {Null} \cup ProgressRow]
NoReport == [state |-> "none", of |-> 0, timed |-> FALSE, percent |-> 0, spent |-> Null, row |-> Null]

\* A student half way, or one who has not begun.
ProgressInit(begun) ==
    /\ progress \in {Null} \cup (IF begun THEN {[progressPercent |-> 50, timeSpent |-> 0, completed |-> FALSE]} ELSE {})
    /\ report = [n \in Number |-> NoReport]
    /\ pending = 0 /\ counted = 0 /\ latest = 0
    /\ amiss = {}

ProgressTypes ==
    /\ progress \in {Null} \cup ProgressRow
    /\ report \in [Number -> Report]
    /\ pending \in {0} \cup Number
    /\ counted \in Nat /\ latest \in {0} \cup Number
    /\ amiss \subseteq {"stale", "crossing", "failed"}

Waiting(n) == n # 0 /\ report[n].state = "waiting"
Underway(n) == report[n].state \in {"waiting", "finding", "saving"}
Said(n, state, percent, spent) ==
    [NoReport EXCEPT !.state = state, !.of = n, !.percent = percent, !.spent = spent]

\* A report that comes while another is being saved, or waits for a timer that this one
\* does not clear, may be saved before it.
Arrives(others) ==
    amiss' = IF others # {} \/ \E k \in Number : report[k].state \in {"finding", "saving"}
             THEN amiss \cup {"crossing"} ELSE amiss

(***************************************************************************)
(* Reports                                                                 *)
(***************************************************************************)
\* POST /progress/update.
HttpReport(n) ==
    /\ \E percent \in Percents, spent \in {Null} \cup Spendings :
          report' = [report EXCEPT ![n] = Said(n, "finding", percent, spent)]
    /\ latest' = n
    /\ Arrives({k \in Number : Waiting(k)})
    /\ UNCHANGED <<progress, pending, counted>>

\* Mutant: the timer of the update that was pending goes on.
SocketReport_TimerKept(n) ==
    /\ \E percent \in Percents, spent \in {Null} \cup Spendings :
          LET state == IF percent >= 100 THEN "finding" ELSE "waiting" IN
          /\ report' = [report EXCEPT ![n] = Said(n, state, percent, spent)]
          /\ pending' = IF percent >= 100 THEN 0 ELSE n
    /\ latest' = n
    /\ Arrives({k \in Number : Waiting(k)} \ {pending})
    /\ UNCHANGED <<progress, counted>>

\* handleProgressUpdate(): the timer of the pending update is cleared, one that has gone off
\* already as well as it may be; a completion does not wait.
SocketReport(n) ==
    /\ \E percent \in Percents, spent \in {Null} \cup Spendings :
          LET state == IF percent >= 100 THEN "finding" ELSE "waiting"
              cleared == IF Waiting(pending) THEN [report EXCEPT ![pending].state = "over"] ELSE report
          IN  /\ report' = [cleared EXCEPT ![n] = Said(n, state, percent, spent)]
              /\ pending' = IF percent >= 100 THEN 0 ELSE n
    /\ latest' = n
    /\ Arrives({k \in Number : Waiting(k)} \ {pending})
    /\ UNCHANGED <<progress, counted>>

\* handleDisconnect(), of any of the student's sockets: what is pending is saved now, also
\* what is being saved.
Disconnect(n) ==
    /\ pending # 0
    /\ LET cleared == IF Waiting(pending) THEN [report EXCEPT ![pending].state = "over"] ELSE report IN
       report' = [cleared EXCEPT ![n] = [report[pending] EXCEPT !.state = "finding", !.timed = FALSE, !.row = Null]]
    /\ pending' = 0
    /\ UNCHANGED <<progress, counted, latest, amiss>>

(***************************************************************************)
(* Saving                                                                  *)
(***************************************************************************)
TimerFires(n) ==
    /\ Waiting(n)
    /\ report' = [report EXCEPT ![n].state = "finding", ![n].timed = TRUE]
    /\ UNCHANGED <<progress, pending, made, counted, latest, amiss>>

\* updateProgress(): the row as it is, or none, ...
ReportFind(n) ==
    /\ report[n].state = "finding"
    /\ report' = [report EXCEPT ![n].state = "saving", ![n].row = progress]
    /\ UNCHANGED <<progress, pending, made, counted, latest, amiss>>

\* Whichever report is pending when a timer's has been saved, it is forgotten; its timer goes on.
Over(n) ==
    /\ report' = [report EXCEPT ![n] = [@ EXCEPT !.state = "over", !.row = Null]]
    /\ pending' = IF report[n].timed THEN 0 ELSE pending

\* ... what the report adds to it, completed for good at 100 percent, ...
Reported(before, percent, spent) ==
    [progressPercent |-> percent, timeSpent |-> (IF before = Null THEN 0 ELSE before.timeSpent) + spent,
     completed |-> (before # Null /\ before.completed) \/ percent >= 100]

\* ... and the save: a second row is refused, and so is a first one with a time, because that
\* is added to a column which has no value yet.
ReportSave(n) ==
    LET r == report[n]
        spent == IF r.spent = Null THEN 0 ELSE r.spent
    IN  /\ r.state = "saving"
        /\ IF r.row = Null /\ (progress # Null \/ r.spent # Null)
           THEN /\ amiss' = amiss \cup {"failed"}
                /\ UNCHANGED <<progress, counted>>
           ELSE /\ progress' = Reported(r.row, r.percent, spent)
                /\ counted' = counted + spent
                /\ amiss' = IF progress # r.row THEN amiss \cup {"stale"} ELSE amiss
        /\ Over(n)
        /\ UNCHANGED <<made, latest>>

\* saveProgress() notes an error and goes on.
ReportFail(n) ==
    /\ report[n].state \in {"finding", "saving"}
    /\ Over(n)
    /\ amiss' = amiss \cup {"failed"}
    /\ UNCHANGED <<progress, made, counted, latest>>

\* The process stops, and with it the timers.
Restart ==
    /\ \E n \in Number : Underway(n)
    /\ report' = [n \in Number |-> [report[n] EXCEPT !.state = IF Underway(n) THEN "over" ELSE @, !.row = Null]]
    /\ pending' = 0
    /\ amiss' = amiss \cup {"failed"}
    /\ UNCHANGED <<progress, made, counted, latest>>

(***************************************************************************)
(* The service                                                             *)
(***************************************************************************)
ReportServe == LET n == made + 1 IN Request /\ n \in Number /\ (HttpReport(n) \/ SocketReport(n) \/ Disconnect(n))
ReportContinue(n) == TimerFires(n) \/ ReportFind(n) \/ ReportSave(n) \/ ReportFail(n)
ProgressNext == ReportServe \/ Restart \/ \E n \in Number : ReportContinue(n)

\* updateProgress(): the time spent is that of all reports saved, and a completion stays,
\* unless a report was saved over another; and when no report is under way the percentage is
\* that of the report that came last, unless it came while another was under way, or one failed.
ProgressStands ==
    /\ progress # Null /\ "stale" \notin amiss => progress.timeSpent = counted
    /\ (\A n \in Number : ~Underway(n)) /\ latest # 0 /\ amiss = {} => progress.progressPercent = report[latest].percent
ProgressCompletes ==
    [][progress # Null /\ progress.completed /\ "stale" \notin amiss' => progress'.completed]_reports
=============================================================================
