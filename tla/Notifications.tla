--------------------------- MODULE Notifications ---------------------------
(***************************************************************************)
(* NotificationsService: notifications sent at once or when they are due,  *)
(* by a job that runs every minute whether the run before it is over or    *)
(* not, and the queue the mails go through. Texts, templates, priorities   *)
(* and the sockets' events are left out, and so are the preferences:       *)
(* dispatch() does not read them.                                          *)
(***************************************************************************)
EXTENDS Requests

CONSTANTS
    Notice,        \* ids
    BatchSize,     \* take: notifications of one run of the job
    MailAttempts   \* attempts of a job of the queue

ASSUME NotificationsAssumption ==
    IsFiniteSet(Notice) /\ BatchSize \in Nat \ {0} /\ MailAttempts \in Nat \ {0} /\ Null \notin Notice

VARIABLES
    notice,     \* notifications
    known,      \* the ids that have been used
    due,        \* time: those whose scheduledAt has passed
    sender,     \* the requests and the runs in progress
    queue,      \* jobs of the e-mail queue
    queued,     \* history: mails put into the queue, of each notification
    mailed,     \* external: mails delivered, of each notification
    repeated,   \* history: those that may be sent twice
    told,       \* history: those a user was told are read, while no run had them
    gone        \* history: those deleted while nobody had them

notices == <<notice, known, due, sender, queue, queued, mailed, repeated, told, gone>>

\* push stands for SMS as well: neither is configured.
NoticeRow == [channel : {"in_app", "email", "push"}, status : {"pending", "sent", "delivered", "failed", "read"},
              readAt : BOOLEAN]

ASSUME NoticeNullAssumption == Null \notin NoticeRow

\* batch has the entities to dispatch, row the one being saved; own if send() made it, and so
\* has no readAt.
Sending == [pc : {"idle", "dispatch", "save", "readSave"}, batch : SUBSET (Notice \X NoticeRow), own : BOOLEAN,
            notice : {Null} \cup Notice, row : {Null} \cup NoticeRow]
NoSending == [pc |-> "idle", batch |-> {}, own |-> FALSE, notice |-> Null, row |-> Null]

NotificationsInit ==
    /\ notice = [n \in Notice |-> Null]
    /\ known = {} /\ due = {}
    /\ sender = [p \in Proc |-> NoSending]
    /\ queue = {}
    /\ queued = [n \in Notice |-> 0] /\ mailed = [n \in Notice |-> 0]
    /\ repeated = {} /\ told = {} /\ gone = {}

NotificationsTypes ==
    /\ notice \in [Notice -> {Null} \cup NoticeRow]
    /\ \A n \in Notice : notice[n] # Null => n \in known
    /\ sender \in [Proc -> Sending]
    /\ queue \subseteq [notice : known, number : Nat, attempt : 1..MailAttempts]
    /\ queued \in [Notice -> Nat] /\ mailed \in [Notice -> Nat]
    /\ due \cup repeated \cup told \cup gone \subseteq known /\ known \subseteq Notice

SenderBegin(p, memo) == sender[p].pc = "idle" /\ sender' = [sender EXCEPT ![p] = memo]
SenderEnd(p) == sender' = [sender EXCEPT ![p] = NoSending]

\* What process p will write back: entities of a run, or of send(), and the one to be read.
InRun(p) == {x[1] : x \in sender[p].batch} \cup (IF sender[p].pc = "save" THEN {sender[p].notice} ELSE {})
Held(p) == InRun(p) \cup (IF sender[p].pc = "readSave" THEN {sender[p].notice} ELSE {})

(***************************************************************************)
(* Sending                                                                 *)
(***************************************************************************)
Inserted(ids, row) ==
    /\ ids \cap known = {}
    /\ notice' = [n \in Notice |-> IF n \in ids THEN row ELSE notice[n]]
    /\ known' = known \cup ids
Row(channel, status) == [channel |-> channel, status |-> status, readAt |-> FALSE]

\* send(), also from a template: inserted as sent and dispatched, ...
Send(p) ==
    /\ \E n \in Notice, channel \in {"in_app", "email", "push"} :
          /\ Inserted({n}, Row(channel, "sent"))
          /\ SenderBegin(p, [NoSending EXCEPT !.pc = "dispatch", !.batch = {<<n, Row(channel, "sent")>>}, !.own = TRUE])
    /\ UNCHANGED <<due, queue, queued, mailed, repeated, told, gone>>

\* ... or scheduled, for a time that may have passed.
Schedule ==
    /\ \E n \in Notice, channel \in {"in_app", "email", "push"} :
          /\ Inserted({n}, Row(channel, "pending"))
          /\ due' \in {due, due \cup {n}}
    /\ UNCHANGED <<sender, queue, queued, mailed, repeated, told, gone>>

\* sendBulk(): those for now are not dispatched.
SendBulk ==
    /\ \E ids \in SUBSET Notice, status \in {"sent", "pending"} :
          ids # {} /\ Inserted(ids, Row("in_app", status))
    /\ UNCHANGED <<due, sender, queue, queued, mailed, repeated, told, gone>>

\* Time passes.
BecomesDue(n) ==
    /\ notice[n] # Null /\ notice[n].status = "pending" /\ n \notin due
    /\ due' = due \cup {n}
    /\ UNCHANGED <<notice, known, sender, queue, queued, mailed, made, repeated, told, gone>>

\* processScheduledNotifications(): those that are pending and due, whoever else has them.
ScheduledFind(p) ==
    LET found == {n \in due : notice[n] # Null /\ notice[n].status = "pending"}
    IN  /\ found # {}
        /\ \E taken \in SUBSET found :
              /\ Cardinality(taken) = (IF Cardinality(found) < BatchSize THEN Cardinality(found) ELSE BatchSize)
              /\ SenderBegin(p, [NoSending EXCEPT !.pc = "dispatch", !.batch = {<<n, notice[n]>> : n \in taken}])
              /\ repeated' = repeated \cup (taken \cap UNION {InRun(q) : q \in Proc})
        /\ UNCHANGED <<notice, known, due, queue, queued, mailed, told, gone>>

\* Mutant: a mail that was queued stays pending.
Dispatch_StatusKept(p) ==
    /\ sender[p].pc = "dispatch"
    /\ \E x \in sender[p].batch :
          LET n == x[1]
              saving == [sender[p] EXCEPT !.pc = "save", !.batch = @ \ {x}, !.notice = n, !.row = x[2]]
              as(status) == sender' = [sender EXCEPT ![p] = [saving EXCEPT !.row.status = status]]
          IN  \/ /\ x[2].channel = "email"
                 /\ queue' = queue \cup {[notice |-> n, number |-> queued[n] + 1, attempt |-> 1]}
                 /\ queued' = [queued EXCEPT ![n] = @ + 1]
                 /\ as(x[2].status)
              \/ /\ as(IF x[2].channel = "in_app" THEN "delivered" ELSE "failed")
                 /\ UNCHANGED <<queue, queued>>
    /\ UNCHANGED <<notice, known, due, mailed, made, repeated, told, gone>>

\* dispatch() of one of them: a mail is queued, which may fail, or seem to; ...
Dispatch(p) ==
    /\ sender[p].pc = "dispatch"
    /\ \E x \in sender[p].batch :
          LET n == x[1]
              saving == [sender[p] EXCEPT !.pc = "save", !.batch = @ \ {x}, !.notice = n, !.row = x[2]]
              as(status) == sender' = [sender EXCEPT ![p] = [saving EXCEPT !.row.status = status]]
          IN  \/ /\ x[2].channel = "email"
                 /\ queue' = queue \cup {[notice |-> n, number |-> queued[n] + 1, attempt |-> 1]}
                 /\ queued' = [queued EXCEPT ![n] = @ + 1]
                 /\ \E status \in {"delivered", "failed"} : as(status)
              \/ /\ as(IF x[2].channel = "in_app" THEN "delivered" ELSE "failed")
                 /\ UNCHANGED <<queue, queued>>
    /\ UNCHANGED <<notice, known, due, mailed, made, repeated, told, gone>>

\* ... and the whole row is saved: one that was read meanwhile is unread again if a run had
\* found it, and one that was deleted is back.
NoticeSave(p) ==
    LET memo == sender[p]
        n == memo.notice
    IN  /\ memo.pc = "save"
        /\ notice' = [notice EXCEPT ![n] =
              IF memo.own /\ @ # Null THEN [memo.row EXCEPT !.readAt = notice[n].readAt] ELSE memo.row]
        /\ IF memo.batch = {} THEN SenderEnd(p)
           ELSE sender' = [sender EXCEPT ![p].pc = "dispatch", ![p].notice = Null, ![p].row = Null]
        /\ UNCHANGED <<known, due, queue, queued, mailed, made, repeated, told, gone>>

(***************************************************************************)
(* The user's notifications                                                *)
(***************************************************************************)
\* Nothing a run has found and not saved yet makes this unread again.
Told(ids) == told' = told \cup (ids \ UNION {InRun(p) : p \in {q \in Proc : ~sender[q].own}})

\* markAsRead(): any notification, one that is still to be sent as well, which then is not.
ReadFind(p) ==
    /\ \E n \in Notice :
          /\ notice[n] # Null
          /\ SenderBegin(p, [NoSending EXCEPT !.pc = "readSave", !.notice = n,
                                              !.row = [notice[n] EXCEPT !.status = "read", !.readAt = TRUE]])
    /\ UNCHANGED <<notice, known, due, queue, queued, mailed, repeated, told, gone>>

ReadSave(p) ==
    /\ sender[p].pc = "readSave"
    /\ notice' = [notice EXCEPT ![sender[p].notice] = sender[p].row]
    /\ Told({sender[p].notice})
    /\ SenderEnd(p)
    /\ UNCHANGED <<known, due, queue, queued, mailed, made, repeated, gone>>

\* markAllAsRead(): one statement.
ReadAll ==
    LET unread == {n \in Notice : notice[n] # Null /\ ~notice[n].readAt} IN
    /\ unread # {}
    /\ notice' = [n \in Notice |-> IF n \in unread THEN [notice[n] EXCEPT !.status = "read", !.readAt = TRUE]
                                   ELSE notice[n]]
    /\ Told(unread)
    /\ UNCHANGED <<known, due, sender, queue, queued, mailed, repeated, gone>>

\* deleteNotification().
Delete ==
    /\ \E n \in Notice :
          /\ notice[n] # Null
          /\ notice' = [notice EXCEPT ![n] = Null]
          /\ gone' = gone \cup ({n} \ UNION {Held(p) : p \in Proc})
          /\ told' = told \ {n}
    /\ UNCHANGED <<known, due, sender, queue, queued, mailed, repeated>>

(***************************************************************************)
(* The e-mail queue                                                        *)
(***************************************************************************)
\* A job that fails is tried again, up to its attempts.
Again(job) == queue' = (queue \ {job}) \cup
                       (IF job.attempt < MailAttempts THEN {[job EXCEPT !.attempt = @ + 1]} ELSE {})

\* process() of EmailProcessor: the mail goes out, though the worker may not learn it.
MailSend(job) ==
    /\ mailed' = [mailed EXCEPT ![job.notice] = @ + 1]
    /\ \/ queue' = queue \ {job} /\ UNCHANGED repeated
       \/ Again(job) /\ repeated' = repeated \cup {job.notice}
    /\ UNCHANGED <<notice, known, due, sender, queued, made, told, gone>>

\* The mail does not go out, or the server has none configured and the job is done.
MailFail(job) ==
    /\ Again(job) \/ queue' = queue \ {job}
    /\ UNCHANGED <<notice, known, due, sender, queued, mailed, made, repeated, told, gone>>

\* A call fails, or the process stops: what has been queued may be found pending again.
SenderHalt(p) ==
    /\ sender[p].pc # "idle"
    /\ repeated' = IF sender[p].pc = "save" THEN repeated \cup {sender[p].notice} ELSE repeated
    /\ SenderEnd(p)
    /\ UNCHANGED <<notice, known, due, queue, queued, mailed, made, told, gone>>

(***************************************************************************)
(* The service                                                             *)
(***************************************************************************)
SenderContinue(p) == Dispatch(p) \/ NoticeSave(p) \/ ReadSave(p) \/ SenderHalt(p)

\* The routes of NotificationsController, and handleScheduledNotifications() of the tasks.
SenderServe(p) == (Send(p) \/ Schedule \/ SendBulk \/ ScheduledFind(p) \/ ReadFind(p) \/ ReadAll \/ Delete) /\ Request

NotificationsNext ==
    \/ \E p \in Proc : SenderServe(p) \/ SenderContinue(p)
    \/ \E n \in Notice : BecomesDue(n)
    \/ \E job \in queue : MailSend(job) \/ MailFail(job)

\* 'Only fetch notifications whose scheduledAt is in the past' (processScheduledNotifications):
\* a mail is queued once, and goes out once, unless a run found what another was still
\* sending, or stopped before it had noted what it sent, or the mail server's answer was lost;
\* what is marked delivered was queued; and a notification a user has read or deleted stays
\* read or deleted, unless a run or a request had found it before.
NotificationsStand ==
    \A n \in Notice :
        /\ n \notin repeated => queued[n] <= 1 /\ mailed[n] <= queued[n]
        /\ notice[n] # Null /\ notice[n].status = "delivered" /\ notice[n].channel = "email" => queued[n] > 0
        /\ notice[n] # Null /\ n \in told => notice[n].readAt
        /\ n \in gone => notice[n] = Null
=============================================================================
