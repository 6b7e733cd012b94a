# Formal models of the Faiera backend

TLA+ modules for the Faiera backend (NestJS, TypeORM on PostgreSQL, Redis, BullMQ): payments and
promo codes, subscriptions, live sessions, teachers, accounts and administrators, assessments,
the catalogue, videos, progress and notifications. TLC checks them on small
instances, TLAPS proves theorems about them for every value of the constants.
`PROJECT.json` says for every definition which lines of the source it models.

## 1. The system

Every HTTP request is an async function of the Node process. It runs until it awaits a
database statement or an HTTP call; in between other requests run, in this process or in
another one behind the load balancer. State lives in PostgreSQL rows. Three ways of changing
a row occur, and the difference between them is what most of the models are about:

* a *guarded statement*, `UPDATE ... WHERE status <> 'success'`: one atomic step;
* a *database transaction*: only `PromoCodesService` locks what it reads (`SELECT ... FOR UPDATE`);
  those of `RbacService` and of `ContentService.updateCourse` do not;
* *find, change, `save()`*: TypeORM's `save` loads the row, compares it with the entity in
  memory and writes every column that differs. An entity read earlier therefore overwrites
  what anybody has written to the row meanwhile, including columns its request never touched.

### Components

| Component | State | Operations | Talks to | Hard behaviour | What makes it correct |
|---|---|---|---|---|---|
| payments | `transactions` rows | three checkouts, Paymob and Fawaterk webhooks, fulfilment, refund, void, superseding | promo-codes, subscriptions, sessions, content; the providers over HTTP | repeated, reordered, late webhooks; stale entities; failures half way | nothing without payment; one fulfilment; no payment forgotten |
| promo-codes | `promo_codes`, `promo_code_redemptions` | reserve, redeem, release, reverse; create, batch, update, (de)activate, remove; two cron jobs | called by payments | row locks, expiring reservations, unlocked reads, administrators at work | limits hold, life cycle of a redemption, no request waits for ever |
| content | programs, courses, modules, lessons, `enrollments` | authoring, whole curricula, `enrollUserInCourse`, `cancelEnrollment` | called by payments; Bunny's webhook sets durations | numbers of a course refreshed in steps of their own, rows saved whole | an enrollment is paid for, the numbers match |
| subscriptions | `subscription_plans`, `subscriptions`, a Redis key per user and grade | create, activate, cancel, expire (hourly), access check | called by payments and the cron job | check-then-insert, a cache that is written after it was invalidated | one subscription per grade, access while and only while subscribed |
| sessions | `live_sessions`, `session_attendees` | create, register, unregister, join, leave, start, cancel, end, auto-end | called by payments and the cron job, calls notifications | counters beside rows, whole-entity saves | seats match attendees and stay within the capacity, a session that is over stays over, a forgotten one ends |
| teachers | profiles, availability, bookings, reviews, packages, withdrawals | book, confirm, complete, cancel; request and process a withdrawal | | two students and one slot, wallet arithmetic in entities | no double booking, money conserved |
| assessments | assessments, questions, `assessment_attempts` | start, submit, time out, grade | | limits of attempts, a deadline racing a submission | at most `maxAttempts`, a grade is final |
| auth, users | `users`, `refresh_tokens`, attempt counters in Redis | register, login, OTP, refresh, logout, change and reset of the password; profile, role, suspension, deletion | rbac, e-mail | whole-row saves of an account, lost counts, the grace window of a rotated token | lockout bites, a changed password ends the old sessions |
| rbac | `admin_roles`, `admin_users`, a Redis key per account | edit roles, assign, change, revoke; the guards' check | auth's rows, auth guards | the cache is cleared before the commit | cached permissions are those granted, who is assigned is an admin |
| notifications, queue processors | `notifications`, preferences, BullMQ jobs | send, schedule, the minute's job, mark read, delete; retries | email queue, WebSocket gateway | overlapping runs of the job, retries, rows saved after they were read or deleted | a mail is queued and sent once, what is read stays read |
| video and Bunny | `videos`, `video_watch_progress`, `video_resources` | create with retries and a fallback, upload, delete, webhook, watch | Bunny over HTTP | a call that was done but not answered, webhooks in any order, late ones | what can be played is there, nothing at Bunny without a row |
| progress | `user_progress`, timers of the socket's gateway | reports over HTTP and over the socket | | a report replaces a waiting one, saves cross | what was completed stays so, time adds up |
| analytics, upload, redis, database | | queries, file transfer | | none of their own | |

### Behaviours that are hard to test

`PROJECT.json` lists the hazards with their lines. They fall into a few families: an entity
saved after the row has changed (`payments.service.ts:590`, `sessions.service.ts:474`);
check-then-insert without a key that refuses the second row (`subscriptions.service.ts:141`,
`teachers.service.ts:385`); two statements that belong together and can be separated by a
failure (`payments.service.ts:705`, `teachers.service.ts:700`); a time-out racing the answer
(`promo-codes.service.ts:573`, `attempt.service.ts:284`); a call that was done but not answered
(`bunny-unified.service.ts:396`); a job that overlaps with itself (`notifications.service.ts:323`); a cache written after its invalidation
(`subscriptions.service.ts:244`, `rbac.service.ts:237`).

## 2. The modules

| Module | Models |
|---|---|
| `PromoLedger` | what the promo-code service promises: every request one step |
| `PromoCodes` | `PromoCodesService` in full: statements, row locks, clock, cron jobs, administration |
| `Payments` | `PaymentsService`, with the grants it calls in content, subscriptions and sessions; uses `PromoLedger` for promo codes |
| `Subscriptions` | `SubscriptionsService`: plans, subscriptions, the hourly expiry, the Redis entry that answers access |
| `Sessions` | `SessionsService`: seats, attendance, the life cycle of a session, the five-minute job |
| `Teachers` | `TeachersService`: accounts and profiles, hours, bookings, reviews, packages, the wallet |
| `Accounts` | `AuthService` and `UsersService` on one account: its row, tokens and counters |
| `Roles` | `RbacService` and the guards' cached permissions; EXTENDS `Accounts`, whose row it writes |
| `Scoring` | `ScoringEngineService`: what an answer to each type of question earns |
| `Assessments` | `AssessmentsService`, `QuestionBankService`: the questions, their review, an assessment |
| `Attempts` | `AttemptService` on an assessment that is being edited; EXTENDS `Assessments` and `Scoring` |
| `Requests` | what the four parts below share: the requests served and their bound |
| `Catalog` | `ContentService` and `BunnyNetService`: courses, modules, lessons, curricula, their numbers |
| `Videos` | `VideoService` and the two services and the fallback it reaches Bunny by; watch progress |
| `Progress` | `ProgressService` and `ProgressGateway` |
| `Notifications` | `NotificationsService`, the minute's job, the e-mail queue |
| `Learning` | composes the four: a behaviour is one of any part, the others at rest, since they share no rows |
| `PromoCodesProofs`, `PaymentsProofs`, `SubscriptionsProofs`, `SessionsProofs`, `TeachersProofs`, `RolesProofs`, `AttemptsProofs`, `LearningProofs` | the theorems |
| `MCPromoCodes`, `MCPayments`, `MCSubscriptions`, `MCSessions`, `MCTeachers`, `MCRoles`, `MCAttempts`, `MCLearning` | instances for TLC |

### PromoCodes

Rows: `promo` (`promo_codes`), `redemption` (`promo_code_redemptions`, at most one per
transaction: unique index on `transactionId`). Locks: `promoLock`, `rowLock`. A request `p` is
at `pc[p]`, works on `arg[p]`, and keeps in `draft[p]` and `seen[p]` what it has read. An
action is one statement that others can interleave with. The writes of a database transaction
become visible at its commit, so they are one action, which also gives the locks back; a throw
rolls back, so it is an action that changes nothing but the request.

| Code | Actions |
|---|---|
| `reserve()` | `ReserveBegin`, `AdmitLock` / `AdmitRefuse`, `ReserveInsert` |
| `redeem()` without a reservation | `RedeemBegin`, `AdmitLock` / `AdmitRefuse`, `RedeemInsert` |
| `redeem()` of a reservation | `RedeemLockRow`, `RedeemFinish` |
| `releaseReservation()` | `ReleaseReservation` |
| `reverseRedemption()` | `ReverseRead` (no lock), `ReverseSave`, `ReverseCount` |
| `create()`, `generateBatch()` | `Create` |
| `update()`, `deactivate()`, `reactivate()` | `EditRead`, `EditSave` |
| `remove()` | `RemoveRead`, `RemoveDelete` |
| cron jobs | `CleanupExpiredCodes`, `CleanupExpiredReservations` |

Amounts, discounts and scopes only decide whether a code applies, so a code here either is
eligible by its window and limits or is not.

`PromoLedger` is the abstract specification. Its variables are read off the rows:
`status` is the redemption's status, `live` the set `countActiveUses` counts, `limit`,
`perUser` and `open` the terms. `ImplementsLedger` is the refinement. The ledger's `Complete`
does not ask the reservation to be live, since the code does not: see the finding below.

### Payments

`txn` holds status and the two metadata keys that are read back or looked for (`fulfilled`,
`fulfillmentError`); `enrollment`, `subs` and `seat` what has been granted; `redemption` and
`live` the ledger; `money` what the provider knows of each payment. `req[p]` is a request in
progress with the entity it holds. `fulfilments`, `overwritten` and `crashed` are history
variables. Each awaited call of the code is one action:

| Code | Actions |
|---|---|
| the checkouts | `CheckoutBegin`, `CancelFind`, `CancelRelease`, `CancelUpdate`, `Insert`, `Reserve` / `ReserveRefused`, `Initiate` / `InitiateFails`, `AbortRelease`, `AbortSave` |
| a checkout at no cost | `FreeInsert`, `FreePromo`, then as in fulfilment, `FreeUndo`, `FreeFail` |
| webhooks | `Deliver`, `HookSave` (Paymob only), `FailRelease`, `FailSave` |
| `fulfillTransaction` | `Claim`, `Redeem`, `GrantFind`, `GrantWrite`, `Throw`, `Mark`, `MarkError` |
| `handleRefund` | `RefundClaim`, `RefundRevoke`, `RefundMark`, `RefundReverse` |
| outside | `Pay` (the payer and the merchant), `Lapse` (reservations run out), `Crash` |

Two pairs of awaited calls are one action: opening the payment at the provider and saving
its id (`Initiate`: until the save returns, the payer has no link), and the find and the save
of a refund's revocation (`RefundRevoke`). All plans sold are of one grade. A checkout at no cost is one of a plan without a price, or with a
promo code for all of it. A request whose Fawaterk call failed has saved FAILED itself, and that write is its own when it
aborts. `CancelRelease` reverses the redemptions of all superseded transactions in one step: the code awaits them
together (`Promise.all`), each in a transaction of its own promo row. Of the money: Paymob's callback is
compared with the transaction's amount and currency, Fawaterk's is not (`payments.service.ts:676`), so that `News`
assumes of Fawaterk that it says 'paid' only of the whole amount; `NothingUnpaid` rests on it. A promo operation
is one step of the ledger; that the real service behaves so is `ImplementsLedger`.

`Crash` is the process stopping, and equally any failing call outside a `try`: the controller
awaits the handler (`payments.controller.ts:114`) although its comment (83) speaks of
answering at once, and in both cases the rest of the handler is never run.

### Subscriptions

`plans` and `sub` are the tables, `cache` the Redis keys `sub:<user>:<grade>` with the time
they end at, `req[p]` a request with the entity it holds. A subscription id is drawn for a
user and a plan. `unchecked` and `missed` are history variables: the subscriptions whose check
for another active one meant nothing, and those whose cached answer was not, or not in time,
deleted.

| Code | Actions |
|---|---|
| `createPlan`, `updatePlan`, `deletePlan` | `CreatePlan`; `PlanFind`, `PlanSave`; `PlanFind`, `PlanCount`, `PlanRemove` |
| `createSubscription` | `CreateBegin`, `ActiveCheck` / `ActiveCheckRefuses`, `CreateInsert`, `Drop` / `DropFails` |
| `activateSubscription` | `ActivateFind`, `ActivateSave`, `Drop` / `DropFails` |
| `cancelSubscription` | `CancelFind`, `CancelSave`, `Drop` / `DropFails` |
| `findActiveSubscription` (of `checkAccess`) | `AccessMiss`, `AccessFind`, `AccessFill`; a hit changes nothing (`checkAccess` then calls `hasSubject()`, which the parsed object lacks, and throws) |
| `processExpiredSubscriptions` | `ProcessExpired` |

`findOne()` without an order returns any matching row, so `ActiveCheck` and `AccessFind` choose.
A request that stops half way is one that takes no further step. The key `sub:<user>` is
deleted by the code and written by nobody: it is left out.

`Payments` has its own, smaller view of a subscription (find active, insert, cancel) since
there the question is what was paid for; the two do not share state.

### Sessions

`session` is the `live_sessions` row, `row` the `session_attendees` rows by id, `req[p]` a request
with the session (`entity`, `read`) or the attendee (`att`, `seen`) it has read, `req[Job]` the cron
job. A registration counts the seat first and inserts the row after; a withdrawal removes the row
first and gives the seat back after; the session and the attendees are also saved whole. `drift` and
`late` are history variables: the seat count was changed by other than a registration and its
withdrawal, and whose row was written JOINED when the session was over.

| Code | Actions |
|---|---|
| `create` | `Create`, then as in a registration, from `HostFind` |
| `registerAttendee` | `RegisterFind`, `RegisterExists`, `RegisterCount`, `RegisterInsert` / `RegisterInsertFails` |
| `unregister` | `UnregisterFind`, `RemoveRow`, `Decrement`, `Floor` |
| `getJoinLink` | `JoinLinkBegin`, `JoinLinkFind`, `AttendeeSave` |
| `recordLeave`, `rateSession` | `LeaveFind`, `RateFind`; `AttendeeSave` |
| `recordJoin` | `JoinBegin`, `JoinFind`, `JoinUpdate`, `JoinLive` |
| `update`, `cancel`, `startSession`, `regenerateRoomName` | `UpdateFind`, `CancelFind`, `StartFind`, `RegenerateFind`; `SessionSave` / `SessionSaveRefused` |
| `endSession` | `EndFind`, `SessionSave` / `SessionSaveRefused`, `LeaveAll` |
| `autoEndExpiredSessions` | `JobFind`, `SessionSave`, `LeaveAll` |

`findById()` without a user joins no attendee, so the entity carries an empty list of attendees,
and a `save()` may take the list for the relation's new contents; the database then refuses to
detach the attendees. What TypeORM makes of it is not in the repository, so whether and when it does is left
open: `SessionSaveRefused` may happen to any request's save (more than the code can do), and the job's `find()` loads no list. A save that inserts a
removed attendee again is one action with its look at the table. `attendedCount`, `joinCount` and
the texts are left out, since nothing is decided by them.

### Teachers

One teacher's rows: `profile` (with the wallet), `hours`, `booking`, `reviews`, `package`,
`withdrawal`; `req[p]` a request with the profile or the booking it has read. Money is frozen by a
guarded statement, and every other change of the profile saves it whole. `met`, `moved` and
`mishap` are history variables; `earned` is what was ever paid in, by nothing in the repository.

| Code | Actions |
|---|---|
| `createTeacherAccount`, `createProfile` | `AccountBegin`, `AccountPromote`, `AccountFind`, `ProfileBegin`, `ProfileInsert` |
| `updateProfile`, `approveTeacher`, `suspendTeacher` | `ProfileFind`, `ProfileSave` |
| `setAvailability` | `HoursBegin`, `HoursDelete`, `HoursInsert` |
| `createBooking` with `getAvailableSlots` | `BookFind`, `BookHours`, `BookCheck` / `BookRefused`, `BookInsert` |
| `confirmBooking`, `cancelBooking` | `ConfirmFind`, `CancelFind`; `BookingSave` |
| `completeBooking` | `CompleteFind`, `CompleteSave`, `CompleteCount` |
| `rescheduleBooking` | `RescheduleFind`, `RescheduleSave`, `RescheduleInsert` |
| `createReview`, `updateTeacherRating` | `ReviewFind`, `ReviewInsert`, `RatingRead`, `RatingUpdate` |
| `createPackage`, `updatePackage`, `togglePackage` | `PackageCreate`; `PackageFind`, `PackageSave` |
| `requestWithdrawal` | `WithdrawFreeze`, `WithdrawInsert` |
| `processWithdrawalRequest` | `DecideFind`, `DecideProfile`, `DecideSave`, `Settle` |
| outside | `Credit`, `Halfway` (the second of two statements never happens) |

A confirmation and a reschedule check nothing; only `createBooking` looks at confirmed bookings.
Times are half hours of one day.

### Accounts and Roles

One account, `user`, with its refresh tokens (`token`) and the counters of failed logins and codes
(`failures`); passwords are counted, so that "who knows an old password" can be said. `save()` writes
every column the entity holds, but not `password` and the codes, which are not loaded
(`select: false`): `Columns` is what an entity holds. `Roles` adds `role`, the account's
`assignment`, an administrator's transaction `tx`, and the guard's check `guard` with what it
caches (`cached`).

| Code | Actions |
|---|---|
| `AuthService.register`, `UsersService.create` | `RegisterFind`, `CreateFind`; `UserInsert`, `TokenIssue` |
| `validateOAuthLogin` | `OAuthFind`, `UserSave`, `TokenIssue` |
| `requestOtp`, `forgotPassword` | `CodeFind`, `CodeClear`; `ForgotFind` |
| `login`, `verifyOtp` | `AttemptBegin`, `AttemptRight` / `AttemptWrong` / `AttemptRefused`, `AttemptFail`, `AttemptClear`, `OtpSave`, `TokenIssue` |
| `refreshTokens` | `RefreshFind`, `RefreshRotate`, `TokenIssue` |
| `logout`, `logout-all` | `LogoutOne`; `LogoutAll`, `SignOut`, `PermissionsForget` |
| `changePassword`, `resetPassword` | `ChangeFind`, `ResetFind`; `PasswordUpdate`, `SignOut`, `PermissionsForget` |
| `update`, `updateAcademicProfile`, `updateRole`, `linkParent`, `suspend`, `activate` | `ProfileFind`, `AcademicFind`, `RoleFind`, `LinkFind`, `SuspendFind`, `ActivateFind`; `UserSave` |
| `delete` | `DeleteFind`, `UserRemove` (`Remove` of `Roles` takes the assignment along) |
| `createRole`, `updateRole`, `deleteRole` | `RoleCreate`; `RoleUpdate`, then as a transaction; `RoleDelete` |
| `createAdmin`, `updateAdminRole`, `revokeAdmin` | `AdminCreate`, `AdminAssign`, `AdminRevoke`; `TxClear`, `TxCommit` / `TxAbort` |
| `getPermissionKeysForUser` | `CheckBegin`, `CheckRead`, `CheckFill` |
| outside | `AttemptsExpire`, `CacheExpire`, `TokenAge` (the grace window ends), `Halt` |

What the code does that a reader may not expect, and the models show: a refresh token works on
for the grace window after a logout as well as after a rotation; an administrator assigned again
after a revocation keeps `revokedAt`; `users.update` changes a password without ending sessions;
an OAuth login asks nothing of the account's status; deleting a user leaves the cached
permissions; and a save of a user deleted meanwhile inserts it
again if it assigns a password, and fails otherwise (the column is not loaded and may not be null), which
is also why an assignment of a deleted account is not committed (`CanCommit`).

### Scoring, Assessments and Attempts

`Scoring` has no state: `ScoreAnswer(question, given)` is the score of an answer, type by type, with the
points rounded to integers. `Assessments` is one assessment with its links to the questions of the
bank; `edit[p]` a request of the authors. `Attempts` adds one student's attempts and answers;
`exam[p]` is a request of the student. What was answered to a submission is `told`.

| Code | Actions |
|---|---|
| `create`, `addQuestions`, `removeQuestion` | `AssessmentCreate`, `CreateAdd`, `AddFind`, `LinkInsert`, `RemoveQuestion`; `SumRead`, `SumWrite` |
| `update`, `publish`, `close`, `delete` | `UpdateFind`, `PublishFind`, `CloseFind`; `AssessmentSave`; `DeleteFind`, `AssessmentRemove` |
| question bank | `QuestionCreate`, `ReviseFind`, `SubmitForReviewFind`, `ReviewFind`, `ArchiveFind`; `QuestionSave`; `QuestionDeleteFind`, `QuestionRemove` |
| `startAttempt` | `StartFind`, `StartCount`, `StartLook`, `StartQuestions`, `StartInsert`, `StartAnswers` |
| `saveAnswer` | `AnswerBegin`, `AnswerFind`, `AnswerSave`, or `TimeoutSave` |
| `submitAttempt` | `SubmitFind`, `SubmitAssessment`, `UsageFind` and `UsageUpdate` for each question, `AnswersSave`, `AttemptSave` |
| `autoSubmitAttempt` | `TimeoutFind`, `TimeoutSave` |
| outside | `DeadlinePasses`, `EditHalt`, `ExamHalt` |

`saveAnswer` assigns every field, and TypeORM leaves out those that are undefined: `AnswerSave` keeps of the old
answer what was not sent (`Merged`, `Unsent`). `MaxAttempts` is fixed: `update()` refuses a published assessment, and
only a published one is attempted. No code sets `overridePoints`, so a question counts its own points.
A deletion cascades to attempts and answers (`Cascade`). What the models show beside the properties:
a submission before the answers' rows are inserted is graded 0 percent; the last attempt cannot be
resumed, since 'Maximum attempts reached' is asked before the attempt in progress is looked for;
`addQuestions` does not ask for a draft, though its comment speaks of one
(`assessments.service.ts:111`); a submission does not ask for the deadline; a timeout scores nothing;
an option sent twice counts twice; the answer to a FILL_BLANK question cannot be sent and is scored
as an empty one.

### Catalog, Videos, Progress and Notifications

`Catalog`: `course`, `module`, `lesson`, `resource`, and `author[p]` a request with what it has read. A course
keeps `lessonCount` and `totalDurationMinutes`; whoever changes lessons refreshes them in four
awaited calls, or does not. `drifted` are the courses left behind.

| Code | Actions |
|---|---|
| `createCourse`, `updateCourse`, `publishCourse`, `deleteCourse` | `CourseCreate`; `CourseFind`, then `PlanApply`, `PlanLessons`, `PlanCourse`, `PlanSave` / `CourseSave` / `CourseRemove` |
| `createModule`, `updateModule`, `deleteModule` | `ModuleFind`; `ModuleInsert`, `ModuleSave`, `ModuleRemove` |
| `createLesson`, `updateLesson`, `publishLesson`, `deleteLesson` | `LessonFind`; `LessonInsert`, `LessonSave`, `LessonRemove` |
| `updateCourseStats` | `StatsModule`, `StatsLessons`, `StatsCourse`, `StatsSave` |
| `BunnyNetService.createVideo`, `processWebhookEvent` | `ResourceCreate`; `ResourceHook`, `ResourceSave`, `LinkedFind` |

The transaction of `updateCourse` locks nothing it reads and runs at READ COMMITTED. `PlanApply` brings the
curriculum, section by section as the code does (a lesson that moves to an earlier section is undone by
the later one it came from; an empty list with `replaceCurriculum` removes every module, and is refreshed as
well); `PlanLessons` reads the lessons for the refresh, `PlanCourse` the course, and `PlanSave` writes its numbers and
commits. In between, other requests read and commit: `own` are the rows the transaction has written, which it
sees over those that are committed (`Seen`), which others see only at the commit, and for which others wait
(`Unlocked`, by the rows and unique values two statements have in common). A lesson that is created, changed or removed, or
a refresh that commits, between the two reads and the save leaves numbers behind, exactly as in
`updateCourseStats`; the course is then `drifted`. `createCourse`, whose rows nobody else knows, is one step, and so are
the reads and writes of one `PlanApply`. A wait for one another (PostgreSQL ends one of the two) is `AuthorHalt`.

`Videos`: the rows, Bunny's `objects`, and `viewer[p]`. `VideoCreate`, `UnifiedPost` (with its retries),
`LegacyPost`, `ResourceInsert` and `VideoInsert` make a video; `CredentialsFind` may make an object no row
names; `VideoFind` with `VideoSave`, `ObjectRemove` and `PlayCheck` are `update`, `delete` and
`getSignedPlaybackUrl`; `VideoHook` and `HookInfo` the webhook; `WatchBegin`, `WatchFind` and
`WatchSave` `updateProgress`. Only the legacy service makes a `video_resources` row, so only its
videos can be a lesson's.

`Progress`: one student and content; `report` are the reports with their numbers, `pending` the update the
gateway keeps. `HttpReport`, `SocketReport` and `Disconnect` are the handlers, `TimerFires` the timer,
`ReportFind` and `ReportSave` `updateProgress`; `ReportFail` the error the gateway only logs, `Restart`
the end of the process and its timers. The callback of a timer deletes the pending entry, also
that of a newer report, whose timer then nobody clears.

`Notifications`: `notice` the rows, `sender[p]` a request or a run of the job with the entities it holds, `queue` the
jobs of BullMQ. `Send`, `Schedule` and `SendBulk`; `ScheduledFind`, `Dispatch` and `NoticeSave` for the
minute's job; `ReadFind` and `ReadSave`, `ReadAll`, `Delete`; `MailSend` and `MailFail` the e-mail
processor. A crash between the row and its dispatch leaves a notification that is never sent;
reading a scheduled one keeps it from being sent; what `sendBulk` inserts is dispatched by nobody.

## 3. The runs

| Run | Question |
|---|---|
| `promo_safety` | Do two requests, three checkouts of a code of two uses (one per user), the clock and the jobs keep the admission limits, and does the service refine the ledger? |
| `promo_liveness` | Under fairness, does every request end and every overdue reservation stop being RESERVED, also while an administrator changes the terms? |
| `promo_limit` | Is `maxTotalUses` never exceeded? No: a finding. |
| `payments` | With late, repeated and reordered webhooks, refunds, failing calls, a crash and concurrent checkouts: is nothing had unpaid, is a second fulfilment impossible without a stale save, is no payment forgotten, does "fulfilled" mean delivered, does a failed payment give its promo code back? |
| `payments_double` | Is a transaction fulfilled at most once? No: a finding. |
| `subscriptions` | Two requests, two subscriptions of one user and grade, the clock, the job and the plan's administration: which ways lead to two subscriptions in force, to one payment used twice, to a cancelled subscription served from the cache, or to a subscription without its plan? |
| `subscriptions_liveness` | With the clock and the hourly job, does every overdue subscription end, and every stale cached answer? |
| `sessions` | Two concurrent requests and the job on one session with two users: which ways lead the seat count astray, past the capacity, back from a session that is over, or to a user JOINED in an ended one? Does a live session whose time is over end? |
| `teachers` | Two requests of a teacher, a student and an administrator: which ways lead to a slot confirmed twice, and to a wallet that does not add up? |
| `roles` | Two requests of an account, an administrator's transaction and a guard's check: which ways lead past the lockout, to a session that outlives a changed password, to permissions served that are not granted, to an administrator without the role? |
| `attempts` | Two requests of a student and of the authors: is what is published approved, are attempts limited, does the result of a submission stand and lie within what the questions allow? |
| `learning` | Catalogue, videos, progress and notifications, two requests at a time: which ways lead to stale numbers of a course, to a video without its object or an object without a row, to a report or a completion that is lost, to a mail sent twice? |

### What they show

The properties of `promo_safety`, `promo_liveness` and `payments` hold. Several say *unless*,
and the history variables say what: `overwritten` is set exactly when a save or a metadata
update replaces contents of the row newer than the entity, `crashed` when a request ends half
way. So `FulfilledOnceUnlessOverwritten` and `SettledUnlessMishap` locate the cause: without
stale saves and crashes, the status machine of the transactions is sound.

`subscriptions` in the same way: `OneActiveUnlessUnchecked` lists every way to two subscriptions
in force (an activation, which asks nothing; two creations side by side; a creation whose
`findOne()` returned an overdue row), and `CancelledNotServed` every way to a cancelled
subscription in the cache (the deletion still to come, failed, or overtaken by a reader who
writes what it read before). `StaleAnswersEnd` bounds the harm by the five minutes of the entry.

`sessions`: `SeatsMatch` holds unless an insert fails after its seat was counted, two requests
remove one row, a stale attendee or session is saved; in all other interleavings counting and
inserting apart loses nothing, and the capacity holds. `ResumedOnlyByStale` leaves one way back from
ENDED or CANCELLED: a request that found the session before.

`teachers`: `BookedOnceUnlessTogether` says that two overlapping bookings are both confirmed only if one was
moved there, or neither was confirmed when the other's slot was checked: two students may both
find a slot free, and both be confirmed. `WalletMatches` ties the three balances to the withdrawals and to
what was paid in; the `mishap`s that break it are a whole-row save of a profile over a changed
wallet, one request decided by two administrators, and a request that stopped half way.

`roles`: `LockedOutUnlessMiscounted` bounds the wrong guesses unless one attempt writes a count it read
before another's; `SignedOutUnlessLate` follows every token to the password its holder proved;
`CachedIsGranted` leaves a check that crossed a change, a cache that could not be cleared and an
account that came back; `AssignedIsAdmin` a stale save and a second assignment.

`attempts`: `PublishedIsApproved` holds but for questions that lost their approval later or were added
after publication. `AttemptsWithinLimit` excepts a start that inserts while a later attempt than it counted is
there. `ResultStands` says a result, once told, is that of the rows ever after, unless
something was on its way when it was told; the scores are those of `Scoring`, so a score below
none or above the maximum would show.

`learning`: `StatsMatch`, `BunnyMatches`, `NotificationsStand` and `ReportsStand` each name the ways they fail by a
history variable (`drifted`; `lost`, `mislaid`; `repeated`; `amiss`, `rewound`), which is set where the
row is written, by comparing it with the entity.

Findings:

* `promo_limit`. `redeem()` compares the reservation's expiry with the time *before* it waits
  for the promo row's lock, and with `<` where `countActiveUses` has `>`. At that instant, or
  while it waits, another `reserve()` no longer counts the reservation and takes its use. Both
  are then completed and a code with one use is used twice. TLC's trace: t1 reserves at time 0
  until 1; at time 1 t1's `redeem()` finds it not overdue; t2's `reserve()` counts no use.
* `payments_double`. `handlePaymobCallback` saves the whole entity to keep the raw webhook.
  Webhook A claims the row (SUCCESS); webhook B, which has read PENDING, saves its entity and
  puts PENDING back; B's guarded update then succeeds and the order is fulfilled a second time.

### Bounds

* Promo codes: one code, two or three transactions of two users, two concurrent requests. Locks
  are per row, so a second code adds interleavings of independent rows only. A reservation
  lasts one tick and the clock has three values: a reservation can be held, at its last
  instant, and overdue, and a code can expire. `Horizon` stops the clock, `ReservationTtl` is
  the hold. `promo_limit` has one offer, so that no administrator lowers the limit.
* Payments: two transactions of one user for the same purchase (they interact through
  superseding, the grant and the promo code), two concurrent requests, `MaxNews` = 3
  webhooks, `MaxCrashes` = 1. Two concurrent requests are enough for every overwriting, three
  webhooks for a success, its repetition and a refund or a decline. `fulfilments` saturates
  at 2. Each scenario fixes what is bought, through whom and with which promo code.
* Subscriptions: two subscriptions of one user and grade (properties relate pairs), two
  payments, two requests, one plan of one tick, `CacheTtl` = 1, `Horizon` = 3, so that a
  subscription created after another has run out runs out too. For liveness one subscription
  and one payment: both properties are about a single row.
* Sessions: one session (sessions share no row), two users of whom one is the host (a user may
  also register as participant before the host's own row is there, so two participants can
  ask for one seat), two attendee ids, capacities 1 and 2, one end, two requests at a time and
  `MaxRequests` = 5 in all: enough to create, register, have two requests withdraw at once, and
  start or register again. The job's steps are not counted. `Horizon` = 1 passes the end.
* Teachers: two bookings (the property relates pairs) of two half hours that may overlap, withdrawals of
  1 and 2 of at most 3 earned, so that both fit and a second one of the same does not, five requests:
  pay in, ask, and have it decided twice, or book, book, confirm, confirm.
* Roles: one account, one role, one permission, one transaction and one check beside two requests;
  `MaxAttempts` = 2, so that the counter has a value between none and locked; two tokens for a
  rotation. Four requests: the longest case is a login, a change of the password, and two renewals.
* Attempts: two questions, one of several options whose wrong ones cost and one that is revised from a
  manual to a scored one, two attempts with a limit of one, four requests.
* Learning: three requests in each part. Two courses, modules and lessons and one resource, so that
  a lesson can move and a video change its lesson; two videos and three objects, so that a retry
  and a fallback can each make one; three notifications and a `BatchSize` of two, so that a run
  leaves one; two attempts of a call to Bunny and of a mail.
* Requests are interchangeable, and the courses of `learning`: symmetry in the runs that check safety only.
* Deadlock is not checked: the clock stops at its horizon, webhooks are bounded and nobody has
  to make a request. `RequestsFinish` covers requests that wait for one another.

### Fairness

`promo_liveness` assumes weak fairness of each begun request's next step (the event loop
resumes an awaited call, PostgreSQL grants a free lock; a blocked step is disabled, so nothing
is assumed of it), of the clock, and of the reservation job (`@Cron`). Nobody has to make a
request. `subscriptions_liveness` assumes weak fairness of the clock and of the hourly job, and
nothing of requests; `sessions` the same of the clock, the five-minute job and its statements. The other runs assume nothing.

## 4. Theorems

They cover every safety property of every passing run: the type invariants, the other invariants, the action
properties and the refinement. They hold for any sets of users, codes, goods, requests and rows, and any bounds, from
the assumptions named in the modules. TLC evaluates these on the instances. They say that what is summed or counted
(transactions, courses, lessons, notifications, questions, attempts) is finite, that numbers are natural, that
`Null` is no id and no row, and what a request may carry: a curriculum has sections with lessons in them
(`PlanAssumption`), a question's content is complete for its type and has passed the bank's own validation
(`ContentsAssumption`), a given answer is a sequence of selected options (`GivenAssumption`).

* `PromoCodesProofs!Types`, `Admission`, `Refinement`. The inductive invariant adds to
  `TypeOK` that a request about to insert holds the promo row's lock, that such a row is still
  open and has room for it (nobody else can add a use while the lock is held, time and
  reversals only free uses), and what requests in the middle of `redeem()` and
  `reverseRedemption()` know of their redemption row. `Admission` follows since the insert
  adds one to a count below the limit. `Refinement` maps every step to a ledger step or a
  stutter: unlocked reads and locks stutter, `Tick` is `Lapse`, inserts are `Admit`, and so on.
* `PaymentsProofs!Types`, `Earned`, `PaidForGood`, `FulfilledOnce`, `SettledHolds`, `DeliveredHolds`,
  `PromoKept`. `NothingUnpaid` is not inductive: it needs
  that a request which is going to write SUCCESS, because its entity says so or it will claim
  the row, is working for a transaction that is paid (`EntitiesPaid`), and that a paid
  transaction is not opened again at the provider, since a checkout is alone with its
  transaction until then (`OpenedOnce`). From this, no interleaving of stale saves makes an
  unpaid transaction SUCCESS: a save can only write a status its entity read or was given.
  The last four rest on one more invariant (`Ordered`), of what each request knows at each step of
  the row it read (`Placed`). A checkout is alone with its transaction and knows it unopened, and a
  request that goes on to save FAILED read PENDING or was told of a wrong amount. An entity's
  metadata is within its row's, unless the row was overwritten (`MetaKnown`). A row that was claimed
  or whose promo code was redeemed stays SUCCESS or REFUNDED, or is overwritten (`Firm`), so that a
  second claim finds none (`Claimed`) and a failed payment has no completed redemption (`Redeemed`).
  A SUCCESS row has a note, or a request going to write one, or a mishap (`Finished`). What is marked
  fulfilled was granted, and only a refund of the same purchase takes it back (`Delivered`).

* `SubscriptionsProofs!Types`, `CancelledLeaveCache`, `OneActive`, `OnePerPayment`. `TypeOK` is not
  inductive (a save of a row that is not there would bring back a subscription without its
  plan): it needs what the entity in a request's memory can be (`Drafts`) and that a
  subscription being created is not there yet (`Fresh`). To `CancelledNotServed` is added that an
  answer is kept under the key of its subscription (`Keyed`), to `OneActiveUnlessUnchecked` that a
  request past its check meets no other subscription in force that is not flagged
  (`Admission`), and to `OnePerPaymentUnlessUnchecked` the same of its payment (`Paid`), with the fact
  that a cancellation saves the payment it read.

* `SessionsProofs!Types`, `Seats`, `Capacity`, `Ended`, `Resumed`. The inductive invariant (`IInv`) adds
  to `TypeOK` that nothing happens before `Create` (`NotYet`), what a request remembers of an
  attendee, whose id stays its user's (`SoundAttendee`, `Agree`), and of the session: one read
  while over is saved as over, and ENDED only by a request that goes on to `LeaveAll`
  (`SoundSession`). `SeatsMatch` and the capacity are inductive together: the row about to be
  inserted, or just removed, changes places with its request, and the guarded count leaves room
  for one more.

* `TeachersProofs!Types`, `BookedOnceHolds`. To `TypeOK` is added what a request holds: a booking id of its own
  until it is inserted, a profile it has found. `BookedOnceUnlessTogether` becomes inductive with what a request
  past its check knows of the bookings that were confirmed then, kept until the insert.

* `TeachersProofs!WalletHolds`. `WalletMatches` speaks of the balances and of the withdrawals that are on hold or paid
  out; a withdrawal is on hold from the freeze, before its row exists, to the save of the profile after
  the decision. The inductive invariant (`Wallet`) says that what a request will save of the profile is what it read,
  with its decision reckoned in (`Reckoned`), that a frozen amount has one request and no row yet
  (`Asked`), that a decision that was saved is settled by one request (`Decided`), and that without a profile
  there is no money and nobody asks for any (`Unopened`). A save over a changed wallet, a second decision and a
  request that stops between two of its statements set the mishap that the property excepts.

* `RolesProofs!Types`, `LockedOut`, `SignedOut`, `Assigned`, `Cached`. `TypeOK` becomes inductive with what each
  request, transaction and check has read; `AssignedIsAdmin` is inductive with the types. For
  `LockedOutUnlessMiscounted`, every counter equals the number of failures unless it was miscounted
  (`Counted`). For `SignedOutUnlessLate` (`SignedInv`), the password in force is, while the account exists, no older
  than the last change signed out for (`Kept`), and while nobody is still to be signed out and nothing stopped
  half way (`Clean`), live tokens and the requests about to issue one proved that password or are late (`TokensKnow`,
  `Knows`). For `CachedIsGranted` (`CacheInv`), while the account is not deleted and no mishap has
  come between (`Regular`), what is cached is nothing or what is granted, and nothing is cached from a
  transaction's clearing to its commit unless its change spares the account (`Spared`).

* `AttemptsProofs!Types`, `PublishedHolds`, `LimitHolds`, `EarnedHolds`, `ResultHolds`. `TypeOK` needs what
  each request holds at each step (`Typed`), that answers are made where their attempt and question are and go with
  them (`Belongs`, the foreign keys), and the history (`Recorded`). That points are numbers needs sums. `Sums` says what a sum over the subsets of a set is;
  `SumsAgree` and `SumExists` (by `SubsetInduction`) that there is one and only one; `SumFunctionSums` that the
  model's sums are it; `SumMonotone` compares two term by term. `ScoreBounds` has one case per type of
  question, and shows that an answer which selects no option twice earns between 0 and the question's points; with
  `SumMonotone` this is `EarnedHolds`. `PublishedIsApproved` needs that a request about to save a published assessment has
  found questions that are still approved, or have drifted. For `AttemptsWithinLimit` (`Numbered`), numbers lie in
  `1..MaxAttempts` and differ, a start that has counted found room, and a request that has found an attempt
  knows its number: the numbers are then an injection. `ResultKept` needs that a request has found its
  attempt in progress, and that one between its two saves knows the answers it has saved, unless something crossed
  them (`Aware`); with `EarnedHolds` it is `ResultStands`.

* `LearningProofs!Invariant`, `Types`, `StatsHold`, `BunnyHolds`, `NoticesHold`, `ReportsHold`. One invariant for each of the four
  parts, kept by its own steps and untouched by the others'.
  * `Stocked` adds to the catalogue's types that what a request found is still known to be taken, and that a lesson
    names a video there is, in its row and in the entities requests hold; `Writing`, that the rows of an open
    transaction have their foreign keys over what others have committed since, which is what the locks it holds are
    for. `StatsMatch` is then inductive: only the save of a refresh may clear the mark of a course, and only if the
    lessons it counted are those the course has when it commits. Saving a
    curriculum folds over its sections and their lessons: `FoldExists` and `FoldIs` (by `SubsetInduction`) say
    that the model's folds go one element after the other, and `FoldLeads` that what each step keeps the fold
    keeps, and what a step establishes holds if there was one. So `SectionsIn` shows that a whole curriculum keeps
    the types and the foreign keys, and that a new course counts the lessons it was given.
  * `Watching`: an object at Bunny that no row names yet is held by one request, and no two rows share one. `BunnyMatches`
    and `WatchStands` follow from what requests found of the rows.
  * `Reporting`: while nothing went amiss, every report under way carries the latest percentage, and if none is,
    the row does; its time is what the saved reports counted, while none was saved over another.
  * `Noticing`: unless it was taken twice, a notification has one run of the minute's job that will save it, which has
    not queued its mail while it is in the batch (`RunOf`). Nobody will write back what a user deleted, and a run
    that crosses a user's reading is the one `send()` began (`KeptOf`).

Model-checked only: liveness (`RequestsFinish`, `OverdueReservationsEnd`, `OverdueSubscriptionsEnd`, `StaleAnswersEnd`,
`DueSessionsEnd`), which rests on fairness and so on ENABLED, out of the provers' reach; and the findings, which are
counterexamples.

## 5. Not modelled

* Queries: listings, dashboards, statistics, analytics, the audit log (written, and read by a listing only).
* Formatting and computation that decides nothing here: e-mails and invoices, HMAC and signed URLs, JWT
  signatures, discount arithmetic, prices.
* Content: programs (rows of titles nothing depends on), titles, versions, publication dates.
* Assessments: the order of the questions, categories, averages; `archive()`, which no route calls.
* Teachers: replies to reviews (two text columns), real dates.
* Accounts: who may act on whom is asked of the caller's own account, a second one; the seeder runs before the
  service listens; `syncUserToLocal` of the Supabase strategy is never called; the e-mail address stays
  the account's, so a profile's update of it (and its refusal of another's) is left out.
* Notifications: preferences, which `dispatch()` does not read; the sockets; the notification queue, into which
  nothing puts a job; `cleanupExpired()`, which nothing calls.
* Video: captions, the counts of views, `syncLessonDurations()`, which nothing calls.
* Upload and Supabase storage, migrations, configuration, start-up: pure I/O and wiring.
* `PromoCodesService.update()` of a code while others count its uses is modelled as it is, a save of
  the row read before; what it loses is not stated as a property, since the counter decides nothing:
  limits are counted from the rows.
