------------------------------ MODULE Attempts ------------------------------
(***************************************************************************)
(* AttemptService: one student's attempts at the assessment, while it and  *)
(* its questions are edited. Each awaited call is an action. A submission  *)
(* scores the answers it has loaded, counts a use of each question, saves  *)
(* the answers and then the attempt.                                       *)
(***************************************************************************)
EXTENDS Assessments

CONSTANTS
    Attempt,      \* assessment_attempts ids
    MaxAttempts,  \* assessment.maxAttempts: fixed, as update() refuses a published assessment
    PoolSize,     \* assessment.questionPoolSize, or 0
    Given         \* what a student may answer to a question, by its id

ASSUME AttemptAssumption == IsFiniteSet(Attempt) /\ Null \notin Attempt
ASSUME GivenAssumption == \A q \in Question : \A given \in Given[q] : given.selectedOptions \in Seq(STRING)
ASSUME LimitAssumption == MaxAttempts \in Nat \ {0} /\ PoolSize \in Nat

VARIABLES
    attempt,  \* assessment_attempts
    answer,   \* attempt_answers: by attempt and question
    overdue,  \* the attempts whose deadline has passed
    exam,     \* the requests in progress
    told,     \* history: the last result of a submission
    crossed,  \* history: attempts of which something was saved over a change, or removed
    mishap    \* history: what has befallen the limit

vars == <<assessment, link, question, edit, made, drifted,
          attempt, answer, overdue, exam, told, crossed, mishap>>

\* PAUSED and CANCELLED are never written.
AttemptStatus == {"none", "in_progress", "timed_out", "submitted", "graded", "deleted"}
AttemptRow == [status : AttemptStatus, attemptNumber : Nat, earnedPoints : Nat, possiblePoints : Nat]
NoAttempt == [status |-> "none", attemptNumber |-> 0, earnedPoints |-> 0, possiblePoints |-> 0]

\* A row holds fields of one answer and of those saved before it.
Sent == {NoAnswer} \cup UNION {Given[q] : q \in Question}
AllGiven == [selectedOptions : {given.selectedOptions : given \in Sent},
             booleanAnswer : {given.booleanAnswer : given \in Sent},
             matchedPairs : {given.matchedPairs : given \in Sent},
             orderedItems : {given.orderedItems : given \in Sent}]
AnswerRow == [there : BOOLEAN, given : AllGiven, earnedPoints : Nat, requiresManualGrading : BOOLEAN]
NoRow == [there |-> FALSE, given |-> NoAnswer, earnedPoints |-> 0, requiresManualGrading |-> FALSE]
Answers == [Question -> AnswerRow]
NoAnswers == [q \in Question |-> NoRow]

\* row and answers are the attempt and its answers as they were found, content the questions.
Exam == [pc : {"idle", "startCount", "startLook", "startQuestions", "startInsert", "startAnswers",
               "timeoutFind", "timeoutSave", "answerFind", "answerSave",
               "submitAssessment", "usageFind", "usageUpdate", "answersSave", "attemptSave"},
         id : Attempt \cup {Null}, question : Question \cup {Null}, count : Nat, questions : SUBSET Question, row : AttemptRow,
         answers : Answers, content : {Null} \cup [Question -> AllContents], given : AllGiven, usageCount : Nat]
NoExam == [pc |-> "idle", id |-> Null, question |-> Null, count |-> 0, questions |-> {}, row |-> NoAttempt,
           answers |-> NoAnswers, content |-> Null, given |-> NoAnswer, usageCount |-> 0]

AttemptInit ==
    /\ attempt = [a \in Attempt |-> NoAttempt]
    /\ answer = [a \in Attempt |-> NoAnswers]
    /\ overdue = {}
    /\ exam = [p \in Proc |-> NoExam]
    /\ told = [a \in Attempt |-> [row |-> NoAttempt, answers |-> NoAnswers]]
    /\ crossed = {}
    /\ mishap = {}

ExamTo(p, step) == exam' = [exam EXCEPT ![p].pc = step]
ExamEnd(p) == exam' = [exam EXCEPT ![p] = NoExam]
ExamBegin(p, request) ==
    /\ exam[p].pc = "idle" /\ edit[p].pc = "idle"
    /\ exam' = [exam EXCEPT ![p] = request]

Made == {a \in Attempt : IsThere(attempt[a])}
\* A row is saved while it is there, or can be inserted again.
CanSave(row) == IsThere(row) \/ IsThere(assessment)
CanSaveAnswer(a, q) == answer[a][q].there \/ (IsThere(attempt[a]) /\ IsThere(question[q]))

(***************************************************************************)
(* Starting                                                                *)
(***************************************************************************)
\* 'Assessment is not available'; its dates may refuse it as well.
StartFind(p) ==
    /\ assessment.status = "published"
    /\ ExamBegin(p, [NoExam EXCEPT !.pc = "startCount"])
    /\ UNCHANGED <<bank, attempt, answer, overdue, told, crossed, mishap>>

\* Mutant: one attempt more than the limit.
StartCount_OneMore(p) ==
    /\ exam[p].pc = "startCount"
    /\ IF Cardinality(Made) > MaxAttempts THEN ExamEnd(p)
       ELSE exam' = [exam EXCEPT ![p].pc = "startLook", ![p].count = Cardinality(Made)]
    /\ UNCHANGED <<bank, attempt, answer, overdue, told, crossed, mishap>>

\* 'Maximum attempts reached', also for who has one in progress.
StartCount(p) ==
    /\ exam[p].pc = "startCount"
    /\ IF Cardinality(Made) >= MaxAttempts THEN ExamEnd(p)
       ELSE exam' = [exam EXCEPT ![p].pc = "startLook", ![p].count = Cardinality(Made)]
    /\ UNCHANGED <<bank, attempt, answer, overdue, told, crossed, mishap>>

\* The one in progress is returned.
StartLook(p) ==
    /\ exam[p].pc = "startLook"
    /\ IF \E a \in Attempt : attempt[a].status = "in_progress" THEN ExamEnd(p) ELSE ExamTo(p, "startQuestions")
    /\ UNCHANGED <<bank, attempt, answer, overdue, told, crossed, mishap>>

\* getQuestionsForAttempt(): as many as the pool has, by chance, or all; their order is left out.
ForAttempt(chosen) ==
    IF PoolSize # 0 /\ PoolSize < Cardinality(link)
    THEN chosen \subseteq link /\ Cardinality(chosen) = PoolSize ELSE chosen = link

StartQuestions(p) ==
    /\ exam[p].pc = "startQuestions"
    /\ IF IsThere(assessment)
       THEN \E chosen \in SUBSET link :
               /\ ForAttempt(chosen)
               /\ exam' = [exam EXCEPT ![p].pc = "startInsert", ![p].questions = chosen,
                                       ![p].content = [q \in Question |-> question[q].content]]
       ELSE ExamEnd(p)
    /\ UNCHANGED <<bank, attempt, answer, overdue, told, crossed, mishap>>

\* The attempt, with the number that was counted ...
StartInsert(p) ==
    /\ exam[p].pc = "startInsert"
    /\ IF IsThere(assessment)
       THEN \E a \in Attempt :
               /\ attempt[a].status = "none"
               /\ attempt' = [attempt EXCEPT ![a] = [NoAttempt EXCEPT !.status = "in_progress",
                                                                      !.attemptNumber = exam[p].count + 1]]
               /\ exam' = [exam EXCEPT ![p].pc = "startAnswers", ![p].id = a]
               /\ mishap' = IF \E b \in Made : attempt[b].attemptNumber > exam[p].count
                            THEN mishap \cup {"together"} ELSE mishap
       ELSE UNCHANGED <<attempt, mishap>> /\ ExamEnd(p)
    /\ UNCHANGED <<bank, answer, overdue, told, crossed>>

\* The attempt has been submitted, or its answers saved for that.
IsSubmitted(a) == attempt[a].status # "in_progress" \/ \E p \in Proc : exam[p].pc = "attemptSave" /\ exam[p].id = a

\* ... and then an empty answer to every question, or to none.
StartAnswers(p) ==
    LET a == exam[p].id
        empty(q) == [NoRow EXCEPT !.there = TRUE, !.requiresManualGrading = IsManual(exam[p].content[q])]
    IN
    /\ exam[p].pc = "startAnswers"
    /\ IF IsThere(attempt[a]) /\ \A q \in exam[p].questions : IsThere(question[q])
       THEN /\ answer' = [answer EXCEPT ![a] =
                            [q \in Question |-> IF q \in exam[p].questions THEN empty(q) ELSE NoRow]]
            /\ crossed' = IF IsSubmitted(a) THEN crossed \cup {a} ELSE crossed
       ELSE UNCHANGED <<answer, crossed>>
    /\ ExamEnd(p)
    /\ UNCHANGED <<bank, attempt, overdue, told, mishap>>

(***************************************************************************)
(* Answering                                                               *)
(***************************************************************************)
\* timeLimitMinutes have gone by.
DeadlinePasses(a) ==
    /\ IsThere(attempt[a]) /\ a \notin overdue
    /\ overdue' = overdue \cup {a}
    /\ UNCHANGED <<bank, made, attempt, answer, exam, told, crossed, mishap>>

\* Mutant: any attempt may be answered.
AnswerBegin_AnyStatus(p, a) ==
    /\ IsThere(attempt[a])
    /\ \E q \in Question, given \in AllGiven :
           /\ given \in Given[q]
           /\ ExamBegin(p, [NoExam EXCEPT !.pc = IF a \in overdue THEN "timeoutFind" ELSE "answerFind",
                                          !.id = a, !.question = q, !.given = given, !.row = attempt[a]])
    /\ UNCHANGED <<bank, attempt, answer, overdue, told, crossed, mishap>>

\* saveAnswer(): 'Attempt is not in progress'; when the deadline has passed the attempt is
\* submitted instead.
AnswerBegin(p, a) ==
    /\ attempt[a].status = "in_progress"
    /\ \E q \in Question, given \in AllGiven :
           /\ given \in Given[q]
           /\ ExamBegin(p, [NoExam EXCEPT !.pc = IF a \in overdue THEN "timeoutFind" ELSE "answerFind",
                                          !.id = a, !.question = q, !.given = given, !.row = attempt[a]])
    /\ UNCHANGED <<bank, attempt, answer, overdue, told, crossed, mishap>>

\* autoSubmitAttempt() finds it once more ...
TimeoutFind(p) ==
    LET a == exam[p].id IN
    /\ exam[p].pc = "timeoutFind"
    /\ IF attempt[a].status = "in_progress"
       THEN exam' = [exam EXCEPT ![p].pc = "timeoutSave", ![p].row = attempt[a]]
       ELSE ExamEnd(p)
    /\ UNCHANGED <<bank, attempt, answer, overdue, told, crossed, mishap>>

\* ... and saves it, unscored.
TimeoutSave(p) ==
    LET a == exam[p].id IN
    /\ exam[p].pc = "timeoutSave"
    /\ IF CanSave(attempt[a])
       THEN /\ attempt' = [attempt EXCEPT ![a] = [exam[p].row EXCEPT !.status = "timed_out"]]
            /\ crossed' = IF attempt[a] # exam[p].row THEN crossed \cup {a} ELSE crossed
            /\ mishap' = IF IsThere(attempt[a]) THEN mishap ELSE mishap \cup {"revived"}
       ELSE UNCHANGED <<attempt, crossed, mishap>>
    /\ ExamEnd(p)
    /\ UNCHANGED <<bank, answer, overdue, told>>

\* 'Question not in this attempt'.
AnswerFind(p) ==
    LET a == exam[p].id IN
    /\ exam[p].pc = "answerFind"
    /\ IF answer[a][exam[p].question].there
       THEN exam' = [exam EXCEPT ![p].pc = "answerSave", ![p].answers = answer[a]]
       ELSE ExamEnd(p)
    /\ UNCHANGED <<bank, attempt, answer, overdue, told, crossed, mishap>>

\* save() leaves a column alone that is undefined in the entity: a field that was not sent.
Merged(old, given, unsent) ==
    LET of(field) == IF field \in unsent THEN old[field] ELSE given[field]
    IN  [selectedOptions |-> of("selectedOptions"), booleanAnswer |-> of("booleanAnswer"),
         matchedPairs |-> of("matchedPairs"), orderedItems |-> of("orderedItems")]

\* A field that is empty may have been sent so, or not: it tells where a saved one is not empty.
Unsent(old, given) == SUBSET {field \in {"selectedOptions", "booleanAnswer", "matchedPairs", "orderedItems"} :
                                given[field] = NoAnswer[field] /\ old[field] # given[field]}

\* The answer is saved with the score it was found with. (The last activity is left out.)
AnswerSave(p) ==
    LET a == exam[p].id
        q == exam[p].question
    IN
    /\ exam[p].pc = "answerSave"
    /\ IF CanSaveAnswer(a, q)
       THEN /\ \E unsent \in Unsent(answer[a][q].given, exam[p].given) :
                  answer' = [answer EXCEPT ![a][q] =
                      [exam[p].answers[q] EXCEPT !.given = Merged(answer[a][q].given, exam[p].given, unsent)]]
            /\ crossed' = IF exam[p].row.status = "in_progress" /\ IsSubmitted(a) THEN crossed \cup {a} ELSE crossed
       ELSE UNCHANGED <<answer, crossed>>
    /\ ExamEnd(p)
    /\ UNCHANGED <<bank, attempt, overdue, told, mishap>>

(***************************************************************************)
(* Submitting                                                              *)
(***************************************************************************)
\* 'Attempt cannot be submitted'; the answers are loaded with their questions. The deadline
\* is not looked at.
SubmitFind(p, a) ==
    /\ attempt[a].status = "in_progress"
    /\ ExamBegin(p, [NoExam EXCEPT !.pc = "submitAssessment", !.id = a, !.row = attempt[a], !.answers = answer[a],
                                   !.questions = {q \in Question : answer[a][q].there},
                                   !.content = [q \in Question |-> question[q].content]])
    /\ UNCHANGED <<bank, attempt, answer, overdue, told, crossed, mishap>>

\* From one answer to the next, and then to the saves.
NextUsage(p, left) ==
    exam' = [exam EXCEPT ![p].questions = left, ![p].question = Null, ![p].usageCount = 0,
                         ![p].pc = IF left = {} THEN "answersSave" ELSE "usageFind"]

SubmitAssessment(p) ==
    /\ exam[p].pc = "submitAssessment"
    /\ IF IsThere(assessment) THEN NextUsage(p, exam[p].questions) ELSE ExamEnd(p)
    /\ UNCHANGED <<bank, attempt, answer, overdue, told, crossed, mishap>>

\* updateUsageStats() reads the count of a question, and throws when there is none; ...
UsageFind(p) ==
    /\ exam[p].pc = "usageFind"
    /\ \E q \in exam[p].questions :
           IF IsThere(question[q])
           THEN exam' = [exam EXCEPT ![p].pc = "usageUpdate", ![p].question = q,
                                     ![p].usageCount = question[q].usageCount]
           ELSE ExamEnd(p)
    /\ UNCHANGED <<bank, attempt, answer, overdue, told, crossed, mishap>>

\* ... and writes one more.
UsageUpdate(p) ==
    LET q == exam[p].question IN
    /\ exam[p].pc = "usageUpdate"
    /\ question' = IF IsThere(question[q])
                   THEN [question EXCEPT ![q].usageCount = exam[p].usageCount + 1] ELSE question
    /\ NextUsage(p, exam[p].questions \ {q})
    /\ UNCHANGED <<assessment, link, edit, drifted, attempt, answer, overdue, told, crossed, mishap>>

\* The answers as they were loaded, with their scores.
Scored(r) ==
    [q \in Question |->
        IF r.answers[q].there
        THEN [r.answers[q] EXCEPT !.earnedPoints =
                 ScoreAnswer(r.content[q], r.answers[q].given, r.content[q].points).earnedPoints]
        ELSE NoRow]

AnswersSave(p) ==
    LET a == exam[p].id IN
    /\ exam[p].pc = "answersSave"
    /\ IF \A q \in Question : exam[p].answers[q].there => CanSaveAnswer(a, q)
       THEN /\ answer' = [answer EXCEPT ![a] = [q \in Question |-> IF exam[p].answers[q].there
                                                                  THEN Scored(exam[p])[q] ELSE answer[a][q]]]
            /\ crossed' = IF answer[a] # exam[p].answers \/ IsSubmitted(a) THEN crossed \cup {a} ELSE crossed
            /\ ExamTo(p, "attemptSave")
       ELSE UNCHANGED <<answer, crossed>> /\ ExamEnd(p)
    /\ UNCHANGED <<bank, attempt, overdue, told, mishap>>

\* calculateAttemptScore(), over the answers that were loaded.
EarnedPoints(r) == SumFunction([q \in Question |-> Scored(r)[q].earnedPoints])
PossiblePoints(r) == SumFunction([q \in Question |-> IF r.answers[q].there THEN r.content[q].points ELSE 0])

Submitted(r) ==
    [r.row EXCEPT !.earnedPoints = EarnedPoints(r), !.possiblePoints = PossiblePoints(r),
                  !.status = IF \E q \in Question : r.answers[q].requiresManualGrading
                             THEN "submitted" ELSE "graded"]

\* The save takes away answers that were not loaded with the attempt, and fails as in
\* AssessmentSave.
AttemptSave(p) ==
    LET a == exam[p].id
        loaded == \A q \in Question : answer[a][q].there => exam[p].answers[q].there
    IN
    /\ exam[p].pc = "attemptSave"
    /\ IF CanSave(attempt[a]) /\ loaded
       THEN /\ attempt' = [attempt EXCEPT ![a] = Submitted(exam[p])]
            /\ told' = [told EXCEPT ![a] = [row |-> Submitted(exam[p]), answers |-> Scored(exam[p])]]
            /\ crossed' = IF attempt[a] # exam[p].row THEN crossed \cup {a} ELSE crossed
            /\ mishap' = IF IsThere(attempt[a]) THEN mishap ELSE mishap \cup {"revived"}
       ELSE UNCHANGED <<attempt, told, crossed, mishap>>
    /\ ExamEnd(p)
    /\ UNCHANGED <<bank, answer, overdue>>

ExamHalt(p) ==
    /\ exam[p].pc # "idle"
    /\ ExamEnd(p)
    /\ UNCHANGED <<bank, attempt, answer, overdue, told, crossed, mishap>>

(***************************************************************************)
(* The service                                                             *)
(***************************************************************************)
ExamStep(p) ==
    \/ StartCount(p) \/ StartLook(p) \/ StartQuestions(p) \/ StartInsert(p) \/ StartAnswers(p)
    \/ TimeoutFind(p) \/ TimeoutSave(p) \/ AnswerFind(p) \/ AnswerSave(p)
    \/ SubmitAssessment(p) \/ UsageFind(p) \/ UsageUpdate(p) \/ AnswersSave(p) \/ AttemptSave(p)
    \/ ExamHalt(p)

ExamContinue(p) == ExamStep(p) /\ UNCHANGED made

\* The routes of AttemptsController.
ExamRoute(p) == StartFind(p) \/ \E a \in Attempt : AnswerBegin(p, a) \/ SubmitFind(p, a)

\* Mutant: an answer stays when its question is deleted.
Cascade_AnswersStay ==
    /\ attempt' = [a \in Attempt |-> IF assessment'.status = "deleted" /\ attempt[a].status # "none"
                                      THEN [NoAttempt EXCEPT !.status = "deleted"] ELSE attempt[a]]
    /\ answer' = [a \in Attempt |-> IF attempt'[a].status = "deleted" THEN NoAnswers ELSE answer[a]]
    /\ crossed' = crossed \cup {a \in Attempt : answer'[a] # answer[a]}

\* An attempt goes with its assessment, an answer with its attempt or its question.
Cascade ==
    /\ attempt' = [a \in Attempt |-> IF assessment'.status = "deleted" /\ attempt[a].status # "none"
                                      THEN [NoAttempt EXCEPT !.status = "deleted"] ELSE attempt[a]]
    /\ answer' = [a \in Attempt |-> [q \in Question |->
                      IF attempt'[a].status = "deleted" \/ question'[q].status = "deleted"
                      THEN NoRow ELSE answer[a][q]]]
    /\ crossed' = crossed \cup {a \in Attempt : answer'[a] # answer[a]}

Edits ==
    /\ \E p \in Proc : exam[p].pc = "idle" /\ (EditServe(p) \/ EditContinue(p))
    /\ Cascade
    /\ UNCHANGED <<overdue, exam, told, mishap>>

ExamServe(p) == ExamRoute(p) /\ made < MaxRequests /\ made' = made + 1

Init == BankInit /\ AttemptInit

Next ==
    \/ Edits
    \/ \E p \in Proc : ExamServe(p) \/ ExamContinue(p)
    \/ \E a \in Attempt : DeadlinePasses(a)

Spec == Init /\ [][Next]_vars

(***************************************************************************)
(* Properties                                                              *)
(***************************************************************************)
\* Every variable holds what its row or a request's memory can hold; an answer belongs to
\* an attempt that was made.
TypeOK ==
    /\ assessment \in AssessmentRow
    /\ link \subseteq Question
    /\ question \in [Question -> QuestionRow]
    /\ edit \in [Proc -> Edit]
    /\ attempt \in [Attempt -> AttemptRow]
    /\ answer \in [Attempt -> Answers]
    /\ \A a \in Attempt, q \in Question :
           answer[a][q].there => IsThere(attempt[a]) /\ question[q].status \notin {"none", "deleted"}
    /\ overdue \subseteq Attempt
    /\ exam \in [Proc -> Exam]
    /\ made \in Nat
    /\ drifted \subseteq Question
    /\ told \in [Attempt -> [row : AttemptRow, answers : Answers]]
    /\ crossed \subseteq Attempt
    /\ mishap \subseteq {"together", "revived"}

\* 'Maximum attempts reached' (startAttempt): the student makes no more attempts than
\* that, and their numbers differ, unless two starts counted the same attempts, or one
\* that was deleted with the assessment was saved again.
AttemptsWithinLimit ==
    mishap = {} =>
        /\ Cardinality(Made) <= MaxAttempts
        /\ \A a, b \in Made : a # b => attempt[a].attemptNumber # attempt[b].attemptNumber

\* 'Attempt is not in progress', 'Attempt cannot be submitted', 'Attempt has timed out':
\* the result of a submission stands, in the attempt and in its answers, unless an answer,
\* another submission, the timeout or the attempt's own start was on its way at that moment,
\* or a question was deleted.
ResultKept ==
    \A a \in Attempt : told[a].row.status # "none" /\ a \notin crossed /\ attempt[a].status # "deleted"
        => attempt[a] = told[a].row /\ answer[a] = told[a].answers

SelectsTwice(given) == Cardinality({given.selectedOptions[i] : i \in DOMAIN given.selectedOptions})
                       < Len(given.selectedOptions)

\* "Partial credit: points for each correct, minus for each incorrect" (scoreMultiMCQ): a
\* submission never earns more points than it can, nor less than none, unless an answer
\* selects an option twice.
EarnedWithinPossible ==
    \A a \in Attempt : (\A q \in Question : ~SelectsTwice(told[a].answers[q].given))
        => told[a].row.earnedPoints \in 0..told[a].row.possiblePoints

\* What a student is told of a submission (submitAttempt) is what the questions allow, and
\* it stays so, each unless the ways above to lose it have happened.
ResultStands == ResultKept /\ EarnedWithinPossible
=============================================================================
