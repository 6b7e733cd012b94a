---------------------------- MODULE Assessments ----------------------------
(***************************************************************************)
(* AssessmentsService and QuestionBankService: one assessment, its         *)
(* questions and the bank they come from. Each awaited call is an action,  *)
(* on what the request has remembered since the calls before. A refused    *)
(* request that has changed nothing is left out, and so are the order of   *)
(* the questions, their statistics but the count of uses, and archive()    *)
(* of an assessment, which no route calls.                                 *)
(*                                                                         *)
(* save() writes every column of the entity; where the row is gone it      *)
(* inserts it again.                                                       *)
(***************************************************************************)
EXTENDS Integers, FiniteSetsExt, Scoring

CONSTANTS
    Question,     \* questions ids
    Contents,     \* what a question may ask, by its id: a set of contents
    Proc,         \* requests in progress at the same time
    MaxRequests,  \* bound: requests made
    Null

ASSUME QuestionAssumption == IsFiniteSet(Question)
ASSUME ContentsAssumption == \A q \in Question : \A c \in Contents[q] : IsContent(c) /\ IsValid(c)
ASSUME RequestsAssumption == MaxRequests \in Nat
ASSUME NoQuestionAssumption == Null \notin Question

VARIABLES
    assessment,  \* the assessments row
    link,        \* assessment_questions
    question,    \* questions
    edit,        \* the requests in progress
    made,        \* requests made so far
    drifted      \* history: questions no longer approved, or added after the publication

bank == <<assessment, link, question, edit, drifted>>

AssessmentStatus == {"none", "draft", "published", "closed", "deleted"}
AssessmentRow == [status : AssessmentStatus, totalPoints : Nat]
IsThere(row) == row.status \notin {"none", "deleted"}

QuestionStatus == {"none", "draft", "pending_review", "approved", "rejected", "archived", "deleted"}
AllContents == UNION {Contents[q] : q \in Question}
QuestionRow == [status : QuestionStatus, content : AllContents, usageCount : Nat]

Edit == [pc : {"idle", "createAdd", "linkInsert", "sumRead", "sumWrite", "assessmentSave",
               "assessmentRemove", "questionSave", "questionRemove"},
         links : SUBSET Question, again : BOOLEAN, assessment : AssessmentRow,
         id : Question \cup {Null}, question : {Null} \cup QuestionRow]
NoEdit == [pc |-> "idle", links |-> {}, again |-> FALSE,
           assessment |-> [status |-> "none", totalPoints |-> 0], id |-> Null, question |-> Null]

\* Questions that were approved or not made yet, and an assessment of the former or none.
BankInit ==
    /\ question \in [Question -> {[status |-> status, content |-> content, usageCount |-> 0] :
                                   status \in {"none", "approved"}, content \in AllContents}]
    /\ \A q \in Question : question[q].content \in Contents[q]
    /\ \E status \in {"none", "draft", "published"} :
           /\ assessment = [status |-> status, totalPoints |-> 0]
           /\ link = IF status = "none" THEN {} ELSE {q \in Question : question[q].status = "approved"}
           /\ status = "published" => link # {}
    /\ edit = [p \in Proc |-> NoEdit]
    /\ made = 0
    /\ drifted = {}

EditTo(p, step) == edit' = [edit EXCEPT ![p].pc = step]
EditEnd(p) == edit' = [edit EXCEPT ![p] = NoEdit]
EditBegin(p, request) == edit[p].pc = "idle" /\ edit' = [edit EXCEPT ![p] = request]

(***************************************************************************)
(* The questions of the assessment                                         *)
(***************************************************************************)
\* 'Some questions were not found', 'Some questions are already in this assessment'.
CanAdd(given) ==
    /\ IsThere(assessment)
    /\ \A q \in given : question[q].status \in {"approved", "draft", "pending_review"} /\ q \notin link

AddFind(p) ==
    /\ \E given \in SUBSET Question \ {{}} :
           CanAdd(given) /\ EditBegin(p, [NoEdit EXCEPT !.pc = "linkInsert", !.links = given])
    /\ UNCHANGED <<assessment, link, question, drifted>>

\* create(): the row, and then its questions as in addQuestions().
AssessmentCreate(p) ==
    /\ assessment.status = "none"
    /\ assessment' = [status |-> "draft", totalPoints |-> 0]
    /\ \E given \in SUBSET Question :
           EditBegin(p, IF given = {} THEN NoEdit
                        ELSE [NoEdit EXCEPT !.pc = "createAdd", !.links = given, !.again = TRUE])
    /\ UNCHANGED <<link, question, drifted>>

CreateAdd(p) ==
    /\ edit[p].pc = "createAdd"
    /\ IF CanAdd(edit[p].links) THEN EditTo(p, "linkInsert") ELSE EditEnd(p)
    /\ UNCHANGED <<assessment, link, question, made, drifted>>

\* Foreign keys, and a question is in an assessment once.
LinkInsert(p) ==
    LET given == edit[p].links IN
    /\ edit[p].pc = "linkInsert"
    /\ IF IsThere(assessment) /\ given \cap link = {} /\ \A q \in given : IsThere(question[q])
       THEN /\ link' = link \cup given
            /\ drifted' = IF assessment.status = "published" THEN drifted \cup given ELSE drifted
            /\ EditTo(p, "sumRead")
       ELSE UNCHANGED <<link, drifted>> /\ EditEnd(p)
    /\ UNCHANGED <<assessment, question, made>>

RemoveQuestion(p, q) ==
    /\ q \in link
    /\ link' = link \ {q}
    /\ EditBegin(p, [NoEdit EXCEPT !.pc = "sumRead"])
    /\ UNCHANGED <<assessment, question, drifted>>

\* recalculateTotalPoints() reads the sum (nothing sets a question's overridePoints) ...
SumRead(p) ==
    /\ edit[p].pc = "sumRead"
    /\ edit' = [edit EXCEPT ![p].pc = "sumWrite",
                            ![p].assessment.totalPoints = SumFunction([q \in link |-> question[q].content.points])]
    /\ UNCHANGED <<assessment, link, question, made, drifted>>

\* ... and writes it; create() asks for it once more.
SumWrite(p) ==
    /\ edit[p].pc = "sumWrite"
    /\ assessment' = IF IsThere(assessment)
                     THEN [assessment EXCEPT !.totalPoints = edit[p].assessment.totalPoints] ELSE assessment
    /\ IF edit[p].again THEN edit' = [edit EXCEPT ![p].pc = "sumRead", ![p].again = FALSE] ELSE EditEnd(p)
    /\ UNCHANGED <<link, question, made, drifted>>

(***************************************************************************)
(* The assessment                                                          *)
(***************************************************************************)
\* findById() loads the questions with the row.
AssessmentFound(status) ==
    [NoEdit EXCEPT !.pc = "assessmentSave", !.links = link, !.assessment = [assessment EXCEPT !.status = status]]

\* update(): 'Cannot update published assessment'.
UpdateFind(p) ==
    /\ IsThere(assessment) /\ assessment.status # "published"
    /\ EditBegin(p, AssessmentFound(assessment.status))
    /\ UNCHANGED <<assessment, link, question, drifted>>

\* Mutant: questions waiting for a review are good enough.
PublishFind_Pending(p) ==
    /\ assessment.status = "draft" /\ link # {}
    /\ \A q \in link : question[q].status \in {"approved", "pending_review"}
    /\ EditBegin(p, AssessmentFound("published"))
    /\ UNCHANGED <<assessment, link, question, drifted>>

\* publish(): 'Only draft assessments can be published', 'Cannot publish assessment without
\* questions', 'Cannot publish assessment with unapproved questions'.
PublishFind(p) ==
    /\ assessment.status = "draft" /\ link # {}
    /\ \A q \in link : question[q].status = "approved"
    /\ EditBegin(p, AssessmentFound("published"))
    /\ UNCHANGED <<assessment, link, question, drifted>>

CloseFind(p) ==
    /\ IsThere(assessment)
    /\ EditBegin(p, AssessmentFound("closed"))
    /\ UNCHANGED <<assessment, link, question, drifted>>

\* The save takes a question that was added meanwhile out of the assessment, by writing
\* null to a column that may not be null: it fails.
AssessmentSave(p) ==
    /\ edit[p].pc = "assessmentSave"
    /\ assessment' = IF link \subseteq edit[p].links THEN edit[p].assessment ELSE assessment
    /\ EditEnd(p)
    /\ UNCHANGED <<link, question, made, drifted>>

\* delete(): 'Cannot delete published assessment'; ...
DeleteFind(p) ==
    /\ IsThere(assessment) /\ assessment.status # "published"
    /\ EditBegin(p, [NoEdit EXCEPT !.pc = "assessmentRemove"])
    /\ UNCHANGED <<assessment, link, question, drifted>>

\* ... the row goes, and whatever refers to it.
AssessmentRemove(p) ==
    /\ edit[p].pc = "assessmentRemove"
    /\ assessment' = [status |-> "deleted", totalPoints |-> 0]
    /\ link' = {}
    /\ EditEnd(p)
    /\ UNCHANGED <<question, made, drifted>>

(***************************************************************************)
(* The question bank                                                       *)
(***************************************************************************)
\* create(): normalized and validated.
QuestionCreate(q) ==
    /\ question[q].status = "none"
    /\ \E content \in Contents[q] :
           question' = [question EXCEPT ![q] = [status |-> "draft", content |-> content, usageCount |-> 0]]
    /\ UNCHANGED <<assessment, link, edit, drifted>>

QuestionFound(q, row) == [NoEdit EXCEPT !.pc = "questionSave", !.id = q, !.question = row]

\* update(): another content, the same status.
ReviseFind(p, q) ==
    /\ IsThere(question[q])
    /\ \E content \in Contents[q] : EditBegin(p, QuestionFound(q, [question[q] EXCEPT !.content = content]))
    /\ UNCHANGED <<assessment, link, question, drifted>>

\* submitForReview(): 'Only draft questions can be submitted for review'.
SubmitForReviewFind(p, q) ==
    /\ question[q].status = "draft"
    /\ EditBegin(p, QuestionFound(q, [question[q] EXCEPT !.status = "pending_review"]))
    /\ UNCHANGED <<assessment, link, question, drifted>>

\* review(): 'Question is not pending review'; the reviewer may give any status.
ReviewFind(p, q) ==
    /\ question[q].status = "pending_review"
    /\ \E status \in QuestionStatus \ {"none", "deleted"} :
           EditBegin(p, QuestionFound(q, [question[q] EXCEPT !.status = status]))
    /\ UNCHANGED <<assessment, link, question, drifted>>

ArchiveFind(p, q) ==
    /\ IsThere(question[q])
    /\ EditBegin(p, QuestionFound(q, [question[q] EXCEPT !.status = "archived"]))
    /\ UNCHANGED <<assessment, link, question, drifted>>

QuestionSave(p) ==
    LET q == edit[p].id IN
    /\ edit[p].pc = "questionSave"
    /\ question' = [question EXCEPT ![q] = edit[p].question]
    /\ drifted' = IF question[q].status = "approved" /\ edit[p].question.status # "approved"
                  THEN drifted \cup {q} ELSE drifted
    /\ EditEnd(p)
    /\ UNCHANGED <<assessment, link, made>>

QuestionDeleteFind(p, q) ==
    /\ IsThere(question[q])
    /\ EditBegin(p, [NoEdit EXCEPT !.pc = "questionRemove", !.id = q])
    /\ UNCHANGED <<assessment, link, question, drifted>>

\* It goes out of every assessment.
QuestionRemove(p) ==
    LET q == edit[p].id IN
    /\ edit[p].pc = "questionRemove"
    /\ question' = [question EXCEPT ![q].status = "deleted"]
    /\ link' = link \ {q}
    /\ drifted' = IF question[q].status = "approved" THEN drifted \cup {q} ELSE drifted
    /\ EditEnd(p)
    /\ UNCHANGED <<assessment, made>>

\* A call fails, or the process stops.
EditHalt(p) ==
    /\ edit[p].pc # "idle"
    /\ EditEnd(p)
    /\ UNCHANGED <<assessment, link, question, made, drifted>>

(***************************************************************************)
(* The services                                                            *)
(***************************************************************************)
EditContinue(p) ==
    \/ CreateAdd(p) \/ LinkInsert(p) \/ SumRead(p) \/ SumWrite(p)
    \/ AssessmentSave(p) \/ AssessmentRemove(p)
    \/ QuestionSave(p) \/ QuestionRemove(p) \/ EditHalt(p)

\* The routes of AssessmentsController ...
AssessmentRoute(p) ==
    \/ AssessmentCreate(p) \/ AddFind(p) \/ (\E q \in Question : RemoveQuestion(p, q))
    \/ UpdateFind(p) \/ PublishFind(p) \/ CloseFind(p) \/ DeleteFind(p)

\* ... and of QuestionsController.
QuestionRoute(p) ==
    \E q \in Question :
        \/ QuestionCreate(q) \/ ReviseFind(p, q) \/ SubmitForReviewFind(p, q)
        \/ ReviewFind(p, q) \/ ArchiveFind(p, q) \/ QuestionDeleteFind(p, q)

EditServe(p) == (AssessmentRoute(p) \/ QuestionRoute(p)) /\ made < MaxRequests /\ made' = made + 1

\* 'Cannot publish assessment with unapproved questions' (publish): while an assessment is
\* published its questions are approved, but for those that lost the approval since they
\* had it, and those that were added after the publication.
PublishedIsApproved ==
    assessment.status = "published" => \A q \in link : question[q].status = "approved" \/ q \in drifted
=============================================================================
