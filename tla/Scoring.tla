------------------------------ MODULE Scoring ------------------------------
(***************************************************************************)
(* ScoringEngineService: the score of one answer to one question, and of   *)
(* an attempt. A question's content is a record with a field for every     *)
(* type; only those of its own type are looked at. Fractions are kept as   *)
(* part and whole.                                                         *)
(***************************************************************************)
EXTENDS Integers, Sequences, FiniteSets

\* What SubmitAnswerDto holds; a field that was not sent is empty.
NoAnswer == [selectedOptions |-> <<>>, booleanAnswer |-> {}, matchedPairs |-> {}, orderedItems |-> <<>>]

IsManual(content) == content.type \in {"short_answer", "essay"}

\* Math.round(part / whole * points)
Rounded(part, whole, points) == (2 * part * points + whole) \div (2 * whole)

\* partialScore as part of whole.
ScoringResult(isCorrect, part, whole, earnedPoints) ==
    [isCorrect |-> isCorrect, isPartial |-> part > 0, earnedPoints |-> earnedPoints]

AllOrNothing(isCorrect, points) ==
    ScoringResult(isCorrect, IF isCorrect THEN 1 ELSE 0, 1, IF isCorrect THEN points ELSE 0)

\* count of whole are right, and an answer is right when all are.
Counted(content, count, whole, points) ==
    IF content.partialCredit
    THEN ScoringResult(count = whole, count, whole, Rounded(count, whole, points))
    ELSE AllOrNothing(count = whole, points)

Selects(selected, options) == Cardinality({i \in DOMAIN selected : selected[i] \in options})

ScoreSingle(content, answer, points) ==
    LET selected == answer.selectedOptions IN
    AllOrNothing(Len(selected) = 1 /\ Cardinality(content.correctOptions) = 1
                 /\ Selects(selected, content.correctOptions) = 1, points)

\* Mutant: wrong selections are not made up for.
ScoreMulti_NoFloor(content, answer, points) ==
    LET whole == Cardinality(content.correctOptions)
        right == Selects(answer.selectedOptions, content.correctOptions)
        wrong == Len(answer.selectedOptions) - right
        isCorrect == right = whole /\ wrong = 0
    IN IF content.partialCredit
       THEN ScoringResult(isCorrect, right - wrong, whole, Rounded(right - wrong, whole, points))
       ELSE AllOrNothing(isCorrect, points)

\* The selections are counted one by one, also when an option is selected twice.
ScoreMulti(content, answer, points) ==
    LET whole == Cardinality(content.correctOptions)
        right == Selects(answer.selectedOptions, content.correctOptions)
        wrong == Len(answer.selectedOptions) - right
        isCorrect == right = whole /\ wrong = 0
        part == IF right > wrong THEN right - wrong ELSE 0
    IN IF content.partialCredit
       THEN ScoringResult(isCorrect, part, whole, Rounded(part, whole, points))
       ELSE AllOrNothing(isCorrect, points)

ScoreTrueFalse(content, answer, points) ==
    AllOrNothing(answer.booleanAnswer = {content.correctAnswer}, points)

\* A SubmitAnswerDto has no texts for the blanks: each is compared with ''.
ScoreFillBlank(content, answer, points) ==
    LET blanks == content.acceptedAnswers
        count == Cardinality({i \in DOMAIN blanks : "" \in blanks[i]})
    IN Counted(content, count, Len(blanks), points)

\* A pair's id stands for its left and for its right side.
ScoreMatching(content, answer, points) ==
    LET count == Cardinality({id \in content.pairs : <<id, id>> \in answer.matchedPairs})
    IN Counted(content, count, Cardinality(content.pairs), points)

ScoreOrdering(content, answer, points) ==
    LET correct == content.correctOrder
        ordered == answer.orderedItems
        count == Cardinality({i \in DOMAIN correct : ordered[i] = correct[i]})
    IN IF Len(ordered) # Len(correct) THEN AllOrNothing(FALSE, points)
       ELSE Counted(content, count, Len(correct), points)

\* A question that is graded by hand earns nothing here.
ScoreAnswer(content, answer, points) ==
    CASE content.type = "mcq"        -> ScoreSingle(content, answer, points)
      [] content.type = "mcq_multi"  -> ScoreMulti(content, answer, points)
      [] content.type = "true_false" -> ScoreTrueFalse(content, answer, points)
      [] content.type = "fill_blank" -> ScoreFillBlank(content, answer, points)
      [] content.type = "matching"   -> ScoreMatching(content, answer, points)
      [] content.type = "ordering"   -> ScoreOrdering(content, answer, points)
      [] OTHER                       -> AllOrNothing(FALSE, points)

\* What the columns of a question hold, of whatever type it is.
IsContent(content) ==
    /\ content.points \in Nat \ {0} /\ content.partialCredit \in BOOLEAN
    /\ IsFiniteSet(content.correctOptions) /\ IsFiniteSet(content.pairs)
    /\ content.acceptedAnswers \in Seq(SUBSET STRING) /\ content.correctOrder \in Seq(STRING)

\* validateQuestionPayload(): what a question must have, by its type.
IsValid(content) ==
    /\ content.type = "mcq" => Cardinality(content.correctOptions) = 1
    /\ content.type = "mcq_multi" => Cardinality(content.correctOptions) >= 1
    /\ content.type = "true_false" => content.correctAnswer \in BOOLEAN
    /\ content.type = "fill_blank" => Len(content.acceptedAnswers) >= 1
    /\ content.type = "matching" => Cardinality(content.pairs) >= 2
    /\ content.type = "ordering" => Len(content.correctOrder) >= 2
=============================================================================
