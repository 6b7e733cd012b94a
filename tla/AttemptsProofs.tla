--------------------------- MODULE AttemptsProofs ---------------------------
(***************************************************************************)
(* The safety properties of Attempts, for any questions, attempts,         *)
(* requests and bounds. A sum of points is taken over the subsets of its   *)
(* terms, so what it is can be shown by induction on them.                 *)
(***************************************************************************)
EXTENDS Attempts, FiniteSetTheorems, TLAPS

(***************************************************************************)
(* Sums of points                                                          *)
(***************************************************************************)
\* Induction on the subsets of a finite set: a set of them has all of them if it has each
\* of which it has every part with one element less.
LEMMA SubsetInduction ==
    ASSUME NEW S, IsFiniteSet(S), NEW T,
           \A s \in SUBSET S : (\A x \in s : s \ {x} \in T) => s \in T
    PROVE  SUBSET S \subseteq T
<1> DEFINE Bad == (SUBSET S) \ T
           Less == StrictSubsetOrdering(S)
<1>1. SUFFICES ASSUME Bad # {} PROVE FALSE
  OBVIOUS
<1>2. IsWellFoundedOn(Less, SUBSET S)
  BY FS_StrictSubsetOrderingWellFounded, FS_FiniteSubsetsOfFinite
<1>3. PICK s \in Bad : \A u \in Bad : <<u, s>> \notin Less
  <2> HIDE DEF Less
  <2>1. Bad \subseteq SUBSET S
    OBVIOUS
  <2> HIDE DEF Bad
  <2> QED BY <1>1, <1>2, <2>1, WFMin
<1>4. \A x \in s : s \ {x} \in T
  <2> SUFFICES ASSUME NEW x \in s, s \ {x} \notin T PROVE FALSE
    OBVIOUS
  <2>1. s \ {x} \in Bad
    BY <1>3
  <2>2. <<s \ {x}, s>> \in Less
    BY <1>3 DEF StrictSubsetOrdering
  <2> QED BY <2>1, <2>2, <1>3
<1> QED BY <1>3, <1>4

\* g has the sum of f over each subset of S, which goes by one element after the other.
Sums(g, S, f) ==
    /\ g \in [SUBSET S -> Nat]
    /\ g[{}] = 0
    /\ \A s \in SUBSET S : \A x \in s : x = (CHOOSE y \in s : TRUE) => g[s] = f[x] + g[s \ {x}]

\* Two sums agree on what they both add up.
LEMMA SumsAgree ==
    ASSUME NEW f, NEW A, NEW B, NEW g, NEW h, NEW S, IsFiniteSet(S),
           Sums(g, A, f), Sums(h, B, f), S \subseteq A, S \subseteq B
    PROVE  \A s \in SUBSET S : g[s] = h[s]
<1> DEFINE T == {s \in SUBSET S : g[s] = h[s]}
<1>1. ASSUME NEW s \in SUBSET S, \A x \in s : s \ {x} \in T
      PROVE  s \in T
  <2>1. CASE s = {}
    BY <2>1 DEF Sums
  <2>2. CASE s # {}
    <3>1. PICK x \in s : x = CHOOSE y \in s : TRUE
      BY <2>2
    <3>2. g[s] = f[x] + g[s \ {x}] /\ h[s] = f[x] + h[s \ {x}]
      BY <3>1 DEF Sums
    <3>3. g[s \ {x}] = h[s \ {x}]
      BY <1>1
    <3> QED BY <3>2, <3>3
  <2> QED BY <2>1, <2>2
<1> HIDE DEF T
<1>2. SUBSET S \subseteq T
  BY <1>1, SubsetInduction
<1> QED BY <1>2 DEF T

\* There are sums of any points.
LEMMA SumExists ==
    ASSUME NEW S, IsFiniteSet(S), NEW f \in [S -> Nat]
    PROVE  \E g : Sums(g, S, f)
<1> DEFINE T == {s \in SUBSET S : \E g : Sums(g, s, f)}
<1>1. ASSUME NEW s \in SUBSET S, \A x \in s : s \ {x} \in T
      PROVE  s \in T
  <2> DEFINE added == [x \in s |-> CHOOSE g : Sums(g, s \ {x}, f)]
             one == [u \in SUBSET s |-> CHOOSE y \in u : TRUE]
             value(u) == IF u = {} THEN 0 ELSE f[one[u]] + added[one[u]][u \ {one[u]}]
             g == [u \in SUBSET s |-> value(u)]
  <2>1. \A x \in s : Sums(added[x], s \ {x}, f)
    BY <1>1
  <2>2. \A u \in SUBSET s : one[u] = (CHOOSE y \in u : TRUE) /\ (u # {} => one[u] \in u)
    OBVIOUS
  <2> HIDE DEF added, one
  <2>3. ASSUME NEW x \in s, NEW w \in SUBSET (s \ {x})
        PROVE  added[x][w] = value(w) /\ added[x][w] \in Nat
    <3>1. Sums(added[x], s \ {x}, f)
      BY <2>1
    <3>2. CASE w = {}
      BY <3>1, <3>2 DEF Sums
    <3>3. CASE w # {}
      <4>1. PICK y : y = one[w]
        OBVIOUS
      <4>2. y \in w /\ y \in s /\ y = CHOOSE z \in w : TRUE
        BY <4>1, <3>3, <2>2
      <4>3. w \ {y} \subseteq s \ {x} /\ w \ {y} \subseteq s \ {y} /\ IsFiniteSet(w \ {y})
        BY FS_Subset
      <4>4. Sums(added[y], s \ {y}, f)
        BY <2>1, <4>2
      <4>5. added[x][w \ {y}] = added[y][w \ {y}]
        BY <3>1, <4>3, <4>4, SumsAgree
      <4>6. added[x][w] = f[y] + added[x][w \ {y}] /\ added[x][w] \in Nat
        BY <3>1, <4>2 DEF Sums
      <4> QED BY <3>3, <4>1, <4>5, <4>6
    <3> QED BY <3>2, <3>3
  <2>4. \A u \in SUBSET s : value(u) \in Nat
    <3> SUFFICES ASSUME NEW u \in SUBSET s, u # {} PROVE value(u) \in Nat
      OBVIOUS
    <3>1. one[u] \in S /\ one[u] \in s
      BY <2>2
    <3>2. added[one[u]][u \ {one[u]}] \in Nat
      BY <2>3, <3>1
    <3> QED BY <3>1, <3>2
  <2>5. ASSUME NEW u \in SUBSET s, NEW x \in u, x = CHOOSE y \in u : TRUE
        PROVE  g[u] = f[x] + g[u \ {x}]
    <3>1. one[u] = x
      BY <2>2, <2>5
    <3>2. added[x][u \ {x}] = value(u \ {x})
      BY <2>3
    <3>3. value(u) = f[x] + added[x][u \ {x}]
      BY <3>1
    <3> HIDE DEF value
    <3>4. g[u] = value(u) /\ g[u \ {x}] = value(u \ {x})
      OBVIOUS
    <3> QED BY <3>2, <3>3, <3>4
  <2>6. g[{}] = 0
    OBVIOUS
  <2>7. Sums(g, s, f)
    <3> HIDE DEF value
    <3>1. g \in [SUBSET s -> Nat]
      BY <2>4
    <3> HIDE DEF g
    <3> QED BY <3>1, <2>5, <2>6 DEF Sums
  <2> QED BY <2>7
<1> HIDE DEF T
<1>2. SUBSET S \subseteq T
  BY <1>1, SubsetInduction
<1> QED BY <1>2 DEF T

\* Whatever goes by one element after the other has the sums.
LEMMA SumIs ==
    ASSUME NEW S, IsFiniteSet(S), NEW f \in [S -> Nat], NEW h, h = [s \in SUBSET S |-> h[s]], h[{}] = 0,
           \A s \in SUBSET S : \A x \in s : x = (CHOOSE y \in s : TRUE) => h[s] = f[x] + h[s \ {x}]
    PROVE  Sums(h, S, f)
<1> DEFINE T == {s \in SUBSET S : h[s] \in Nat}
<1>1. ASSUME NEW s \in SUBSET S, \A x \in s : s \ {x} \in T
      PROVE  s \in T
  <2>1. CASE s = {}
    BY <2>1
  <2>2. CASE s # {}
    <3>1. PICK x \in s : x = CHOOSE y \in s : TRUE
      BY <2>2
    <3>2. h[s \ {x}] \in Nat /\ f[x] \in Nat /\ h[s] = f[x] + h[s \ {x}]
      BY <1>1, <3>1
    <3> QED BY <3>2
  <2> QED BY <2>1, <2>2
<1> HIDE DEF T
<1>2. SUBSET S \subseteq T
  BY <1>1, SubsetInduction
<1>3. h \in [SUBSET S -> Nat]
  BY <1>2 DEF T
<1> QED BY <1>3 DEF Sums

\* The sum of what is nowhere more is not more.
LEMMA SumsCompare ==
    ASSUME NEW S, IsFiniteSet(S), NEW e \in [S -> Nat], NEW f \in [S -> Nat], NEW g, NEW h,
           Sums(g, S, e), Sums(h, S, f), \A x \in S : e[x] <= f[x]
    PROVE  g[S] <= h[S]
<1> DEFINE T == {s \in SUBSET S : g[s] <= h[s]}
<1>1. ASSUME NEW s \in SUBSET S, \A x \in s : s \ {x} \in T
      PROVE  s \in T
  <2>1. CASE s = {}
    BY <2>1 DEF Sums
  <2>2. CASE s # {}
    <3>1. PICK x \in s : x = CHOOSE y \in s : TRUE
      BY <2>2
    <3>2. g[s] = e[x] + g[s \ {x}] /\ h[s] = f[x] + h[s \ {x}]
      BY <3>1 DEF Sums
    <3>3. g[s \ {x}] <= h[s \ {x}] /\ e[x] <= f[x]
      BY <1>1
    <3>4. e[x] \in Nat /\ f[x] \in Nat /\ g[s \ {x}] \in Nat /\ h[s \ {x}] \in Nat
      BY DEF Sums
    <3>5. g[s] <= h[s]
      BY <3>2, <3>3, <3>4
    <3> QED BY <3>5
  <2> QED BY <2>1, <2>2
<1> HIDE DEF T
<1>2. SUBSET S \subseteq T
  BY <1>1, SubsetInduction
<1> QED BY <1>2 DEF T

\* SumFunction() gives such a sum.
LEMMA SumFunctionSums ==
    ASSUME NEW S, IsFiniteSet(S), NEW f \in [S -> Nat]
    PROVE  \E h : Sums(h, S, f) /\ SumFunction(f) = h[S]
<1> DEFINE Is(g) == g = [s \in SUBSET S |-> IF s = {} THEN 0
                                ELSE f[CHOOSE y \in s : TRUE] + g[s \ {CHOOSE y \in s : TRUE}]]
<1>1. PICK g : Sums(g, S, f)
  BY SumExists
<1>2. Is(g)
  <2>1. ASSUME NEW s \in SUBSET S, s # {}
        PROVE  g[s] = f[CHOOSE y \in s : TRUE] + g[s \ {CHOOSE y \in s : TRUE}]
    <3>1. PICK x \in s : x = CHOOSE y \in s : TRUE
      BY <2>1
    <3> QED BY <1>1, <3>1 DEF Sums
  <2>2. g[{}] = 0 /\ g = [s \in SUBSET S |-> g[s]]
    BY <1>1 DEF Sums
  <2> QED BY <2>1, <2>2
<1>3. PICK h : h = CHOOSE k : Is(k)
  OBVIOUS
<1>4. Is(h)
  <2> HIDE DEF Is
  <2> QED BY <1>2, <1>3
<1>5. h = [s \in SUBSET S |-> h[s]] /\ h[{}] = 0
  BY <1>4
<1>6. ASSUME NEW s \in SUBSET S, NEW x \in s, x = CHOOSE y \in s : TRUE
      PROVE  h[s] = f[x] + h[s \ {x}]
  BY <1>4, <1>6
<1>7. DOMAIN f = S
  OBVIOUS
<1>8. SumFunctionOnSet(f, S) = h[S]
  BY <1>3 DEF SumFunctionOnSet, FoldFunctionOnSet, MapThenFoldSet
<1>9. SumFunction(f) = h[S]
  BY <1>7, <1>8 DEF SumFunction
<1> HIDE DEF Is
<1>10. Sums(h, S, f)
  BY <1>5, <1>6, SumIs
<1> QED BY <1>9, <1>10

\* The sum of points is a number, and not more than the sum of what is nowhere less.
LEMMA SumType ==
    ASSUME NEW S, IsFiniteSet(S), NEW f \in [S -> Nat]
    PROVE  SumFunction(f) \in Nat
<1>1. PICK h : Sums(h, S, f) /\ SumFunction(f) = h[S]
  BY SumFunctionSums
<1> QED BY <1>1 DEF Sums

LEMMA SumMonotone ==
    ASSUME NEW S, IsFiniteSet(S), NEW e \in [S -> Nat], NEW f \in [S -> Nat], \A x \in S : e[x] <= f[x]
    PROVE  SumFunction(e) <= SumFunction(f)
<1>1. PICK g : Sums(g, S, e) /\ SumFunction(e) = g[S]
  BY SumFunctionSums
<1>2. PICK h : Sums(h, S, f) /\ SumFunction(f) = h[S]
  BY SumFunctionSums
<1> QED BY <1>1, <1>2, SumsCompare

(***************************************************************************)
(* What an answer earns                                                    *)
(***************************************************************************)
\* Rounding a part of the points gives no more than all of them.
LEMMA RoundedBounds ==
    ASSUME NEW part \in Nat, NEW whole \in Nat \ {0}, NEW points \in Nat
    PROVE  /\ Rounded(part, whole, points) \in Nat
           /\ part <= whole => Rounded(part, whole, points) <= points
<1>1. PICK d \in Nat : d = 2 * whole /\ d > 0
  OBVIOUS
<1>2. PICK n \in Nat : n = 2 * part * points + whole
  <2>1. part * points \in Nat
    OBVIOUS
  <2>2. 2 * part * points = 2 * (part * points)
    OBVIOUS
  <2> QED BY <2>1, <2>2
<1>3. Rounded(part, whole, points) = n \div d
  BY <1>1, <1>2 DEF Rounded
<1>4. n \div d \in Nat
  BY <1>1
<1>5. ASSUME part <= whole PROVE n \div d <= points
  <2>1. part * points <= whole * points
    BY <1>5
  <2>2. n < d * points + d
    <3>1. PICK a \in Nat : a = part * points
      OBVIOUS
    <3>2. PICK b \in Nat : b = whole * points
      OBVIOUS
    <3>3. n = 2 * a + whole
      BY <1>2, <3>1
    <3>4. d * points = 2 * b
      BY <1>1, <3>2
    <3> QED BY <1>1, <2>1, <3>1, <3>2, <3>3, <3>4
  <2>3. PICK k \in Nat : k = n \div d
    BY <1>4
  <2>4. d * k <= n
    BY <1>1, <2>3
  <2>5. k <= points
    <3> SUFFICES ASSUME k >= points + 1 PROVE FALSE
      BY <2>3
    <3>1. d * k >= d * (points + 1)
      BY <1>1
    <3>2. d * (points + 1) = d * points + d
      BY <1>1
    <3>3. d * k \in Nat /\ d * points \in Nat
      BY <1>1
    <3> QED BY <2>2, <2>4, <3>1, <3>2, <3>3
  <2> QED BY <2>3, <2>5
<1> QED BY <1>3, <1>4, <1>5

\* What a part of the points is, and what all or none is.
InPoints(result, points) == result.earnedPoints \in Nat /\ result.earnedPoints <= points

LEMMA AllOrNothingBounds ==
    ASSUME NEW isCorrect, NEW points \in Nat
    PROVE  InPoints(AllOrNothing(isCorrect, points), points)
BY DEF InPoints, AllOrNothing, ScoringResult

LEMMA CountedBounds ==
    ASSUME NEW content, NEW count \in Nat, NEW whole \in Nat \ {0}, NEW points \in Nat, count <= whole
    PROVE  InPoints(Counted(content, count, whole, points), points)
<1>1. Rounded(count, whole, points) \in Nat /\ Rounded(count, whole, points) <= points
  BY RoundedBounds
<1>2. CASE content.partialCredit
  BY <1>1, <1>2 DEF Counted, InPoints, ScoringResult
<1>3. CASE ~content.partialCredit
  BY <1>3, AllOrNothingBounds DEF Counted
<1> QED BY <1>2, <1>3

LEMMA SelectsBounds ==
    ASSUME NEW E, NEW selected \in Seq(E), NEW options, IsFiniteSet(options)
    PROVE  /\ Selects(selected, options) \in Nat /\ Selects(selected, options) <= Len(selected)
           /\ \A given : given.selectedOptions = selected /\ ~SelectsTwice(given)
                  => Selects(selected, options) <= Cardinality(options)
<1> DEFINE S == {i \in DOMAIN selected : selected[i] \in options}
           chosen == {selected[i] : i \in DOMAIN selected}
           f == [i \in DOMAIN selected |-> selected[i]]
           g == [i \in S |-> selected[i]]
<1>1. DOMAIN selected = 1..Len(selected) /\ Len(selected) \in Nat
  OBVIOUS
<1>2. IsFiniteSet(DOMAIN selected) /\ Cardinality(DOMAIN selected) = Len(selected)
  BY <1>1, FS_Interval
<1>3. IsFiniteSet(S) /\ Cardinality(S) <= Len(selected) /\ Cardinality(S) \in Nat
  <2>1. S \in SUBSET DOMAIN selected
    OBVIOUS
  <2> HIDE DEF S
  <2> QED BY <1>2, <2>1, FS_Subset, FS_CardinalityType
<1>4. Selects(selected, options) = Cardinality(S)
  BY DEF Selects
<1>5. ASSUME NEW given, given.selectedOptions = selected, ~SelectsTwice(given)
      PROVE  Cardinality(S) <= Cardinality(options)
  <2>1. f \in Surjection(DOMAIN selected, chosen)
    BY DEF Surjection
  <2>2. ~(Cardinality(chosen) < Len(selected))
    BY <1>5 DEF SelectsTwice
  <2>3. f \in Injection(DOMAIN selected, chosen)
    <3> HIDE DEF f, chosen
    <3>1. /\ IsFiniteSet(chosen) /\ Cardinality(chosen) <= Cardinality(DOMAIN selected)
          /\ Cardinality(chosen) = Cardinality(DOMAIN selected) => f \in Injection(DOMAIN selected, chosen)
      BY <1>2, <2>1, FS_Surjection
    <3>2. Cardinality(chosen) \in Nat
      BY <3>1, FS_CardinalityType
    <3> QED BY <1>1, <1>2, <2>2, <3>1, <3>2
  <2>4. g \in Injection(S, options)
    BY <2>3 DEF Injection, IsInjective
  <2> HIDE DEF g, S
  <2> QED BY <2>4, FS_Injection
<1> HIDE DEF S
<1> QED BY <1>3, <1>4, <1>5

\* How many of a finite set are right is at most how many there are.
LEMMA SomeOf ==
    ASSUME NEW S, IsFiniteSet(S), NEW T \in SUBSET S
    PROVE  Cardinality(T) \in Nat /\ Cardinality(S) \in Nat /\ Cardinality(T) <= Cardinality(S)
BY FS_Subset, FS_CardinalityType

LEMMA MultiBounds ==
    ASSUME NEW content, IsContent(content), IsValid(content), content.type = "mcq_multi",
           NEW answered, NEW E, answered.selectedOptions \in Seq(E)
    PROVE  /\ ScoreMulti(content, answered, content.points).earnedPoints \in Nat
           /\ ~SelectsTwice(answered) => InPoints(ScoreMulti(content, answered, content.points), content.points)
<1> DEFINE selected == answered.selectedOptions
           whole == Cardinality(content.correctOptions)
           right == Selects(selected, content.correctOptions)
           wrong == Len(selected) - right
           isCorrect == right = whole /\ wrong = 0
           part == IF right > wrong THEN right - wrong ELSE 0
<1>1. ScoreMulti(content, answered, content.points) =
          IF content.partialCredit
          THEN ScoringResult(isCorrect, part, whole, Rounded(part, whole, content.points))
          ELSE AllOrNothing(isCorrect, content.points)
  BY DEF ScoreMulti
<1>2. content.points \in Nat /\ IsFiniteSet(content.correctOptions)
  BY DEF IsContent
<1>3. whole \in Nat \ {0}
  BY <1>2, FS_CardinalityType DEF IsValid
<1>4. right \in Nat /\ right <= Len(selected) /\ Len(selected) \in Nat
  BY <1>2, SelectsBounds
<1>5. ~SelectsTwice(answered) => right <= whole
  BY <1>2, SelectsBounds
<1> HIDE DEF right, whole
<1>6. part \in Nat /\ part <= right
  BY <1>4
<1> HIDE DEF part, isCorrect
<1>7. Rounded(part, whole, content.points) \in Nat
  BY <1>2, <1>3, <1>6, RoundedBounds
<1>8. ~SelectsTwice(answered) => Rounded(part, whole, content.points) <= content.points
  <2>1. ~SelectsTwice(answered) => part <= whole
    BY <1>3, <1>4, <1>5, <1>6
  <2> QED BY <1>2, <1>3, <1>6, <2>1, RoundedBounds
<1>9. CASE content.partialCredit
  <2>1. ScoreMulti(content, answered, content.points).earnedPoints = Rounded(part, whole, content.points)
    BY <1>1, <1>9 DEF ScoringResult
  <2> QED BY <1>7, <1>8, <2>1 DEF InPoints
<1>10. CASE ~content.partialCredit
  BY <1>1, <1>2, <1>10, AllOrNothingBounds DEF InPoints
<1> QED BY <1>9, <1>10

\* An answer earns points, and no more than the question has, unless it selects an option twice.
LEMMA ScoreBounds ==
    ASSUME NEW content, IsContent(content), IsValid(content),
           NEW answered, NEW E, answered.selectedOptions \in Seq(E)
    PROVE  /\ ScoreAnswer(content, answered, content.points).earnedPoints \in Nat
           /\ ~SelectsTwice(answered) => ScoreAnswer(content, answered, content.points).earnedPoints <= content.points
<1> DEFINE result == ScoreAnswer(content, answered, content.points)
<1>1. content.points \in Nat
  BY DEF IsContent
<1>2. CASE content.type = "mcq"
  <2>1. result = ScoreSingle(content, answered, content.points)
    BY <1>2 DEF ScoreAnswer
  <2> QED BY <1>1, <2>1, AllOrNothingBounds DEF ScoreSingle, InPoints
<1>3. CASE content.type = "mcq_multi"
  <2>1. result = ScoreMulti(content, answered, content.points)
    BY <1>3 DEF ScoreAnswer
  <2> QED BY <1>3, <2>1, MultiBounds DEF InPoints
<1>4. CASE content.type = "true_false"
  <2>1. result = ScoreTrueFalse(content, answered, content.points)
    BY <1>4 DEF ScoreAnswer
  <2> QED BY <1>1, <2>1, AllOrNothingBounds DEF ScoreTrueFalse, InPoints
<1>5. CASE content.type = "fill_blank"
  <2>1. result = ScoreFillBlank(content, answered, content.points)
    BY <1>5 DEF ScoreAnswer
  <2> DEFINE blanks == content.acceptedAnswers
             filled == {i \in DOMAIN blanks : "" \in blanks[i]}
  <2>2. Len(blanks) \in Nat \ {0} /\ DOMAIN blanks = 1..Len(blanks)
    BY <1>5 DEF IsContent, IsValid
  <2>3. IsFiniteSet(DOMAIN blanks) /\ Cardinality(DOMAIN blanks) = Len(blanks)
    BY <2>2, FS_Interval
  <2>4. Cardinality(filled) \in Nat /\ Cardinality(filled) <= Len(blanks)
    BY <2>3, SomeOf
  <2>5. result = Counted(content, Cardinality(filled), Len(blanks), content.points)
    BY <2>1 DEF ScoreFillBlank
  <2> HIDE DEF filled
  <2> QED BY <1>1, <2>2, <2>4, <2>5, CountedBounds DEF InPoints
<1>6. CASE content.type = "matching"
  <2>1. result = ScoreMatching(content, answered, content.points)
    BY <1>6 DEF ScoreAnswer
  <2> DEFINE matched == {id \in content.pairs : <<id, id>> \in answered.matchedPairs}
  <2>2. Cardinality(matched) \in Nat /\ Cardinality(content.pairs) \in Nat /\ Cardinality(matched) <= Cardinality(content.pairs)
    BY SomeOf DEF IsContent
  <2>3. Cardinality(content.pairs) # 0
    BY <1>6 DEF IsValid
  <2>4. result = Counted(content, Cardinality(matched), Cardinality(content.pairs), content.points)
    BY <2>1 DEF ScoreMatching
  <2> HIDE DEF matched
  <2> QED BY <1>1, <2>2, <2>3, <2>4, CountedBounds DEF InPoints
<1>7. CASE content.type = "ordering"
  <2>1. result = ScoreOrdering(content, answered, content.points)
    BY <1>7 DEF ScoreAnswer
  <2> DEFINE correct == content.correctOrder
             placed == {i \in DOMAIN correct : answered.orderedItems[i] = correct[i]}
  <2>2. Len(correct) \in Nat \ {0} /\ DOMAIN correct = 1..Len(correct)
    BY <1>7 DEF IsContent, IsValid
  <2>3. IsFiniteSet(DOMAIN correct) /\ Cardinality(DOMAIN correct) = Len(correct)
    BY <2>2, FS_Interval
  <2>4. Cardinality(placed) \in Nat /\ Cardinality(placed) <= Len(correct)
    BY <2>3, SomeOf
  <2>5. result = AllOrNothing(FALSE, content.points)
        \/ result = Counted(content, Cardinality(placed), Len(correct), content.points)
    BY <2>1 DEF ScoreOrdering
  <2> HIDE DEF placed
  <2> QED BY <1>1, <2>2, <2>4, <2>5, CountedBounds, AllOrNothingBounds DEF InPoints
<1>8. CASE content.type \notin {"mcq", "mcq_multi", "true_false", "fill_blank", "matching", "ordering"}
  <2>1. result = AllOrNothing(FALSE, content.points)
    BY <1>8 DEF ScoreAnswer
  <2> QED BY <1>1, <2>1, AllOrNothingBounds DEF InPoints
<1> QED BY <1>2, <1>3, <1>4, <1>5, <1>6, <1>7, <1>8

(***************************************************************************)
(* What the variables hold                                                 *)
(***************************************************************************)
\* What Edit and Exam hold, the records in them one by one, and what a request at a step has.
EditTyped(r) ==
    /\ r \in [pc : {"idle", "createAdd", "linkInsert", "sumRead", "sumWrite", "assessmentSave",
                    "assessmentRemove", "questionSave", "questionRemove"},
              links : SUBSET Question, again : BOOLEAN, assessment : {r.assessment},
              id : Question \cup {Null}, question : {Null} \cup QuestionRow]
    /\ r.assessment \in AssessmentRow
    /\ r.pc = "questionSave" => r.id \in Question /\ r.question \in QuestionRow /\ IsThere(r.question)
    /\ r.pc = "questionRemove" => r.id \in Question

\* The steps of a request on an attempt it has found.
FoundSteps == {"timeoutFind", "timeoutSave", "answerFind", "answerSave", "submitAssessment", "usageFind",
               "usageUpdate", "answersSave", "attemptSave"}
\* Those of a submission.
SubmitSteps == {"submitAssessment", "usageFind", "usageUpdate", "answersSave", "attemptSave"}

ExamTyped(r) ==
    /\ r \in [pc : FoundSteps \cup {"idle", "startCount", "startLook", "startQuestions", "startInsert",
                                    "startAnswers"},
              id : Attempt \cup {Null}, question : Question \cup {Null}, count : Nat, questions : SUBSET Question,
              row : {r.row}, answers : {r.answers}, content : {Null} \cup [Question -> AllContents],
              given : AllGiven, usageCount : Nat]
    /\ r.row \in AttemptRow /\ r.answers \in Answers
    /\ r.pc \in FoundSteps \cup {"startAnswers"} => r.id \in Attempt
    /\ r.pc \in {"answerFind", "answerSave", "usageUpdate"} => r.question \in Question
    /\ r.pc \in SubmitSteps => r.content \in [Question -> AllContents]

Told == [row : AttemptRow, answers : Answers]

BankTyped ==
    /\ assessment \in AssessmentRow
    /\ link \subseteq Question /\ drifted \subseteq Question
    /\ question \in [Question -> QuestionRow]
    /\ edit = [p \in Proc |-> edit[p]] /\ \A p \in Proc : EditTyped(edit[p])

Typed ==
    /\ BankTyped
    /\ attempt = [a \in Attempt |-> attempt[a]] /\ \A a \in Attempt : attempt[a] \in AttemptRow
    /\ answer = [a \in Attempt |-> answer[a]] /\ \A a \in Attempt : answer[a] \in Answers
    /\ exam = [p \in Proc |-> exam[p]] /\ \A p \in Proc : ExamTyped(exam[p])
    /\ told \in [Attempt -> Told]

LEMMA MadeFinite == IsFiniteSet(Made) /\ Cardinality(Made) \in Nat
BY AttemptAssumption, FS_Subset, FS_CardinalityType DEF Made

LEMMA NothingGiven == NoAnswer \in AllGiven
<1>1. NoAnswer = [selectedOptions |-> NoAnswer.selectedOptions, booleanAnswer |-> NoAnswer.booleanAnswer,
                  matchedPairs |-> NoAnswer.matchedPairs, orderedItems |-> NoAnswer.orderedItems]
  BY DEF NoAnswer
<1>2. NoAnswer \in Sent
  BY DEF Sent
<1> QED BY <1>1, <1>2 DEF AllGiven

\* The fields of two answers make an answer.
LEMMA MergedTyped ==
    ASSUME NEW old \in AllGiven, NEW given \in AllGiven, NEW unsent
    PROVE  Merged(old, given, unsent) \in AllGiven
BY DEF Merged, AllGiven

LEMMA NothingTyped ==
    /\ EditTyped(NoEdit) /\ ExamTyped(NoExam) /\ NoAttempt \in AttemptRow /\ NoAnswers \in Answers
    /\ NoRow \in AnswerRow
<1>1. NoAttempt \in AttemptRow
  BY DEF AttemptRow, NoAttempt, AttemptStatus
<1>2. NoRow \in AnswerRow
  BY NothingGiven DEF AnswerRow, NoRow
<1>3. NoAnswers \in Answers
  BY <1>2 DEF Answers, NoAnswers
<1>4. EditTyped(NoEdit)
  BY DEF EditTyped, NoEdit, AssessmentRow, AssessmentStatus
<1>5. ExamTyped(NoExam)
  <2>1. NoExam.row = NoAttempt /\ NoExam.answers = NoAnswers
    BY DEF NoExam
  <2> QED BY <2>1, <1>1, <1>3, NothingGiven DEF ExamTyped, NoExam, FoundSteps, SubmitSteps
<1> QED BY <1>1, <1>2, <1>3, <1>4, <1>5

\* An answer is saved as it was found, with what is given.
LEMMA AnswerSaveIs ==
    ASSUME Typed, NEW p \in Proc, AnswerSave(p), ~UNCHANGED answer
    PROVE  \E given \in AllGiven :
               answer' = [answer EXCEPT ![exam[p].id][exam[p].question] =
                             [exam[p].answers[exam[p].question] EXCEPT !.given = given]]
<1>1. PICK a, q : a = exam[p].id /\ q = exam[p].question
  OBVIOUS
<1>2. PICK unsent :
          answer' = [answer EXCEPT ![a][q] =
                        [exam[p].answers[q] EXCEPT !.given = Merged(answer[a][q].given, exam[p].given, unsent)]]
  BY <1>1 DEF AnswerSave
<1>3. a \in Attempt /\ q \in Question /\ exam[p].given \in AllGiven
  BY <1>1 DEF AnswerSave, Typed, ExamTyped, FoundSteps
<1>4. answer[a][q].given \in AllGiven
  BY <1>3 DEF Typed, Answers, AnswerRow
<1> QED BY <1>1, <1>2, <1>3, <1>4, MergedTyped

LEMMA InitTyped == Init => Typed
<1> SUFFICES ASSUME Init PROVE Typed
  OBVIOUS
<1>1. question \in [Question -> QuestionRow]
  <2> DEFINE Rows == {[status |-> status, content |-> content, usageCount |-> 0] :
                         status \in {"none", "approved"}, content \in AllContents}
  <2>1. \A row \in Rows : row \in QuestionRow
    BY DEF QuestionRow, QuestionStatus
  <2>2. question \in [Question -> Rows]
    BY DEF Init, BankInit
  <2> HIDE DEF Rows
  <2> QED BY <2>1, <2>2
<1>2. BankTyped
  BY <1>1, NothingTyped DEF Init, BankInit, BankTyped, AssessmentRow, AssessmentStatus
<1>3. told \in [Attempt -> Told]
  <2>1. [row |-> NoAttempt, answers |-> NoAnswers] \in Told
    BY NothingTyped DEF Told
  <2> QED BY <2>1 DEF Init, AttemptInit
<1> QED BY <1>2, <1>3, NothingTyped DEF Init, AttemptInit, Typed

\* What a question may ask is valid, and what may be answered is an answer.
LEMMA ContentsFacts ==
    /\ \A content \in AllContents : IsContent(content) /\ IsValid(content) /\ content.points \in Nat
    /\ \A given \in AllGiven : given.selectedOptions \in Seq(STRING)
<1>1. \A content \in AllContents : IsContent(content) /\ IsValid(content)
  BY ContentsAssumption DEF AllContents
<1>2. NoAnswer.selectedOptions \in Seq(STRING)
  <2>1. NoAnswer.selectedOptions = <<>>
    BY DEF NoAnswer
  <2> QED BY <2>1
<1>3. \A given \in AllGiven : given.selectedOptions \in Seq(STRING)
  BY <1>2, GivenAssumption DEF AllGiven, Sent
<1> QED BY <1>1, <1>3 DEF IsContent

(***************************************************************************)
(* The bank                                                                *)
(***************************************************************************)
LEMMA EditOne ==
    ASSUME BankTyped, NEW p \in Proc, NEW r, EditTyped(r), edit' = [edit EXCEPT ![p] = r]
    PROVE  edit' = [q \in Proc |-> edit'[q]] /\ \A q \in Proc : EditTyped(edit'[q])
BY DEF BankTyped

LEMMA EditMoves ==
    ASSUME BankTyped, NEW p \in Proc, NEW step \in {"linkInsert", "sumRead", "sumWrite"}
    PROVE  EditTyped([edit[p] EXCEPT !.pc = step])
<1>1. EditTyped(edit[p])
  BY DEF BankTyped
<1> QED BY <1>1 DEF EditTyped

LEMMA ContinueTyped ==
    ASSUME BankTyped, NEW p \in Proc, EditContinue(p)
    PROVE  BankTyped'
<1> DEFINE r == edit[p]
<1>1. EditTyped(r)
  BY DEF BankTyped
<1>2. CASE CreateAdd(p)
  <2>1. edit' = [edit EXCEPT ![p] = NoEdit] \/ edit' = [edit EXCEPT ![p] = [edit[p] EXCEPT !.pc = "linkInsert"]]
    BY <1>2 DEF CreateAdd, EditTo, EditEnd
  <2>2. UNCHANGED <<assessment, link, question, drifted>>
    BY <1>2 DEF CreateAdd
  <2> QED BY <2>1, <2>2, EditOne, EditMoves, NothingTyped DEF BankTyped
<1>3. CASE LinkInsert(p)
  <2>1. edit' = [edit EXCEPT ![p] = NoEdit] \/ edit' = [edit EXCEPT ![p] = [edit[p] EXCEPT !.pc = "sumRead"]]
    BY <1>3 DEF LinkInsert, EditTo, EditEnd
  <2>2. UNCHANGED <<assessment, question>> /\ link' \subseteq Question /\ drifted' \subseteq Question
    BY <1>1, <1>3 DEF LinkInsert, BankTyped, EditTyped
  <2> QED BY <2>1, <2>2, EditOne, EditMoves, NothingTyped DEF BankTyped
<1>4. CASE SumRead(p)
  <2> DEFINE sum == SumFunction([q \in link |-> question[q].content.points])
  <2>1. EditTyped([edit[p] EXCEPT !.pc = "sumWrite", !.assessment.totalPoints = sum])
    <3>1. PICK points : points = [q \in link |-> question[q].content.points]
      OBVIOUS
    <3>2. points \in [link -> Nat] /\ IsFiniteSet(link)
      BY <3>1, ContentsFacts, QuestionAssumption, FS_Subset DEF BankTyped, QuestionRow
    <3>3. sum \in Nat
      BY <3>1, <3>2, SumType
    <3> HIDE DEF sum
    <3> QED BY <1>1, <3>3 DEF EditTyped, AssessmentRow
  <2>2. edit' = [edit EXCEPT ![p] = [edit[p] EXCEPT !.pc = "sumWrite", !.assessment.totalPoints = sum]]
    <3>1. edit' = [edit EXCEPT ![p].pc = "sumWrite", ![p].assessment.totalPoints = sum]
      BY <1>4 DEF SumRead
    <3> HIDE DEF sum
    <3> QED BY <3>1 DEF BankTyped
  <2>3. UNCHANGED <<assessment, link, question, drifted>>
    BY <1>4 DEF SumRead
  <2> HIDE DEF sum
  <2> QED BY <2>1, <2>2, <2>3, EditOne DEF BankTyped
<1>5. CASE SumWrite(p)
  <2>1. EditTyped([edit[p] EXCEPT !.pc = "sumRead", !.again = FALSE])
    BY <1>1 DEF EditTyped
  <2>2. edit' = [edit EXCEPT ![p] = NoEdit]
        \/ edit' = [edit EXCEPT ![p] = [edit[p] EXCEPT !.pc = "sumRead", !.again = FALSE]]
    BY <1>5 DEF SumWrite, EditEnd
  <2>3. assessment' \in AssessmentRow
    BY <1>1, <1>5 DEF SumWrite, BankTyped, AssessmentRow, EditTyped
  <2>4. UNCHANGED <<link, question, drifted>>
    BY <1>5 DEF SumWrite
  <2> QED BY <2>1, <2>2, <2>3, <2>4, EditOne, NothingTyped DEF BankTyped
<1>6. CASE AssessmentSave(p)
  <2>1. assessment' \in AssessmentRow
    BY <1>1, <1>6 DEF AssessmentSave, BankTyped, EditTyped
  <2> QED BY <1>6, <2>1, EditOne, NothingTyped DEF BankTyped, AssessmentSave, EditEnd
<1>7. CASE AssessmentRemove(p)
  <2>1. assessment' \in AssessmentRow
    BY <1>7 DEF AssessmentRemove, AssessmentRow, AssessmentStatus
  <2> QED BY <1>7, <2>1, EditOne, NothingTyped DEF BankTyped, AssessmentRemove, EditEnd
<1>8. CASE QuestionSave(p)
  <2>1. question' \in [Question -> QuestionRow] /\ drifted' \subseteq Question
    BY <1>1, <1>8 DEF QuestionSave, BankTyped, EditTyped
  <2> QED BY <1>8, <2>1, EditOne, NothingTyped DEF BankTyped, QuestionSave, EditEnd
<1>9. CASE QuestionRemove(p)
  <2>1. question' \in [Question -> QuestionRow] /\ drifted' \subseteq Question /\ link' \subseteq Question
    BY <1>1, <1>9 DEF QuestionRemove, BankTyped, EditTyped, QuestionRow, QuestionStatus
  <2> QED BY <1>9, <2>1, EditOne, NothingTyped DEF BankTyped, QuestionRemove, EditEnd
<1>10. CASE EditHalt(p)
  BY <1>10, EditOne, NothingTyped DEF BankTyped, EditHalt, EditEnd
<1> QED BY <1>2, <1>3, <1>4, <1>5, <1>6, <1>7, <1>8, <1>9, <1>10 DEF EditContinue

LEMMA FoundTyped ==
    ASSUME BankTyped, NEW status \in AssessmentStatus
    PROVE  EditTyped(AssessmentFound(status))
BY DEF AssessmentFound, BankTyped, EditTyped, AssessmentRow, NoEdit

LEMMA QuestionFoundTyped ==
    ASSUME NEW q \in Question, NEW row \in QuestionRow, IsThere(row)
    PROVE  EditTyped(QuestionFound(q, row))
BY DEF QuestionFound, EditTyped, AssessmentRow, AssessmentStatus, NoEdit

LEMMA BegunTyped ==
    ASSUME BankTyped, NEW p \in Proc, NEW r, EditTyped(r), EditBegin(p, r)
    PROVE  edit' = [q \in Proc |-> edit'[q]] /\ \A q \in Proc : EditTyped(edit'[q])
BY EditOne DEF EditBegin

LEMMA AssessmentRouteTyped ==
    ASSUME BankTyped, NEW p \in Proc, AssessmentRoute(p)
    PROVE  BankTyped'
<1>1. CASE AssessmentCreate(p)
  <2>1. PICK given \in SUBSET Question :
            EditBegin(p, IF given = {} THEN NoEdit
                         ELSE [NoEdit EXCEPT !.pc = "createAdd", !.links = given, !.again = TRUE])
    BY <1>1 DEF AssessmentCreate
  <2>2. EditTyped([NoEdit EXCEPT !.pc = "createAdd", !.links = given, !.again = TRUE])
    BY DEF NoEdit, EditTyped, AssessmentRow, AssessmentStatus
  <2>3. assessment' \in AssessmentRow /\ UNCHANGED <<link, question, drifted>>
    BY <1>1 DEF AssessmentCreate, AssessmentRow, AssessmentStatus
  <2> QED BY <2>1, <2>2, <2>3, BegunTyped, NothingTyped DEF BankTyped
<1>2. CASE AddFind(p)
  <2>1. PICK given \in SUBSET Question : EditBegin(p, [NoEdit EXCEPT !.pc = "linkInsert", !.links = given])
    BY <1>2 DEF AddFind
  <2>2. EditTyped([NoEdit EXCEPT !.pc = "linkInsert", !.links = given])
    BY DEF NoEdit, EditTyped, AssessmentRow, AssessmentStatus
  <2> QED BY <1>2, <2>1, <2>2, BegunTyped DEF BankTyped, AddFind
<1>3. CASE \E q \in Question : RemoveQuestion(p, q)
  <2>1. EditTyped([NoEdit EXCEPT !.pc = "sumRead"])
    BY DEF NoEdit, EditTyped, AssessmentRow, AssessmentStatus
  <2> QED BY <1>3, <2>1, BegunTyped DEF BankTyped, RemoveQuestion
<1>4. CASE UpdateFind(p)
  <2>1. EditTyped(AssessmentFound(assessment.status))
    BY FoundTyped DEF BankTyped, AssessmentRow
  <2> QED BY <1>4, <2>1, BegunTyped DEF BankTyped, UpdateFind
<1>5. CASE PublishFind(p)
  BY <1>5, FoundTyped, BegunTyped DEF BankTyped, PublishFind, AssessmentStatus
<1>6. CASE CloseFind(p)
  BY <1>6, FoundTyped, BegunTyped DEF BankTyped, CloseFind, AssessmentStatus
<1>7. CASE DeleteFind(p)
  <2>1. EditTyped([NoEdit EXCEPT !.pc = "assessmentRemove"])
    BY DEF NoEdit, EditTyped, AssessmentRow, AssessmentStatus
  <2> QED BY <1>7, <2>1, BegunTyped DEF BankTyped, DeleteFind
<1> QED BY <1>1, <1>2, <1>3, <1>4, <1>5, <1>6, <1>7 DEF AssessmentRoute

\* Contents of a question are contents.
LEMMA ContentsKnown == \A q \in Question : Contents[q] \subseteq AllContents
BY DEF AllContents

LEMMA QuestionRouteTyped ==
    ASSUME BankTyped, NEW p \in Proc, QuestionRoute(p)
    PROVE  BankTyped'
<1> PICK q \in Question :
        \/ QuestionCreate(q) \/ ReviseFind(p, q) \/ SubmitForReviewFind(p, q)
        \/ ReviewFind(p, q) \/ ArchiveFind(p, q) \/ QuestionDeleteFind(p, q)
  BY DEF QuestionRoute
<1> question[q] \in QuestionRow
  BY DEF BankTyped
<1>1. CASE QuestionCreate(q)
  <2>1. question' \in [Question -> QuestionRow]
    BY <1>1, ContentsKnown DEF QuestionCreate, BankTyped, QuestionRow, QuestionStatus
  <2> QED BY <1>1, <2>1 DEF QuestionCreate, BankTyped
<1>2. CASE ReviseFind(p, q)
  <2>1. PICK content \in Contents[q] : EditBegin(p, QuestionFound(q, [question[q] EXCEPT !.content = content]))
    BY <1>2 DEF ReviseFind
  <2>2. [question[q] EXCEPT !.content = content] \in QuestionRow /\ IsThere([question[q] EXCEPT !.content = content])
    BY <1>2, ContentsKnown DEF QuestionRow, ReviseFind, IsThere
  <2> QED BY <1>2, <2>1, <2>2, QuestionFoundTyped, BegunTyped DEF ReviseFind, BankTyped
<1>3. CASE SubmitForReviewFind(p, q)
  <2>1. /\ [question[q] EXCEPT !.status = "pending_review"] \in QuestionRow
        /\ IsThere([question[q] EXCEPT !.status = "pending_review"])
    BY DEF QuestionRow, QuestionStatus, IsThere
  <2> QED BY <1>3, <2>1, QuestionFoundTyped, BegunTyped DEF SubmitForReviewFind, BankTyped
<1>4. CASE ReviewFind(p, q)
  <2>1. PICK status \in QuestionStatus \ {"none", "deleted"} :
            EditBegin(p, QuestionFound(q, [question[q] EXCEPT !.status = status]))
    BY <1>4 DEF ReviewFind
  <2>2. [question[q] EXCEPT !.status = status] \in QuestionRow /\ IsThere([question[q] EXCEPT !.status = status])
    BY DEF QuestionRow, IsThere
  <2> QED BY <1>4, <2>1, <2>2, QuestionFoundTyped, BegunTyped DEF ReviewFind, BankTyped
<1>5. CASE ArchiveFind(p, q)
  <2>1. [question[q] EXCEPT !.status = "archived"] \in QuestionRow /\ IsThere([question[q] EXCEPT !.status = "archived"])
    BY DEF QuestionRow, QuestionStatus, IsThere
  <2> QED BY <1>5, <2>1, QuestionFoundTyped, BegunTyped DEF ArchiveFind, BankTyped
<1>6. CASE QuestionDeleteFind(p, q)
  <2>1. EditTyped([NoEdit EXCEPT !.pc = "questionRemove", !.id = q])
    BY DEF NoEdit, EditTyped, AssessmentRow, AssessmentStatus
  <2> QED BY <1>6, <2>1, BegunTyped DEF QuestionDeleteFind, BankTyped
<1> QED BY <1>1, <1>2, <1>3, <1>4, <1>5, <1>6

LEMMA EditsTyped ==
    ASSUME Typed, Edits
    PROVE  Typed'
<1>1. BankTyped'
  BY ContinueTyped, AssessmentRouteTyped, QuestionRouteTyped DEF Typed, Edits, EditServe
<1>2. attempt' = [a \in Attempt |-> attempt'[a]] /\ \A a \in Attempt : attempt'[a] \in AttemptRow
  <2>1. [NoAttempt EXCEPT !.status = "deleted"] \in AttemptRow
    BY DEF NoAttempt, AttemptRow, AttemptStatus
  <2> QED BY <2>1 DEF Edits, Cascade, Typed
<1>3. answer' = [a \in Attempt |-> answer'[a]] /\ \A a \in Attempt : answer'[a] \in Answers
  BY NothingTyped DEF Edits, Cascade, Typed, Answers
<1>4. UNCHANGED <<exam, told>>
  BY DEF Edits
<1> QED BY <1>1, <1>2, <1>3, <1>4 DEF Typed

(***************************************************************************)
(* The attempts                                                            *)
(***************************************************************************)
LEMMA ExamOne ==
    ASSUME Typed, NEW p \in Proc, NEW r, ExamTyped(r), exam' = [exam EXCEPT ![p] = r]
    PROVE  exam' = [q \in Proc |-> exam'[q]] /\ \A q \in Proc : ExamTyped(exam'[q])
BY DEF Typed

LEMMA ExamKept ==
    ASSUME Typed, NEW p \in Proc, NEW r, ExamTyped(r), exam' = [exam EXCEPT ![p] = r],
           UNCHANGED <<bank, attempt, answer, told>>
    PROVE  Typed'
BY ExamOne DEF Typed, BankTyped, bank

LEMMA ContentsOf == Typed => [q \in Question |-> question[q].content] \in [Question -> AllContents]
BY DEF Typed, BankTyped, QuestionRow

LEMMA ExamRouteTyped ==
    ASSUME Typed, NEW p \in Proc, ExamRoute(p)
    PROVE  Typed'
<1>1. CASE StartFind(p)
  <2>1. ExamTyped([NoExam EXCEPT !.pc = "startCount"])
    BY NothingTyped DEF NoExam, ExamTyped, FoundSteps, SubmitSteps
  <2> QED BY <1>1, <2>1, ExamKept DEF StartFind, ExamBegin
<1>2. ASSUME NEW a \in Attempt, AnswerBegin(p, a) PROVE Typed'
  <2>1. PICK q \in Question, given \in AllGiven :
            ExamBegin(p, [NoExam EXCEPT !.pc = IF a \in overdue THEN "timeoutFind" ELSE "answerFind",
                                        !.id = a, !.question = q, !.given = given, !.row = attempt[a]])
    BY <1>2 DEF AnswerBegin
  <2>2. attempt[a] \in AttemptRow
    BY DEF Typed
  <2>3. ExamTyped([NoExam EXCEPT !.pc = IF a \in overdue THEN "timeoutFind" ELSE "answerFind",
                                 !.id = a, !.question = q, !.given = given, !.row = attempt[a]])
    BY <2>2, NothingTyped, ZenonT(60) DEF NoExam, ExamTyped, FoundSteps, SubmitSteps
  <2> QED BY <1>2, <2>1, <2>3, ExamKept DEF AnswerBegin, ExamBegin
<1>3. ASSUME NEW a \in Attempt, SubmitFind(p, a) PROVE Typed'
  <2> DEFINE r == [NoExam EXCEPT !.pc = "submitAssessment", !.id = a, !.row = attempt[a], !.answers = answer[a],
                                 !.questions = {q \in Question : answer[a][q].there},
                                 !.content = [q \in Question |-> question[q].content]]
  <2>1. attempt[a] \in AttemptRow /\ answer[a] \in Answers
    BY DEF Typed
  <2>2. ExamTyped(r)
    BY <2>1, ContentsOf, NothingTyped DEF NoExam, ExamTyped, FoundSteps, SubmitSteps
  <2> QED BY <1>3, <2>2, ExamKept DEF SubmitFind, ExamBegin
<1> QED BY <1>1, <1>2, <1>3 DEF ExamRoute

LEMMA ExamMoves ==
    ASSUME Typed, NEW p \in Proc, ExamStep(p)
    PROVE  exam' = [q \in Proc |-> exam'[q]] /\ \A q \in Proc : ExamTyped(exam'[q])
<1> DEFINE r == exam[p]
<1>1. ExamTyped(r)
  BY DEF Typed
<1>2. \A step \in {"startQuestions", "attemptSave"} : r.pc \notin {"idle"} /\ (step = "attemptSave" => r.pc = "answersSave")
          => ExamTyped([exam[p] EXCEPT !.pc = step])
  BY <1>1 DEF ExamTyped, FoundSteps, SubmitSteps
<1>3. CASE ExamEnd(p)
  BY <1>3, ExamOne, NothingTyped DEF ExamEnd
<1>4. CASE StartCount(p)
  <2>1. ExamTyped([exam[p] EXCEPT !.pc = "startLook", !.count = Cardinality(Made)])
    BY <1>1, MadeFinite DEF ExamTyped, FoundSteps, SubmitSteps
  <2>2. ExamEnd(p) \/ exam' = [exam EXCEPT ![p] = [exam[p] EXCEPT !.pc = "startLook", !.count = Cardinality(Made)]]
    BY <1>4 DEF StartCount
  <2> QED BY <1>3, <2>1, <2>2, ExamOne
<1>5. CASE StartLook(p)
  <2>1. ExamEnd(p) \/ exam' = [exam EXCEPT ![p] = [exam[p] EXCEPT !.pc = "startQuestions"]]
    BY <1>5 DEF StartLook, ExamTo
  <2>2. r.pc = "startLook"
    BY <1>5 DEF StartLook
  <2> QED BY <1>2, <1>3, <2>1, <2>2, ExamOne
<1>6. CASE StartQuestions(p) /\ ~ExamEnd(p)
  <2> DEFINE contents == [q \in Question |-> question[q].content]
  <2>1. PICK chosen \in SUBSET link :
            exam' = [exam EXCEPT ![p].pc = "startInsert", ![p].questions = chosen, ![p].content = contents]
    BY <1>6 DEF StartQuestions
  <2>2. ExamTyped([exam[p] EXCEPT !.pc = "startInsert", !.questions = chosen, !.content = contents])
    BY <1>1, ContentsOf, ZenonT(60) DEF ExamTyped, FoundSteps, SubmitSteps, Typed, BankTyped
  <2>3. exam' = [exam EXCEPT ![p] = [exam[p] EXCEPT !.pc = "startInsert", !.questions = chosen, !.content = contents]]
    BY <2>1
  <2> HIDE DEF contents
  <2> QED BY <2>2, <2>3, ExamOne
<1>7. CASE StartInsert(p)
  <2>1. \A a \in Attempt : ExamTyped([exam[p] EXCEPT !.pc = "startAnswers", !.id = a])
    BY <1>1 DEF ExamTyped, FoundSteps, SubmitSteps
  <2>2. ExamEnd(p) \/ \E a \in Attempt : exam' = [exam EXCEPT ![p] = [exam[p] EXCEPT !.pc = "startAnswers", !.id = a]]
    BY <1>7 DEF StartInsert
  <2> QED BY <1>3, <2>1, <2>2, ExamOne
<1>8. CASE TimeoutFind(p)
  <2>1. ExamTyped([exam[p] EXCEPT !.pc = "timeoutSave", !.row = attempt[exam[p].id]])
    BY <1>1, <1>8 DEF ExamTyped, FoundSteps, SubmitSteps, Typed, TimeoutFind
  <2>2. ExamEnd(p) \/ exam' = [exam EXCEPT ![p] = [exam[p] EXCEPT !.pc = "timeoutSave", !.row = attempt[exam[p].id]]]
    BY <1>8 DEF TimeoutFind
  <2> QED BY <1>3, <2>1, <2>2, ExamOne
<1>9. CASE AnswerFind(p)
  <2>1. ExamTyped([exam[p] EXCEPT !.pc = "answerSave", !.answers = answer[exam[p].id]])
    BY <1>1, <1>9 DEF ExamTyped, FoundSteps, SubmitSteps, Typed, AnswerFind
  <2>2. ExamEnd(p) \/ exam' = [exam EXCEPT ![p] = [exam[p] EXCEPT !.pc = "answerSave", !.answers = answer[exam[p].id]]]
    BY <1>9 DEF AnswerFind
  <2> QED BY <1>3, <2>1, <2>2, ExamOne
<1>10. ASSUME NEW left \in SUBSET Question, r.pc \in {"submitAssessment", "usageUpdate"}, NextUsage(p, left)
       PROVE  exam' = [q \in Proc |-> exam'[q]] /\ \A q \in Proc : ExamTyped(exam'[q])
  <2> DEFINE step == IF left = {} THEN "answersSave" ELSE "usageFind"
             next == [exam[p] EXCEPT !.questions = left, !.question = Null, !.usageCount = 0, !.pc = step]
  <2>1. step \in {"answersSave", "usageFind"}
    OBVIOUS
  <2>2. ExamTyped(next)
    <3> HIDE DEF step
    <3> QED BY <1>1, <1>10, <2>1 DEF ExamTyped, FoundSteps, SubmitSteps
  <2>3. exam' = [exam EXCEPT ![p] = next]
    BY <1>10 DEF NextUsage
  <2> HIDE DEF next
  <2> QED BY <2>2, <2>3, ExamOne
<1>11. CASE SubmitAssessment(p) \/ UsageUpdate(p)
  <2>1. r.questions \in SUBSET Question /\ r.questions \ {r.question} \in SUBSET Question
    BY <1>1 DEF ExamTyped
  <2> QED BY <1>3, <1>10, <1>11, <2>1 DEF SubmitAssessment, UsageUpdate
<1>12. CASE UsageFind(p) /\ ~ExamEnd(p)
  <2>1. PICK q \in r.questions :
            exam' = [exam EXCEPT ![p].pc = "usageUpdate", ![p].question = q, ![p].usageCount = question[q].usageCount]
    BY <1>12 DEF UsageFind
  <2>2. ExamTyped([exam[p] EXCEPT !.pc = "usageUpdate", !.question = q, !.usageCount = question[q].usageCount])
    BY <1>1, <1>12 DEF ExamTyped, FoundSteps, SubmitSteps, Typed, BankTyped, QuestionRow, UsageFind
  <2>3. exam' = [exam EXCEPT ![p] =
                   [exam[p] EXCEPT !.pc = "usageUpdate", !.question = q, !.usageCount = question[q].usageCount]]
    BY <2>1
  <2> QED BY <2>2, <2>3, ExamOne
<1>13. CASE AnswersSave(p)
  <2>1. ExamEnd(p) \/ exam' = [exam EXCEPT ![p] = [exam[p] EXCEPT !.pc = "attemptSave"]]
    BY <1>13 DEF AnswersSave, ExamTo
  <2>2. r.pc = "answersSave"
    BY <1>13 DEF AnswersSave
  <2> QED BY <1>2, <1>3, <2>1, <2>2, ExamOne
<1>14. CASE ExamEnd(p) \/ StartAnswers(p) \/ TimeoutSave(p) \/ AnswerSave(p) \/ AttemptSave(p) \/ ExamHalt(p)
  BY <1>3, <1>14 DEF StartAnswers, TimeoutSave, AnswerSave, AttemptSave, ExamHalt
<1> QED BY <1>3, <1>4, <1>5, <1>6, <1>7, <1>8, <1>9, <1>11, <1>12, <1>13, <1>14 DEF ExamStep

\* What a question can earn in a submission.
PointsOf(r, q) == IF r.answers[q].there THEN r.content[q].points ELSE 0

LEMMA ScoredTyped ==
    ASSUME NEW r, ExamTyped(r), r.pc \in SubmitSteps
    PROVE  /\ Scored(r) \in Answers
           /\ \A q \in Question : ~SelectsTwice(Scored(r)[q].given) => Scored(r)[q].earnedPoints <= PointsOf(r, q)
<1> DEFINE points(q) == ScoreAnswer(r.content[q], r.answers[q].given, r.content[q].points).earnedPoints
<1>1. Scored(r) = [q \in Question |-> IF r.answers[q].there
                                     THEN [r.answers[q] EXCEPT !.earnedPoints = points(q)] ELSE NoRow]
  BY DEF Scored
<1>2. \A q \in Question : r.answers[q] \in AnswerRow /\ r.content[q] \in AllContents
  BY DEF ExamTyped, Answers
<1>3. ASSUME NEW q \in Question
      PROVE  points(q) \in Nat /\ (~SelectsTwice(r.answers[q].given) => points(q) <= r.content[q].points)
  <2>1. r.answers[q].given \in AllGiven
    BY <1>2 DEF AnswerRow
  <2> QED BY <1>2, <2>1, ContentsFacts, ScoreBounds
<1> HIDE DEF points
<1>4. ASSUME NEW q \in Question
      PROVE  /\ Scored(r)[q] \in AnswerRow
             /\ ~SelectsTwice(Scored(r)[q].given) => Scored(r)[q].earnedPoints <= PointsOf(r, q)
  <2>1. CASE r.answers[q].there
    <3>1. Scored(r)[q] = [r.answers[q] EXCEPT !.earnedPoints = points(q)]
      BY <1>1, <2>1
    <3>2. /\ Scored(r)[q] \in AnswerRow /\ Scored(r)[q].given = r.answers[q].given
          /\ Scored(r)[q].earnedPoints = points(q)
      BY <1>2, <1>3, <3>1 DEF AnswerRow
    <3>3. PointsOf(r, q) = r.content[q].points
      BY <2>1 DEF PointsOf
    <3> QED BY <1>3, <3>2, <3>3
  <2>2. CASE ~r.answers[q].there
    <3>1. Scored(r)[q] = NoRow
      BY <1>1, <2>2
    <3>2. Scored(r)[q].earnedPoints = 0 /\ PointsOf(r, q) = 0
      BY <3>1, <2>2 DEF NoRow, PointsOf
    <3> QED BY <3>1, <3>2, NothingTyped
  <2> QED BY <2>1, <2>2
<1>5. Scored(r) \in Answers
  <2>1. Scored(r) = [q \in Question |-> Scored(r)[q]]
    BY <1>1
  <2> QED BY <1>4, <2>1 DEF Answers
<1> QED BY <1>4, <1>5

\* What an attempt has earned, and what it could have.
LEMMA SumsTyped ==
    ASSUME NEW r, ExamTyped(r), r.pc \in SubmitSteps
    PROVE  /\ EarnedPoints(r) \in Nat /\ PossiblePoints(r) \in Nat
           /\ (\A q \in Question : ~SelectsTwice(Scored(r)[q].given)) => EarnedPoints(r) <= PossiblePoints(r)
<1>1. PICK earned : earned = [q \in Question |-> Scored(r)[q].earnedPoints]
  OBVIOUS
<1>2. PICK possible : possible = [q \in Question |-> IF r.answers[q].there THEN r.content[q].points ELSE 0]
  OBVIOUS
<1>3. earned \in [Question -> Nat]
  <2>1. \A q \in Question : Scored(r)[q] \in AnswerRow
    BY ScoredTyped DEF Answers
  <2> QED BY <1>1, <2>1 DEF AnswerRow
<1>4. possible \in [Question -> Nat]
  <2>1. \A q \in Question : r.content[q] \in AllContents
    BY DEF ExamTyped
  <2> QED BY <1>2, <2>1, ContentsFacts
<1>5. EarnedPoints(r) = SumFunction(earned) /\ PossiblePoints(r) = SumFunction(possible)
  BY <1>1, <1>2 DEF EarnedPoints, PossiblePoints
<1>6. EarnedPoints(r) \in Nat /\ PossiblePoints(r) \in Nat
  BY <1>3, <1>4, <1>5, SumType, QuestionAssumption
<1>7. ASSUME \A q \in Question : ~SelectsTwice(Scored(r)[q].given)
      PROVE  EarnedPoints(r) <= PossiblePoints(r)
  <2>1. ASSUME NEW q \in Question PROVE earned[q] <= possible[q]
    <3>1. Scored(r)[q].earnedPoints <= PointsOf(r, q)
      BY <1>7, ScoredTyped
    <3>2. earned[q] = Scored(r)[q].earnedPoints /\ possible[q] = PointsOf(r, q)
      BY <1>1, <1>2 DEF PointsOf
    <3> QED BY <3>1, <3>2
  <2> QED BY <1>3, <1>4, <1>5, <2>1, SumMonotone, QuestionAssumption
<1> QED BY <1>6, <1>7

LEMMA SubmittedTyped ==
    ASSUME NEW r, ExamTyped(r), r.pc \in SubmitSteps
    PROVE  /\ Submitted(r) \in AttemptRow /\ Submitted(r).status \in {"submitted", "graded"}
           /\ Submitted(r).earnedPoints = EarnedPoints(r) /\ Submitted(r).possiblePoints = PossiblePoints(r)
<1> DEFINE earned == EarnedPoints(r)
           possible == PossiblePoints(r)
<1>1. PICK status \in {"submitted", "graded"} :
          Submitted(r) = [r.row EXCEPT !.earnedPoints = earned, !.possiblePoints = possible, !.status = status]
  BY DEF Submitted
<1>2. r.row \in AttemptRow
  BY DEF ExamTyped
<1>3. earned \in Nat /\ possible \in Nat
  BY SumsTyped
<1> HIDE DEF earned, possible
<1>4. Submitted(r) \in AttemptRow /\ Submitted(r).status = status
      /\ Submitted(r).earnedPoints = earned /\ Submitted(r).possiblePoints = possible
  BY <1>1, <1>2, <1>3 DEF AttemptRow, AttemptStatus
<1> QED BY <1>4 DEF earned, possible

LEMMA ExamStepTyped ==
    ASSUME Typed, NEW p \in Proc, ExamStep(p)
    PROVE  Typed'
<1> DEFINE r == exam[p]
<1>1. ExamTyped(r)
  BY DEF Typed
<1>2. exam' = [q \in Proc |-> exam'[q]] /\ \A q \in Proc : ExamTyped(exam'[q])
  BY ExamMoves
<1>3. CASE StartInsert(p)
  <2>1. \A n \in Nat : [NoAttempt EXCEPT !.status = "in_progress", !.attemptNumber = n] \in AttemptRow
    BY DEF AttemptRow, NoAttempt, AttemptStatus
  <2>2. exam[p].count + 1 \in Nat
    BY <1>1 DEF ExamTyped
  <2>3. attempt' = [a \in Attempt |-> attempt'[a]] /\ \A a \in Attempt : attempt'[a] \in AttemptRow
    BY <1>3, <2>1, <2>2 DEF StartInsert, Typed
  <2> QED BY <1>2, <1>3, <2>3 DEF StartInsert, Typed, BankTyped, bank
<1>4. CASE StartAnswers(p)
  <2> DEFINE empty(q) == [NoRow EXCEPT !.there = TRUE, !.requiresManualGrading = IsManual(exam[p].content[q])]
  <2>1. ASSUME NEW q PROVE empty(q) \in AnswerRow
    <3>1. IsManual(exam[p].content[q]) \in BOOLEAN
      BY DEF IsManual
    <3>2. \A manual \in BOOLEAN :
              [NoRow EXCEPT !.there = TRUE, !.requiresManualGrading = manual] \in AnswerRow
      BY NothingGiven DEF AnswerRow, NoRow
    <3> QED BY <3>1, <3>2, Zenon
  <2>2. UNCHANGED answer
        \/ answer' = [answer EXCEPT ![exam[p].id] =
                        [q \in Question |-> IF q \in exam[p].questions THEN empty(q) ELSE NoRow]]
    BY <1>4 DEF StartAnswers
  <2> HIDE DEF empty
  <2>3. [q \in Question |-> IF q \in exam[p].questions THEN empty(q) ELSE NoRow] \in Answers
    BY <2>1, NothingTyped DEF Answers
  <2>4. answer' = [a \in Attempt |-> answer'[a]] /\ \A a \in Attempt : answer'[a] \in Answers
    BY <2>2, <2>3 DEF Typed
  <2> QED BY <1>2, <1>4, <2>4 DEF StartAnswers, Typed, BankTyped, bank
<1>5. CASE TimeoutSave(p)
  <2>1. [exam[p].row EXCEPT !.status = "timed_out"] \in AttemptRow
    BY <1>1 DEF ExamTyped, AttemptRow, AttemptStatus
  <2>2. attempt' = [a \in Attempt |-> attempt'[a]] /\ \A a \in Attempt : attempt'[a] \in AttemptRow
    BY <1>5, <2>1 DEF TimeoutSave, Typed
  <2> QED BY <1>2, <1>5, <2>2 DEF TimeoutSave, Typed, BankTyped, bank
<1>6. CASE AnswerSave(p)
  <2>0. PICK given \in AllGiven : UNCHANGED answer
           \/ answer' = [answer EXCEPT ![exam[p].id][exam[p].question] =
                            [exam[p].answers[exam[p].question] EXCEPT !.given = given]]
    BY <1>6, AnswerSaveIs, NothingGiven
  <2> DEFINE q == exam[p].question
             row == [exam[p].answers[q] EXCEPT !.given = given]
  <2>1. row \in AnswerRow /\ q \in Question /\ exam[p].id \in Attempt
    BY <1>1, <1>6 DEF ExamTyped, Answers, AnswerRow, AnswerSave, FoundSteps
  <2>2. UNCHANGED answer \/ answer' = [answer EXCEPT ![exam[p].id] = [answer[exam[p].id] EXCEPT ![q] = row]]
    BY <2>0
  <2> HIDE DEF q, row
  <2>3. [answer[exam[p].id] EXCEPT ![q] = row] \in Answers
    BY <2>1 DEF Answers, Typed
  <2>4. answer' = [a \in Attempt |-> answer'[a]] /\ \A a \in Attempt : answer'[a] \in Answers
    BY <2>2, <2>3 DEF Typed
  <2> QED BY <1>2, <1>6, <2>4 DEF AnswerSave, Typed, BankTyped, bank
<1>7. CASE UsageUpdate(p)
  <2>1. question' \in [Question -> QuestionRow]
    BY <1>1, <1>7 DEF UsageUpdate, ExamTyped, Typed, BankTyped, QuestionRow
  <2> QED BY <1>2, <1>7, <2>1 DEF UsageUpdate, Typed, BankTyped
<1>8. CASE AnswersSave(p)
  <2> DEFINE a == exam[p].id
             row == [q \in Question |-> IF exam[p].answers[q].there THEN Scored(exam[p])[q] ELSE answer[a][q]]
  <2>1. UNCHANGED answer \/ answer' = [answer EXCEPT ![a] = row]
    BY <1>8 DEF AnswersSave
  <2>2. a \in Attempt
    BY <1>1, <1>8 DEF ExamTyped, AnswersSave, FoundSteps
  <2>3. row \in Answers
    <3>1. Scored(exam[p]) \in Answers /\ answer[a] \in Answers
      BY <1>1, <1>8, <2>2, ScoredTyped DEF AnswersSave, SubmitSteps, Typed
    <3> HIDE DEF a
    <3> QED BY <3>1 DEF Answers
  <2> HIDE DEF a, row
  <2>4. answer' = [b \in Attempt |-> answer'[b]] /\ \A b \in Attempt : answer'[b] \in Answers
    BY <2>1, <2>3 DEF Typed
  <2> QED BY <1>2, <1>8, <2>4 DEF AnswersSave, Typed, BankTyped, bank
<1>9. CASE AttemptSave(p)
  <2>1. UNCHANGED <<attempt, told>>
        \/ /\ attempt' = [attempt EXCEPT ![exam[p].id] = Submitted(exam[p])]
           /\ told' = [told EXCEPT ![exam[p].id] = [row |-> Submitted(exam[p]), answers |-> Scored(exam[p])]]
    BY <1>9 DEF AttemptSave
  <2>2. Submitted(exam[p]) \in AttemptRow /\ Scored(exam[p]) \in Answers
    BY <1>1, <1>9, SubmittedTyped, ScoredTyped DEF AttemptSave, SubmitSteps
  <2>3. attempt' = [a \in Attempt |-> attempt'[a]] /\ \A a \in Attempt : attempt'[a] \in AttemptRow
    BY <2>1, <2>2 DEF Typed
  <2>4. told' \in [Attempt -> Told]
    <3>1. [row |-> Submitted(exam[p]), answers |-> Scored(exam[p])] \in Told
      BY <2>2 DEF Told
    <3> QED BY <2>1, <3>1 DEF Typed
  <2> QED BY <1>2, <1>9, <2>1, <2>3, <2>4 DEF AttemptSave, Typed, BankTyped, bank
<1>10. CASE UNCHANGED <<bank, attempt, answer, told>>
  BY <1>2, <1>10 DEF Typed, BankTyped, bank
<1>11. StartCount(p) \/ StartLook(p) \/ StartQuestions(p) \/ TimeoutFind(p) \/ AnswerFind(p)
       \/ SubmitAssessment(p) \/ UsageFind(p) \/ ExamHalt(p)
       => UNCHANGED <<bank, attempt, answer, told>>
  BY DEF StartCount, StartLook, StartQuestions, TimeoutFind, AnswerFind, SubmitAssessment, UsageFind, ExamHalt
<1> QED BY <1>3, <1>4, <1>5, <1>6, <1>7, <1>8, <1>9, <1>10, <1>11 DEF ExamStep

LEMMA NextTyped == Typed /\ [Next]_vars => Typed'
<1> SUFFICES ASSUME Typed, [Next]_vars PROVE Typed'
  OBVIOUS
<1>1. CASE UNCHANGED vars
  BY <1>1 DEF vars, Typed, BankTyped
<1>2. CASE \E a \in Attempt : DeadlinePasses(a)
  BY <1>2 DEF DeadlinePasses, bank, Typed, BankTyped
<1> QED BY <1>1, <1>2, EditsTyped, ExamRouteTyped, ExamStepTyped DEF Next, ExamServe, ExamContinue

(***************************************************************************)
(* What is published                                                       *)
(***************************************************************************)
\* Questions that are approved, or that have drifted.
Good(given) == \A q \in given : question[q].status = "approved" \/ q \in drifted

PublishedInv ==
    /\ PublishedIsApproved
    /\ \A p \in Proc : edit[p].pc = "assessmentSave" /\ edit[p].assessment.status = "published"
           => Good(edit[p].links)

\* No question loses its approval without drifting, and no request finds questions to publish.
GoodKept ==
    /\ \A q \in Question : question[q].status = "approved" \/ q \in drifted
                               => question'[q].status = "approved" \/ q \in drifted'
    /\ \A p \in Proc : edit'[p].pc = "assessmentSave" /\ edit'[p].assessment.status = "published"
           => edit'[p] = edit[p]

LEMMA GoodStep ==
    ASSUME Typed, PublishedInv, GoodKept,
           assessment'.status = "published" => assessment.status = "published" /\ link' \subseteq link
    PROVE  PublishedInv'
<1>1. link \subseteq Question /\ \A p \in Proc : edit[p].links \subseteq Question
  BY DEF Typed, BankTyped, EditTyped
<1>2. PublishedIsApproved'
  BY <1>1 DEF GoodKept, PublishedInv, PublishedIsApproved
<1>3. ASSUME NEW p \in Proc, edit'[p].pc = "assessmentSave", edit'[p].assessment.status = "published"
      PROVE  Good(edit[p].links)'
  <2>1. edit'[p] = edit[p] /\ Good(edit[p].links)
    BY <1>3 DEF GoodKept, PublishedInv
  <2> QED BY <1>1, <2>1 DEF Good, GoodKept
<1> QED BY <1>2, <1>3 DEF PublishedInv

\* A request that begins or goes on is about to save no published assessment.
LEMMA GoodMoves ==
    ASSUME Typed, NEW p \in Proc, NEW r, edit' = [edit EXCEPT ![p] = r],
           r.pc # "assessmentSave" \/ r.assessment.status # "published"
    PROVE  \A q \in Proc : edit'[q].pc = "assessmentSave" /\ edit'[q].assessment.status = "published"
               => edit'[q] = edit[q]
BY DEF Typed, BankTyped

LEMMA ContinueGood ==
    ASSUME Typed, PublishedInv, NEW p \in Proc, EditContinue(p)
    PROVE  PublishedInv'
<1> DEFINE r == edit[p]
           Saves(x) == x.pc = "assessmentSave" /\ x.assessment.status = "published"
<1>1. EditTyped(r) /\ edit = [q \in Proc |-> edit[q]] /\ question \in [Question -> QuestionRow]
  BY DEF Typed, BankTyped
<1>2. ~Saves(NoEdit)
  BY DEF NoEdit
<1>3. CASE CreateAdd(p) \/ EditHalt(p)
  <2>1. \A q \in Proc : Saves(edit'[q]) => edit'[q] = edit[q]
    BY <1>1, <1>2, <1>3 DEF CreateAdd, EditHalt, EditTo, EditEnd, EditTyped
  <2>2. UNCHANGED <<assessment, link, question, drifted>>
    BY <1>3 DEF CreateAdd, EditHalt
  <2> QED BY <2>1, <2>2, GoodStep DEF GoodKept
<1>4. CASE LinkInsert(p)
  <2>1. \A q \in Proc : Saves(edit'[q]) => edit'[q] = edit[q]
    BY <1>1, <1>2, <1>4 DEF LinkInsert, EditTo, EditEnd, EditTyped
  <2>2. UNCHANGED <<assessment, question>> /\ drifted \subseteq drifted'
    BY <1>4 DEF LinkInsert
  <2>3. assessment.status = "published" => \A q \in link' : q \in link \/ q \in drifted'
    BY <1>4 DEF LinkInsert
  <2>4. PublishedIsApproved'
    BY <2>2, <2>3 DEF PublishedInv, PublishedIsApproved
  <2>5. ASSUME NEW q \in Proc, Saves(edit'[q]) PROVE Good(edit[q].links)' /\ edit'[q] = edit[q]
    BY <2>1, <2>2, <2>5 DEF PublishedInv, Good
  <2> QED BY <2>4, <2>5 DEF PublishedInv
<1>5. CASE SumRead(p)
  <2> DEFINE sum == SumFunction([q \in link |-> question[q].content.points])
  <2>1. edit' = [edit EXCEPT ![p].pc = "sumWrite", ![p].assessment.totalPoints = sum]
    BY <1>5 DEF SumRead
  <2> HIDE DEF sum
  <2>2. \A q \in Proc : Saves(edit'[q]) => edit'[q] = edit[q]
    BY <1>1, <2>1 DEF EditTyped
  <2>3. UNCHANGED <<assessment, link, question, drifted>>
    BY <1>5 DEF SumRead
  <2> QED BY <2>2, <2>3, GoodStep DEF GoodKept
<1>6. CASE SumWrite(p)
  <2>1. \A q \in Proc : Saves(edit'[q]) => edit'[q] = edit[q]
    BY <1>1, <1>2, <1>6 DEF SumWrite, EditEnd, EditTyped
  <2>2. assessment'.status = assessment.status
    BY <1>6 DEF SumWrite, Typed, BankTyped, AssessmentRow
  <2> QED BY <1>6, <2>1, <2>2, GoodStep DEF GoodKept, SumWrite
<1>7. CASE AssessmentSave(p)
  <2>1. \A q \in Proc : Saves(edit'[q]) => edit'[q] = edit[q]
    BY <1>1, <1>2, <1>7 DEF AssessmentSave, EditEnd
  <2>2. UNCHANGED <<link, question, drifted>>
    BY <1>7 DEF AssessmentSave
  <2>3. assessment'.status = "published" => Good(link)
    BY <1>7 DEF AssessmentSave, PublishedInv, PublishedIsApproved, Good
  <2> QED BY <2>1, <2>2, <2>3 DEF PublishedInv, PublishedIsApproved, Good
<1>8. CASE AssessmentRemove(p)
  <2>1. \A q \in Proc : Saves(edit'[q]) => edit'[q] = edit[q]
    BY <1>1, <1>2, <1>8 DEF AssessmentRemove, EditEnd
  <2> QED BY <1>8, <2>1, GoodStep DEF GoodKept, AssessmentRemove
<1>9. CASE QuestionSave(p)
  <2>1. \A q \in Proc : Saves(edit'[q]) => edit'[q] = edit[q]
    BY <1>1, <1>2, <1>9 DEF QuestionSave, EditEnd
  <2> QED BY <1>1, <1>9, <2>1, GoodStep DEF GoodKept, QuestionSave, EditTyped
<1>10. CASE QuestionRemove(p)
  <2>1. \A q \in Proc : Saves(edit'[q]) => edit'[q] = edit[q]
    BY <1>1, <1>2, <1>10 DEF QuestionRemove, EditEnd
  <2> QED BY <1>1, <1>10, <2>1, GoodStep DEF GoodKept, QuestionRemove, EditTyped, QuestionRow
<1> QED BY <1>3, <1>4, <1>5, <1>6, <1>7, <1>8, <1>9, <1>10 DEF EditContinue

LEMMA RouteGood ==
    ASSUME Typed, PublishedInv, NEW p \in Proc, AssessmentRoute(p) \/ QuestionRoute(p)
    PROVE  PublishedInv'
<1> DEFINE Saves(x) == x.pc = "assessmentSave" /\ x.assessment.status = "published"
<1>1. CASE PublishFind(p)
  <2>1. /\ edit' = [edit EXCEPT ![p] = AssessmentFound("published")]
        /\ \A q \in link : question[q].status = "approved"
        /\ UNCHANGED <<assessment, link, question, drifted>>
    BY <1>1 DEF PublishFind, EditBegin
  <2>2. AssessmentFound("published").links = link
    BY DEF AssessmentFound, NoEdit
  <2>3. \A q \in Proc : edit'[q] = IF q = p THEN AssessmentFound("published") ELSE edit[q]
    BY <2>1 DEF Typed, BankTyped
  <2>4. Good(link)'
    BY <2>1 DEF Good
  <2>5. \A q \in Proc : Saves(edit'[q]) => Good(edit'[q].links)
    BY <2>1, <2>2, <2>3 DEF PublishedInv, Good
  <2> QED BY <2>1, <2>5 DEF PublishedInv, PublishedIsApproved, Good
<1>2. ASSUME NEW status \in {assessment.status, "closed"}, EditBegin(p, AssessmentFound(status)),
             status # "published", UNCHANGED <<assessment, link, question, drifted>>
      PROVE  PublishedInv'
  <2>1. AssessmentFound(status).assessment.status # "published"
    BY <1>2 DEF AssessmentFound, NoEdit, Typed, BankTyped, AssessmentRow
  <2> QED BY <1>2, <2>1, GoodMoves, GoodStep DEF GoodKept, EditBegin
<1>3. ASSUME NEW r, EditBegin(p, r), r.pc # "assessmentSave",
             UNCHANGED <<question, drifted>>, assessment'.status # "published" \/ UNCHANGED assessment, link' \subseteq link
      PROVE  PublishedInv'
  BY <1>3, GoodMoves, GoodStep DEF GoodKept, EditBegin
<1>4. CASE AssessmentCreate(p)
  <2>1. PICK given \in SUBSET Question :
            EditBegin(p, IF given = {} THEN NoEdit
                         ELSE [NoEdit EXCEPT !.pc = "createAdd", !.links = given, !.again = TRUE])
    BY <1>4 DEF AssessmentCreate
  <2>2. NoEdit.pc # "assessmentSave"
        /\ [NoEdit EXCEPT !.pc = "createAdd", !.links = given, !.again = TRUE].pc # "assessmentSave"
    BY DEF NoEdit
  <2> QED BY <1>3, <1>4, <2>1, <2>2 DEF AssessmentCreate
<1>5. CASE AddFind(p)
  <2>1. PICK given \in SUBSET Question : EditBegin(p, [NoEdit EXCEPT !.pc = "linkInsert", !.links = given])
    BY <1>5 DEF AddFind
  <2>2. [NoEdit EXCEPT !.pc = "linkInsert", !.links = given].pc # "assessmentSave"
    BY DEF NoEdit
  <2> QED BY <1>3, <1>5, <2>1, <2>2 DEF AddFind
<1>6. CASE (\E q \in Question : RemoveQuestion(p, q)) \/ DeleteFind(p)
  <2>1. [NoEdit EXCEPT !.pc = "sumRead"].pc # "assessmentSave"
        /\ [NoEdit EXCEPT !.pc = "assessmentRemove"].pc # "assessmentSave"
    BY DEF NoEdit
  <2> QED BY <1>3, <1>6, <2>1 DEF RemoveQuestion, DeleteFind
<1>7. CASE UpdateFind(p) \/ CloseFind(p)
  BY <1>2, <1>7 DEF UpdateFind, CloseFind
<1>8. CASE QuestionRoute(p)
  <2> PICK q \in Question :
          \/ QuestionCreate(q) \/ ReviseFind(p, q) \/ SubmitForReviewFind(p, q)
          \/ ReviewFind(p, q) \/ ArchiveFind(p, q) \/ QuestionDeleteFind(p, q)
    BY <1>8 DEF QuestionRoute
  <2>1. CASE QuestionCreate(q)
    <3>1. \A x \in Question : question[x].status = "approved" => question'[x].status = "approved"
      BY <2>1 DEF QuestionCreate, Typed, BankTyped, QuestionRow
    <3> QED BY <2>1, <3>1, GoodStep DEF GoodKept, QuestionCreate
  <2>2. \A row : QuestionFound(q, row).pc # "assessmentSave"
    BY DEF QuestionFound, NoEdit
  <2>3. CASE \E row : EditBegin(p, QuestionFound(q, row)) /\ UNCHANGED <<assessment, link, question, drifted>>
    BY <1>3, <2>2, <2>3
  <2>4. CASE QuestionDeleteFind(p, q)
    <3>1. [NoEdit EXCEPT !.pc = "questionRemove", !.id = q].pc # "assessmentSave"
      BY DEF NoEdit
    <3> QED BY <1>3, <2>4, <3>1 DEF QuestionDeleteFind
  <2> QED BY <2>1, <2>3, <2>4 DEF ReviseFind, SubmitForReviewFind, ReviewFind, ArchiveFind
<1> QED BY <1>1, <1>4, <1>5, <1>6, <1>7, <1>8 DEF AssessmentRoute

LEMMA NextPublished ==
    ASSUME Typed, PublishedInv, [Next]_vars
    PROVE  PublishedInv'
<1>1. CASE Edits
  BY <1>1, ContinueGood, RouteGood DEF Edits, EditServe
<1>2. CASE UNCHANGED <<assessment, link, edit, drifted>> /\ \A q \in Question : question'[q].status = question[q].status
  BY <1>2, GoodStep DEF GoodKept
<1>3. ASSUME NEW p \in Proc, ExamStep(p)
      PROVE  UNCHANGED <<assessment, link, edit, drifted>> /\ \A q \in Question : question'[q].status = question[q].status
  <2>1. CASE UsageUpdate(p)
    BY <2>1 DEF UsageUpdate, Typed, BankTyped, QuestionRow
  <2> QED BY <1>3, <2>1 DEF ExamStep, bank, StartCount, StartLook, StartQuestions, StartInsert, StartAnswers, TimeoutFind,
                            TimeoutSave, AnswerFind, AnswerSave, SubmitAssessment, UsageFind, AnswersSave,
                            AttemptSave, ExamHalt
<1>4. CASE UNCHANGED bank
  BY <1>2, <1>4 DEF bank
<1>5. CASE \E p \in Proc : ExamRoute(p)
  BY <1>4, <1>5 DEF ExamRoute, StartFind, AnswerBegin, SubmitFind
<1>6. CASE UNCHANGED vars \/ \E a \in Attempt : DeadlinePasses(a)
  BY <1>4, <1>6 DEF vars, bank, DeadlinePasses
<1> QED BY <1>1, <1>2, <1>3, <1>5, <1>6 DEF Next, ExamServe, ExamContinue

\* 'Cannot publish assessment with unapproved questions' (publish): while an assessment is
\* published its questions are approved, but for those that lost the approval since they
\* had it, and those that were added after the publication.
THEOREM PublishedHolds == Spec => []PublishedIsApproved
<1>1. Init => Typed /\ PublishedInv
  <2>1. ASSUME Init PROVE PublishedInv
    BY <2>1 DEF Init, BankInit, NoEdit, PublishedInv, PublishedIsApproved
  <2> QED BY <2>1, InitTyped
<1>2. Typed /\ PublishedInv /\ [Next]_vars => Typed' /\ PublishedInv'
  BY NextTyped, NextPublished
<1>3. PublishedInv => PublishedIsApproved
  BY DEF PublishedInv
<1> QED BY <1>1, <1>2, <1>3, PTL DEF Spec

(***************************************************************************)
(* The limit                                                               *)
(***************************************************************************)
\* Attempts that are there have numbers of their own, up to the limit; a start that has counted
\* them found room for one; and a request that will save an attempt knows its number.
Numbered ==
    /\ \A a \in Made : attempt[a].attemptNumber \in 1..MaxAttempts
    /\ \A a, b \in Made : a # b => attempt[a].attemptNumber # attempt[b].attemptNumber
    /\ \A p \in Proc : exam[p].pc \in {"startLook", "startQuestions", "startInsert"} => exam[p].count < MaxAttempts
    /\ \A p \in Proc : exam[p].pc \in FoundSteps =>
           /\ attempt[exam[p].id].status # "none"
           /\ IsThere(attempt[exam[p].id]) => attempt[exam[p].id].attemptNumber = exam[p].row.attemptNumber
LimitInv == mishap = {} => Numbered

\* The numbers of the attempts that are there stay, and no other is there.
NumbersKept ==
    /\ \A a \in Made' : a \in Made /\ attempt'[a].attemptNumber = attempt[a].attemptNumber
    /\ \A a \in Attempt : attempt[a].status # "none" => attempt'[a].status # "none"

\* What a request knows after its step.
Knows(r) ==
    /\ r.pc \in {"startLook", "startQuestions", "startInsert"} => r.count < MaxAttempts
    /\ r.pc \in FoundSteps =>
           /\ attempt[r.id].status # "none"
           /\ IsThere(attempt[r.id]) => attempt[r.id].attemptNumber = r.row.attemptNumber

LEMMA NumberedKept ==
    ASSUME Typed, Typed', Numbered, NumbersKept,
           \A p \in Proc : exam'[p] = exam[p] \/ Knows(exam'[p]) \/ exam'[p].pc = "idle"
    PROVE  Numbered'
<1>1. ASSUME NEW p \in Proc PROVE Knows(exam'[p])
  BY DEF Numbered, Knows, FoundSteps
<1>2. ASSUME NEW p \in Proc, exam'[p].pc \in FoundSteps
      PROVE  exam'[p].id \in Attempt
  BY <1>2 DEF Typed, ExamTyped
<1>3. ASSUME NEW p \in Proc, exam'[p].pc \in FoundSteps
      PROVE  /\ attempt'[exam'[p].id].status # "none"
             /\ IsThere(attempt'[exam'[p].id]) => attempt'[exam'[p].id].attemptNumber = exam'[p].row.attemptNumber
  BY <1>1, <1>2, <1>3 DEF Knows, NumbersKept, Made
<1>4. \A a \in Made' : attempt'[a].attemptNumber \in 1..MaxAttempts
  BY DEF Numbered, NumbersKept
<1>5. \A a, b \in Made' : a # b => attempt'[a].attemptNumber # attempt'[b].attemptNumber
  BY DEF Numbered, NumbersKept
<1> QED BY <1>1, <1>3, <1>4, <1>5 DEF Numbered, Knows

LEMMA InsertNumbered ==
    ASSUME Typed, Numbered, NEW p \in Proc, StartInsert(p), mishap' = {}
    PROVE  Numbered'
<1>1. CASE UNCHANGED attempt /\ ExamEnd(p)
  <2>1. \A q \in Proc : exam'[q] = IF q = p THEN NoExam ELSE exam[q]
    BY <1>1 DEF ExamEnd, Typed
  <2> QED BY <1>1, <2>1 DEF Numbered, NoExam, FoundSteps, Made
<1>2. ASSUME NEW a \in Attempt, attempt[a].status = "none",
             attempt' = [attempt EXCEPT ![a] = [NoAttempt EXCEPT !.status = "in_progress",
                                                                !.attemptNumber = exam[p].count + 1]],
             exam' = [exam EXCEPT ![p].pc = "startAnswers", ![p].id = a],
             \A b \in Made : attempt[b].attemptNumber <= exam[p].count
      PROVE  Numbered'
  <2>1. exam[p].count \in Nat /\ exam[p].count < MaxAttempts /\ \A b \in Attempt : attempt[b].attemptNumber \in Nat
    BY DEF Numbered, StartInsert, Typed, ExamTyped, AttemptRow
  <2>2. \A b \in Attempt : attempt'[b].attemptNumber = IF b = a THEN exam[p].count + 1 ELSE attempt[b].attemptNumber
    BY <1>2 DEF Typed, NoAttempt
  <2>3. \A b \in Attempt : attempt'[b].status = IF b = a THEN "in_progress" ELSE attempt[b].status
    BY <1>2 DEF Typed, NoAttempt
  <2>4. Made' = Made \cup {a} /\ a \notin Made
    BY <1>2, <2>3 DEF Made, IsThere
  <2>5. \A q \in Proc : exam'[q] = exam[q] \/ exam'[q].pc = "startAnswers"
    BY <1>2 DEF Typed, ExamTyped
  <2>6. \A b \in Made' : attempt'[b].attemptNumber \in 1..MaxAttempts
    BY <2>1, <2>2, <2>4, LimitAssumption DEF Numbered, Made
  <2>7. \A b, c \in Made' : b # c => attempt'[b].attemptNumber # attempt'[c].attemptNumber
    BY <1>2, <2>1, <2>2, <2>4 DEF Numbered, Made
  <2>8. ASSUME NEW q \in Proc, exam'[q].pc \in FoundSteps
        PROVE  /\ attempt'[exam'[q].id].status # "none"
               /\ IsThere(attempt'[exam'[q].id]) =>
                      attempt'[exam'[q].id].attemptNumber = exam'[q].row.attemptNumber
    <3>1. exam'[q] = exam[q] /\ exam[q].id \in Attempt
      BY <2>5, <2>8 DEF FoundSteps, Typed, ExamTyped
    <3>2. attempt[exam[q].id].status # "none"
      BY <2>8, <3>1 DEF Numbered
    <3>3. attempt'[exam[q].id] = attempt[exam[q].id]
      BY <1>2, <3>1, <3>2 DEF Typed
    <3> QED BY <2>8, <3>1, <3>3 DEF Numbered
  <2> QED BY <2>5, <2>6, <2>7, <2>8 DEF Numbered
<1>3. ASSUME NEW a \in Attempt, attempt[a].status = "none",
             attempt' = [attempt EXCEPT ![a] = [NoAttempt EXCEPT !.status = "in_progress",
                                                                !.attemptNumber = exam[p].count + 1]],
             exam' = [exam EXCEPT ![p].pc = "startAnswers", ![p].id = a],
             ~ \E b \in Made : attempt[b].attemptNumber > exam[p].count
      PROVE  Numbered'
  <2>1. exam[p].count \in Nat /\ \A b \in Made : attempt[b].attemptNumber \in Nat
    BY DEF Typed, ExamTyped, AttemptRow, Made
  <2>2. \A b \in Made : attempt[b].attemptNumber <= exam[p].count
    BY <1>3, <2>1
  <2> QED BY <1>2, <1>3, <2>2
<1> QED BY <1>1, <1>3 DEF StartInsert

LEMMA NumbersSaved ==
    ASSUME Typed, Numbered, NEW p \in Proc, exam[p].pc \in {"timeoutSave", "attemptSave"},
           NEW row, row \in AttemptRow, row.attemptNumber = exam[p].row.attemptNumber,
           IsThere(row), IsThere(attempt[exam[p].id]),
           attempt' = [attempt EXCEPT ![exam[p].id] = row]
    PROVE  NumbersKept
<1> DEFINE a == exam[p].id
<1>1. a \in Attempt /\ attempt[a].attemptNumber = row.attemptNumber /\ a \in Made
  BY DEF Typed, ExamTyped, FoundSteps, Numbered, Made
<1>2. \A b \in Attempt : attempt'[b] = IF b = a THEN row ELSE attempt[b]
  BY <1>1 DEF Typed
<1> QED BY <1>1, <1>2 DEF NumbersKept, Made, IsThere

LEMMA ExamStepNumbered ==
    ASSUME Typed, Typed', Numbered, NEW p \in Proc, ExamStep(p), mishap' = {}
    PROVE  Numbered'
<1> DEFINE r == exam[p]
<1>1. ExamTyped(r) /\ Knows(r) /\ \A q \in Proc : q # p => exam'[q] = exam[q]
  <2>1. \A q \in Proc : q # p => exam'[q] = exam[q]
    BY DEF ExamStep, StartCount, StartLook, StartQuestions, StartInsert, StartAnswers, TimeoutFind, TimeoutSave,
           AnswerFind, AnswerSave, SubmitAssessment, UsageFind, UsageUpdate, AnswersSave, AttemptSave, ExamHalt,
           ExamEnd, ExamTo, NextUsage, Typed
  <2> QED BY <2>1 DEF Typed, Numbered, Knows
<1>2. ExamEnd(p) => exam'[p].pc = "idle"
  BY DEF ExamEnd, Typed, NoExam
<1>3. UNCHANGED attempt => NumbersKept
  BY DEF NumbersKept, Made
<1>4. CASE StartCount(p)
  <2>1. ASSUME ~ExamEnd(p) PROVE Knows(exam'[p])
    <3>1. Cardinality(Made) < MaxAttempts
      BY <1>4, <2>1, MadeFinite, LimitAssumption DEF StartCount
    <3>2. exam' = [exam EXCEPT ![p] = [exam[p] EXCEPT !.pc = "startLook", !.count = Cardinality(Made)]]
      BY <1>4, <2>1 DEF StartCount
    <3>3. exam'[p].pc = "startLook" /\ exam'[p].count = Cardinality(Made)
      BY <1>1, <3>2 DEF Typed, ExamTyped
    <3> QED BY <3>1, <3>3 DEF Knows, FoundSteps
  <2> QED BY <1>1, <1>2, <1>3, <1>4, <2>1, NumberedKept DEF StartCount
<1>5. CASE StartLook(p) \/ StartQuestions(p)
  <2>1. ExamEnd(p) \/ (exam'[p].pc \in {"startQuestions", "startInsert"} /\ exam'[p].count = exam[p].count)
    <3>1. CASE StartLook(p)
      BY <1>1, <3>1 DEF StartLook, ExamTo, Typed, ExamTyped
    <3>2. CASE StartQuestions(p) /\ ~ExamEnd(p)
      <4>1. PICK chosen \in SUBSET link :
                exam' = [exam EXCEPT ![p].pc = "startInsert", ![p].questions = chosen,
                                     ![p].content = [q \in Question |-> question[q].content]]
        BY <3>2 DEF StartQuestions
      <4> QED BY <1>1, <4>1 DEF Typed, ExamTyped
    <3> QED BY <1>5, <3>1, <3>2
  <2>2. exam[p].count < MaxAttempts /\ UNCHANGED attempt
    BY <1>1, <1>5 DEF StartLook, StartQuestions, Knows
  <2>3. ExamEnd(p) \/ Knows(exam'[p])
    BY <2>1, <2>2 DEF Knows, FoundSteps
  <2> QED BY <1>1, <1>2, <1>3, <2>2, <2>3, NumberedKept
<1>6. CASE StartInsert(p)
  BY <1>6, InsertNumbered
<1>7. CASE TimeoutFind(p)
  <2>1. ExamEnd(p) \/ exam' = [exam EXCEPT ![p] = [exam[p] EXCEPT !.pc = "timeoutSave", !.row = attempt[exam[p].id]]]
    BY <1>7 DEF TimeoutFind
  <2>2. attempt[exam[p].id].status # "none" /\ UNCHANGED attempt
    BY <1>1, <1>7 DEF TimeoutFind, Knows, FoundSteps
  <2>3. ASSUME ~ExamEnd(p) PROVE Knows(exam'[p])
    <3> DEFINE row == attempt[exam[p].id]
    <3>1. exam' = [exam EXCEPT ![p] = [exam[p] EXCEPT !.pc = "timeoutSave", !.row = row]]
      BY <2>1, <2>3
    <3> HIDE DEF row
    <3>2. exam'[p] = [exam[p] EXCEPT !.pc = "timeoutSave", !.row = row]
      BY <3>1 DEF Typed
    <3>3. exam'[p].pc = "timeoutSave" /\ exam'[p].id = exam[p].id /\ exam'[p].row = row
      BY <1>1, <3>2 DEF ExamTyped
    <3> QED BY <2>2, <3>3 DEF Knows, FoundSteps, row
  <2> QED BY <1>1, <1>2, <1>3, <2>2, <2>3, NumberedKept
<1>8. ASSUME UNCHANGED attempt, exam[p].pc \in FoundSteps,
             \/ ExamEnd(p)
             \/ exam'[p].pc \in FoundSteps /\ exam'[p].id = exam[p].id /\ exam'[p].row = exam[p].row
      PROVE  Numbered'
  <2>1. ExamEnd(p) \/ Knows(exam'[p])
    BY <1>1, <1>8 DEF Knows, FoundSteps
  <2> QED BY <1>1, <1>2, <1>3, <1>8, <2>1, NumberedKept
<1>9. CASE AnswerFind(p) \/ SubmitAssessment(p) \/ UsageFind(p) \/ UsageUpdate(p) \/ AnswersSave(p) \/ AnswerSave(p)
  <2>1. UNCHANGED attempt /\ exam[p].pc \in FoundSteps
    BY <1>9 DEF AnswerFind, SubmitAssessment, UsageFind, UsageUpdate, AnswersSave, AnswerSave, FoundSteps
  <2>2. \/ ExamEnd(p)
        \/ exam'[p].pc \in FoundSteps /\ exam'[p].id = exam[p].id /\ exam'[p].row = exam[p].row
    <3>1. ASSUME NEW left, NextUsage(p, left)
          PROVE  exam'[p].pc \in FoundSteps /\ exam'[p].id = exam[p].id /\ exam'[p].row = exam[p].row
      <4>1. PICK step \in {"answersSave", "usageFind"} :
                exam' = [exam EXCEPT ![p] = [exam[p] EXCEPT !.questions = left, !.question = Null, !.usageCount = 0,
                                                            !.pc = step]]
        BY <3>1 DEF NextUsage
      <4> QED BY <1>1, <4>1 DEF Typed, ExamTyped, FoundSteps
    <3>2. CASE AnswerFind(p)
      BY <1>1, <3>2 DEF AnswerFind, FoundSteps, Typed, ExamTyped
    <3>7. CASE AnswerSave(p)
      BY <3>7 DEF AnswerSave
    <3>3. CASE AnswersSave(p)
      BY <1>1, <3>3 DEF AnswersSave, ExamTo, FoundSteps, Typed, ExamTyped
    <3>4. CASE SubmitAssessment(p) \/ UsageUpdate(p)
      BY <3>1, <3>4 DEF SubmitAssessment, UsageUpdate
    <3>5. CASE UsageFind(p) /\ ~ExamEnd(p)
      <4>1. PICK q \in exam[p].questions :
                exam' = [exam EXCEPT ![p].pc = "usageUpdate", ![p].question = q,
                                     ![p].usageCount = question[q].usageCount]
        BY <3>5 DEF UsageFind
      <4> QED BY <1>1, <4>1 DEF Typed, ExamTyped, FoundSteps
    <3> QED BY <1>9, <3>2, <3>3, <3>4, <3>5, <3>7
  <2> QED BY <1>8, <2>1, <2>2
<1>10. CASE StartAnswers(p) \/ ExamHalt(p)
  <2>1. ExamEnd(p) /\ UNCHANGED attempt
    BY <1>10 DEF StartAnswers, ExamHalt
  <2> QED BY <1>1, <1>2, <1>3, <2>1, NumberedKept
<1>11. CASE TimeoutSave(p) \/ AttemptSave(p)
  <2>1. ExamEnd(p)
    BY <1>11 DEF TimeoutSave, AttemptSave
  <2>2. CASE UNCHANGED attempt
    BY <1>1, <1>2, <1>3, <2>1, <2>2, NumberedKept
  <2>3. CASE TimeoutSave(p) /\ ~UNCHANGED attempt
    <3> DEFINE row == [exam[p].row EXCEPT !.status = "timed_out"]
    <3>1. row \in AttemptRow /\ row.attemptNumber = exam[p].row.attemptNumber /\ IsThere(row)
      BY <1>1 DEF ExamTyped, AttemptRow, AttemptStatus, IsThere
    <3>2. attempt' = [attempt EXCEPT ![exam[p].id] = row] /\ IsThere(attempt[exam[p].id])
      BY <2>3 DEF TimeoutSave
    <3>3. exam[p].pc = "timeoutSave"
      BY <2>3 DEF TimeoutSave
    <3> HIDE DEF row
    <3>4. NumbersKept
      BY <3>1, <3>2, <3>3, NumbersSaved
    <3> QED BY <1>1, <1>2, <2>1, <3>4, NumberedKept
  <2>4. CASE AttemptSave(p) /\ ~UNCHANGED attempt
    <3> DEFINE row == Submitted(exam[p])
    <3>1. row \in AttemptRow /\ row.attemptNumber = exam[p].row.attemptNumber /\ IsThere(row)
      <4>1. exam[p].pc \in SubmitSteps /\ exam[p].row \in AttemptRow
        BY <1>1, <2>4 DEF AttemptSave, SubmitSteps, ExamTyped
      <4>2. row.attemptNumber = exam[p].row.attemptNumber
        BY <4>1 DEF Submitted, AttemptRow
      <4> QED BY <1>1, <4>1, <4>2, SubmittedTyped DEF IsThere
    <3>2. attempt' = [attempt EXCEPT ![exam[p].id] = row] /\ IsThere(attempt[exam[p].id])
      BY <2>4 DEF AttemptSave
    <3>3. exam[p].pc = "attemptSave"
      BY <2>4 DEF AttemptSave
    <3> HIDE DEF row
    <3>4. NumbersKept
      BY <3>1, <3>2, <3>3, NumbersSaved
    <3> QED BY <1>1, <1>2, <2>1, <3>4, NumberedKept
  <2> QED BY <1>11, <2>2, <2>3, <2>4
<1> QED BY <1>4, <1>5, <1>6, <1>7, <1>9, <1>10, <1>11 DEF ExamStep

LEMMA ExamRouteNumbered ==
    ASSUME Typed, Typed', Numbered, NEW p \in Proc, ExamRoute(p)
    PROVE  Numbered'
<1>1. ASSUME NEW r, exam' = [exam EXCEPT ![p] = r], UNCHANGED attempt, Knows(r)
      PROVE  Numbered'
  <2>1. \A q \in Proc : exam'[q] = exam[q] \/ Knows(exam'[q])
    BY <1>1 DEF Typed
  <2>2. NumbersKept
    BY <1>1 DEF NumbersKept, Made
  <2> QED BY <2>1, <2>2, NumberedKept
<1>2. CASE StartFind(p)
  <2>1. Knows([NoExam EXCEPT !.pc = "startCount"])
    BY DEF Knows, NoExam, FoundSteps
  <2> QED BY <1>1, <1>2, <2>1 DEF StartFind, ExamBegin
<1>3. ASSUME NEW a \in Attempt, AnswerBegin(p, a) PROVE Numbered'
  <2>1. PICK q \in Question, given \in AllGiven :
            ExamBegin(p, [NoExam EXCEPT !.pc = IF a \in overdue THEN "timeoutFind" ELSE "answerFind",
                                        !.id = a, !.question = q, !.given = given, !.row = attempt[a]])
    BY <1>3 DEF AnswerBegin
  <2>2. Knows([NoExam EXCEPT !.pc = IF a \in overdue THEN "timeoutFind" ELSE "answerFind",
                             !.id = a, !.question = q, !.given = given, !.row = attempt[a]])
    BY <1>3 DEF AnswerBegin, Knows, NoExam, FoundSteps
  <2> QED BY <1>1, <1>3, <2>1, <2>2 DEF AnswerBegin, ExamBegin
<1>4. ASSUME NEW a \in Attempt, SubmitFind(p, a) PROVE Numbered'
  <2> DEFINE r == [NoExam EXCEPT !.pc = "submitAssessment", !.id = a, !.row = attempt[a], !.answers = answer[a],
                                 !.questions = {q \in Question : answer[a][q].there},
                                 !.content = [q \in Question |-> question[q].content]]
  <2>1. Knows(r)
    BY <1>4 DEF SubmitFind, Knows, NoExam, FoundSteps
  <2>2. exam' = [exam EXCEPT ![p] = r] /\ UNCHANGED attempt
    BY <1>4 DEF SubmitFind, ExamBegin
  <2> HIDE DEF r
  <2> QED BY <1>1, <2>1, <2>2
<1> QED BY <1>2, <1>3, <1>4 DEF ExamRoute

LEMMA NextLimit ==
    ASSUME Typed, LimitInv, [Next]_vars
    PROVE  LimitInv'
<1> SUFFICES ASSUME mishap' = {} PROVE Numbered'
  BY DEF LimitInv
<1>1. Typed'
  BY NextTyped
<1>2. mishap = {}
  BY ZenonT(60) DEF Next, Edits, ExamServe, ExamRoute, ExamContinue, ExamStep, DeadlinePasses, vars, StartFind, AnswerBegin,
         SubmitFind, StartCount, StartLook, StartQuestions, StartInsert, StartAnswers, TimeoutFind, TimeoutSave,
         AnswerFind, AnswerSave, SubmitAssessment, UsageFind, UsageUpdate, AnswersSave, AttemptSave, ExamHalt
<1>3. Numbered
  BY <1>2 DEF LimitInv
<1>4. CASE Edits
  <2>1. NumbersKept /\ UNCHANGED exam
    BY <1>4 DEF Edits, Cascade, NumbersKept, Made, IsThere, Typed, NoAttempt
  <2> QED BY <1>1, <1>3, <2>1, NumberedKept
<1>5. CASE UNCHANGED <<attempt, exam>>
  BY <1>1, <1>3, <1>5, NumberedKept DEF NumbersKept, Made
<1>6. CASE UNCHANGED vars \/ \E a \in Attempt : DeadlinePasses(a)
  BY <1>5, <1>6 DEF vars, DeadlinePasses
<1> QED BY <1>1, <1>3, <1>4, <1>6, ExamRouteNumbered, ExamStepNumbered DEF Next, ExamServe, ExamContinue

LEMMA NumbersCount ==
    ASSUME Numbered
    PROVE  Cardinality(Made) <= MaxAttempts
<1> DEFINE number == [a \in Made |-> attempt[a].attemptNumber]
<1>1. number \in Injection(Made, 1..MaxAttempts)
  BY DEF Numbered, Injection, IsInjective
<1>2. IsFiniteSet(1..MaxAttempts) /\ Cardinality(1..MaxAttempts) = MaxAttempts
  BY FS_Interval, LimitAssumption
<1> HIDE DEF number
<1> QED BY <1>1, <1>2, FS_Injection

\* 'Maximum attempts reached' (startAttempt): the student makes no more attempts than
\* that, and their numbers differ, unless two starts counted the same attempts, or one
\* that was deleted with the assessment was saved again.
THEOREM LimitHolds == Spec => []AttemptsWithinLimit
<1>1. Init => Typed /\ LimitInv
  <2>1. ASSUME Init PROVE LimitInv
    BY <2>1 DEF Init, AttemptInit, NoAttempt, NoExam, LimitInv, Numbered, Made, IsThere, FoundSteps
  <2> QED BY <2>1, InitTyped
<1>2. Typed /\ LimitInv /\ [Next]_vars => Typed' /\ LimitInv'
  BY NextTyped, NextLimit
<1>3. LimitInv => AttemptsWithinLimit
  BY NumbersCount DEF LimitInv, Numbered, AttemptsWithinLimit
<1> QED BY <1>1, <1>2, <1>3, PTL DEF Spec

(***************************************************************************)
(* The results                                                             *)
(***************************************************************************)
\* An answer that is not there is nothing but that.
Clean(s) == \A q \in Question : ~s[q].there => s[q] = NoRow

\* A request has found its attempt in progress, its answer in the attempt, and knows what the answers
\* it has saved are, as long as nothing crosses them.
Aware(r) ==
    /\ r.pc \in FoundSteps => r.row.status = "in_progress"
    /\ r.pc = "answerSave" => r.answers[r.question].there
    /\ r.pc = "attemptSave" /\ r.id \notin crossed
           => \A q \in Question : r.answers[q].there => answer[r.id][q] = Scored(r)[q]

ResultInv ==
    /\ ResultKept
    /\ \A a \in Attempt : told[a].row.status \in {"none", "submitted", "graded"} /\ Clean(answer[a])
    /\ \A p \in Proc : Aware(exam[p])

\* A step leaves an attempt and its answers, crosses them, comes before they are submitted, or
\* submits them.
Spared(a) ==
    \/ /\ told'[a] = told[a]
       /\ \/ a \in crossed'
          \/ UNCHANGED answer[a] /\ (attempt'[a] = attempt[a] \/ attempt'[a].status = "deleted"
                                     \/ attempt[a].status \in {"none", "in_progress"})
          \/ attempt'[a] = attempt[a] /\ ~IsSubmitted(a)
    \/ /\ told'[a].row.status \in {"submitted", "graded"} /\ answer'[a] = answer[a]
       /\ a \in crossed' \/ (attempt'[a] = told'[a].row /\ answer'[a] = told'[a].answers)

LEMMA NotTold ==
    ASSUME ResultInv, NEW a \in Attempt, a \notin crossed, attempt[a].status \in {"none", "in_progress"}
    PROVE  told[a].row.status = "none"
BY DEF ResultInv, ResultKept

LEMMA ResultFrame ==
    ASSUME Typed, ResultInv, crossed \subseteq crossed', \A a \in Attempt : Spared(a) /\ Clean(answer'[a]),
           \A p \in Proc : exam'[p] = exam[p] \/ Aware(exam[p])'
    PROVE  ResultInv'
<1>1. ASSUME NEW a \in Attempt
      PROVE  told'[a].row.status \in {"none", "submitted", "graded"}
  BY DEF Spared, ResultInv
<1>2. ASSUME NEW a \in Attempt, told'[a].row.status # "none", a \notin crossed', attempt'[a].status # "deleted"
      PROVE  attempt'[a] = told'[a].row /\ answer'[a] = told'[a].answers
  <2>1. attempt[a].status \in {"none", "in_progress"} => told[a].row.status = "none"
    BY <1>2, NotTold
  <2>2. ~IsSubmitted(a) => attempt[a].status = "in_progress"
    BY DEF IsSubmitted
  <2> QED BY <1>2, <2>1, <2>2 DEF Spared, ResultInv, ResultKept
<1>3. ASSUME NEW p \in Proc, exam'[p] = exam[p] PROVE Aware(exam[p])'
  <2>1. Aware(exam[p])
    BY DEF ResultInv
  <2>2. ASSUME exam[p].pc = "attemptSave", exam[p].id \notin crossed'
        PROVE  answer'[exam[p].id] = answer[exam[p].id]
    <3>1. exam[p].id \in Attempt
      BY <2>2 DEF Typed, ExamTyped, FoundSteps
    <3>2. IsSubmitted(exam[p].id)
      BY <2>2 DEF IsSubmitted
    <3> QED BY <2>2, <3>1, <3>2 DEF Spared
  <2>3. Scored(exam'[p]) = Scored(exam[p])
    BY <1>3
  <2> QED BY <1>3, <2>1, <2>2, <2>3 DEF Aware
<1> QED BY <1>1, <1>2, <1>3 DEF ResultInv, ResultKept

LEMMA IdleAware == \A r : r.pc \notin FoundSteps => Aware(r)
BY DEF Aware, FoundSteps

LEMMA AllSpared ==
    ASSUME UNCHANGED <<attempt, answer, told>>, ResultInv
    PROVE  \A a \in Attempt : Spared(a) /\ Clean(answer'[a])
BY DEF Spared, ResultInv

LEMMA EditsResult ==
    ASSUME Typed, ResultInv, Edits
    PROVE  ResultInv'
<1>1. UNCHANGED <<told, exam>> /\ crossed \subseteq crossed'
  BY DEF Edits, Cascade
<1>2. ASSUME NEW a \in Attempt PROVE Spared(a)
  <2>1. answer'[a] # answer[a] => a \in crossed'
    BY DEF Edits, Cascade
  <2>2. attempt'[a] = attempt[a] \/ attempt'[a].status = "deleted"
    BY DEF Edits, Cascade, NoAttempt
  <2> QED BY <1>1, <2>1, <2>2 DEF Spared
<1>3. ASSUME NEW a \in Attempt PROVE Clean(answer'[a])
  BY DEF Edits, Cascade, Clean, ResultInv
<1> QED BY <1>1, <1>2, <1>3, ResultFrame

LEMMA ExamRouteResult ==
    ASSUME Typed, ResultInv, NEW p \in Proc, ExamRoute(p)
    PROVE  ResultInv'
<1>1. UNCHANGED <<attempt, answer, told, crossed>>
  BY DEF ExamRoute, StartFind, AnswerBegin, SubmitFind
<1>2. ASSUME NEW r, exam' = [exam EXCEPT ![p] = r], r.pc \notin {"answerSave", "attemptSave"},
             r.pc \in FoundSteps => r.row.status = "in_progress"
      PROVE  ResultInv'
  <2>1. \A q \in Proc : exam'[q] = IF q = p THEN r ELSE exam[q]
    BY <1>2 DEF Typed
  <2>2. \A q \in Proc : exam'[q] = exam[q] \/ Aware(exam[q])'
    BY <1>2, <2>1 DEF Aware
  <2> QED BY <1>1, <2>2, AllSpared, ResultFrame
<1>3. CASE StartFind(p)
  <2>1. [NoExam EXCEPT !.pc = "startCount"].pc = "startCount"
    BY DEF NoExam
  <2> QED BY <1>2, <1>3, <2>1 DEF StartFind, ExamBegin, FoundSteps
<1>4. ASSUME NEW a \in Attempt, AnswerBegin(p, a) PROVE ResultInv'
  <2>1. PICK q \in Question, given \in AllGiven :
            ExamBegin(p, [NoExam EXCEPT !.pc = IF a \in overdue THEN "timeoutFind" ELSE "answerFind",
                                        !.id = a, !.question = q, !.given = given, !.row = attempt[a]])
    BY <1>4 DEF AnswerBegin
  <2> DEFINE r == [NoExam EXCEPT !.pc = IF a \in overdue THEN "timeoutFind" ELSE "answerFind",
                                 !.id = a, !.question = q, !.given = given, !.row = attempt[a]]
  <2>2. r.pc \in {"timeoutFind", "answerFind"} /\ r.row.status = "in_progress"
    BY <1>4 DEF AnswerBegin, NoExam
  <2>3. exam' = [exam EXCEPT ![p] = r]
    BY <2>1 DEF ExamBegin
  <2> HIDE DEF r
  <2> QED BY <1>2, <2>2, <2>3
<1>5. ASSUME NEW a \in Attempt, SubmitFind(p, a) PROVE ResultInv'
  <2> DEFINE r == [NoExam EXCEPT !.pc = "submitAssessment", !.id = a, !.row = attempt[a], !.answers = answer[a],
                                 !.questions = {q \in Question : answer[a][q].there},
                                 !.content = [q \in Question |-> question[q].content]]
  <2>1. r.pc = "submitAssessment" /\ r.row.status = "in_progress"
    BY <1>5 DEF SubmitFind, NoExam
  <2>2. exam' = [exam EXCEPT ![p] = r]
    BY <1>5 DEF SubmitFind, ExamBegin
  <2> HIDE DEF r
  <2> QED BY <1>2, <2>1, <2>2
<1> QED BY <1>3, <1>4, <1>5 DEF ExamRoute

LEMMA ScoredSame ==
    ASSUME NEW r, NEW s, r.answers = s.answers, r.content = s.content
    PROVE  Scored(r) = Scored(s)
BY DEF Scored

LEMMA ScoredThere ==
    ASSUME NEW r, ExamTyped(r), NEW q \in Question
    PROVE  r.answers[q].there => Scored(r)[q].there
<1> DEFINE points == ScoreAnswer(r.content[q], r.answers[q].given, r.content[q].points).earnedPoints
<1>1. r.answers[q].there => Scored(r)[q] = [r.answers[q] EXCEPT !.earnedPoints = points]
  BY DEF Scored
<1>2. r.answers[q] \in AnswerRow
  BY DEF ExamTyped, Answers
<1> HIDE DEF points
<1> QED BY <1>1, <1>2 DEF AnswerRow

LEMMA AnswersSaveResult ==
    ASSUME Typed, ResultInv, NEW p \in Proc, AnswersSave(p), ~ExamEnd(p)
    PROVE  ResultInv'
<1> DEFINE a == exam[p].id
<1>1. a \in Attempt /\ ExamTyped(exam[p])
  BY DEF AnswersSave, Typed, ExamTyped, FoundSteps
<1>2. /\ exam' = [exam EXCEPT ![p].pc = "attemptSave"]
      /\ answer' = [answer EXCEPT ![a] = [q \in Question |-> IF exam[p].answers[q].there
                                                            THEN Scored(exam[p])[q] ELSE answer[a][q]]]
      /\ crossed' = IF answer[a] # exam[p].answers \/ IsSubmitted(a) THEN crossed \cup {a} ELSE crossed
      /\ UNCHANGED <<attempt, told>>
  BY DEF AnswersSave, ExamTo
<1>3. \A b \in Attempt : b # a => answer'[b] = answer[b]
  BY <1>2 DEF Typed
<1>4. \A q \in Question : answer'[a][q] = IF exam[p].answers[q].there THEN Scored(exam[p])[q] ELSE answer[a][q]
  BY <1>1, <1>2 DEF Typed
<1>5. ASSUME NEW b \in Attempt PROVE Spared(b)
  BY <1>2, <1>3 DEF Spared
<1>6. ASSUME NEW b \in Attempt PROVE Clean(answer'[b])
  <2>1. CASE b = a
    BY <1>1, <1>4, <2>1, ScoredThere DEF Clean, ResultInv
  <2> QED BY <1>3, <2>1 DEF ResultInv
<1>7. exam'[p] = [exam[p] EXCEPT !.pc = "attemptSave"] /\ \A q \in Proc : q # p => exam'[q] = exam[q]
  BY <1>2 DEF Typed
<1>8. /\ exam'[p].pc = "attemptSave" /\ exam'[p].id = a /\ exam'[p].row = exam[p].row
      /\ exam'[p].answers = exam[p].answers /\ exam'[p].content = exam[p].content
  BY <1>1, <1>7 DEF ExamTyped
<1>9. Scored(exam'[p]) = Scored(exam[p])
  BY <1>8, ScoredSame
<1>10. exam[p].row.status = "in_progress"
  BY DEF ResultInv, Aware, AnswersSave, FoundSteps
<1>11. Aware(exam[p])'
  BY <1>4, <1>8, <1>9, <1>10 DEF Aware
<1> QED BY <1>2, <1>5, <1>6, <1>7, <1>11, ResultFrame

LEMMA AttemptSaveResult ==
    ASSUME Typed, ResultInv, NEW p \in Proc, AttemptSave(p)
    PROVE  ResultInv'
<1> DEFINE a == exam[p].id
<1>1. a \in Attempt /\ ExamTyped(exam[p]) /\ exam[p].pc = "attemptSave"
  BY DEF AttemptSave, Typed, ExamTyped, FoundSteps
<1>2. \A q \in Proc : exam'[q] = exam[q] \/ Aware(exam[q])'
  <2>1. \A q \in Proc : exam'[q] = exam[q] \/ exam'[q].pc = "idle"
    BY DEF AttemptSave, ExamEnd, Typed, NoExam
  <2> QED BY <2>1 DEF Aware, FoundSteps
<1>3. UNCHANGED answer /\ crossed \subseteq crossed'
  BY DEF AttemptSave
<1>4. CASE UNCHANGED <<attempt, told>>
  BY <1>2, <1>3, <1>4, AllSpared, ResultFrame
<1>5. CASE ~UNCHANGED <<attempt, told>>
  <2>1. /\ attempt' = [attempt EXCEPT ![a] = Submitted(exam[p])]
        /\ told' = [told EXCEPT ![a] = [row |-> Submitted(exam[p]), answers |-> Scored(exam[p])]]
        /\ \A q \in Question : answer[a][q].there => exam[p].answers[q].there
    BY <1>5 DEF AttemptSave
  <2>2. \A b \in Attempt : b # a => attempt'[b] = attempt[b] /\ told'[b] = told[b]
    BY <2>1 DEF Typed
  <2>3. attempt'[a] = told'[a].row /\ told'[a].row = Submitted(exam[p]) /\ told'[a].answers = Scored(exam[p])
    BY <1>1, <2>1 DEF Typed
  <2>4. a \notin crossed => answer[a] = Scored(exam[p])
    <3> SUFFICES ASSUME a \notin crossed PROVE answer[a] = Scored(exam[p])
      OBVIOUS
    <3>1. \A q \in Question : exam[p].answers[q].there => answer[a][q] = Scored(exam[p])[q]
      BY <1>1 DEF ResultInv, Aware
    <3>2. \A q \in Question : ~exam[p].answers[q].there => answer[a][q] = NoRow /\ Scored(exam[p])[q] = NoRow
      BY <1>1, <2>1 DEF ResultInv, Clean, Scored
    <3>3. answer[a] = [q \in Question |-> answer[a][q]]
      BY <1>1 DEF Typed, Answers
    <3>4. Scored(exam[p]) = [q \in Question |-> Scored(exam[p])[q]]
      BY DEF Scored
    <3>5. \A q \in Question : answer[a][q] = Scored(exam[p])[q]
      BY <3>1, <3>2
    <3> HIDE DEF a
    <3> QED BY <3>3, <3>4, <3>5
  <2>5. told'[a].row.status \in {"submitted", "graded"}
    BY <1>1, <2>3, SubmittedTyped DEF SubmitSteps
  <2>6. \A b \in Attempt : Spared(b) /\ Clean(answer'[b])
    BY <1>3, <2>2, <2>3, <2>4, <2>5 DEF Spared, ResultInv
  <2> QED BY <1>2, <1>3, <2>6, ResultFrame
<1> QED BY <1>4, <1>5

LEMMA ExamStepResult ==
    ASSUME Typed, ResultInv, NEW p \in Proc, ExamStep(p)
    PROVE  ResultInv'
<1> DEFINE a == exam[p].id
<1>1. ExamTyped(exam[p]) /\ Aware(exam[p]) /\ exam = [q \in Proc |-> exam[q]]
  BY DEF Typed, ResultInv
<1>2. ASSUME ExamEnd(p) PROVE \A q \in Proc : exam'[q] = exam[q] \/ Aware(exam[q])'
  <2>1. \A q \in Proc : exam'[q] = exam[q] \/ exam'[q].pc = "idle"
    BY <1>1, <1>2 DEF ExamEnd, NoExam
  <2> QED BY <2>1 DEF Aware, FoundSteps
<1>3. ASSUME NEW r, exam' = [exam EXCEPT ![p] = r], UNCHANGED <<attempt, answer, told, crossed>>,
             r.pc \notin {"answerSave", "attemptSave"}, r.pc \in FoundSteps => r.row.status = "in_progress"
      PROVE  ResultInv'
  <2>1. \A q \in Proc : exam'[q] = IF q = p THEN r ELSE exam[q]
    BY <1>1, <1>3
  <2>2. \A q \in Proc : exam'[q] = exam[q] \/ Aware(exam[q])'
    BY <1>3, <2>1 DEF Aware
  <2> QED BY <1>3, <2>2, AllSpared, ResultFrame
<1>4. ASSUME ExamEnd(p), UNCHANGED <<attempt, answer, told, crossed>>
      PROVE  ResultInv'
  BY <1>2, <1>4, AllSpared, ResultFrame
<1>5. CASE StartCount(p) \/ StartLook(p) \/ StartQuestions(p)
  <2>1. CASE StartCount(p) /\ ~ExamEnd(p)
    <3> DEFINE r == [exam[p] EXCEPT !.pc = "startLook", !.count = Cardinality(Made)]
    <3>1. exam' = [exam EXCEPT ![p] = r] /\ UNCHANGED <<attempt, answer, told, crossed>>
      BY <2>1 DEF StartCount
    <3>2. r.pc = "startLook"
      BY <1>1 DEF ExamTyped
    <3> HIDE DEF r
    <3> QED BY <1>3, <3>1, <3>2 DEF FoundSteps
  <2>2. CASE StartLook(p) /\ ~ExamEnd(p)
    <3> DEFINE r == [exam[p] EXCEPT !.pc = "startQuestions"]
    <3>1. exam' = [exam EXCEPT ![p] = r] /\ UNCHANGED <<attempt, answer, told, crossed>>
      BY <2>2 DEF StartLook, ExamTo
    <3>2. r.pc = "startQuestions"
      BY <1>1 DEF ExamTyped
    <3> HIDE DEF r
    <3> QED BY <1>3, <3>1, <3>2 DEF FoundSteps
  <2>3. CASE StartQuestions(p) /\ ~ExamEnd(p)
    <3> PICK chosen \in SUBSET link :
            exam' = [exam EXCEPT ![p].pc = "startInsert", ![p].questions = chosen,
                                 ![p].content = [q \in Question |-> question[q].content]]
      BY <2>3 DEF StartQuestions
    <3> DEFINE contents == [q \in Question |-> question[q].content]
               r == [exam[p] EXCEPT !.pc = "startInsert", !.questions = chosen, !.content = contents]
    <3>1. exam' = [exam EXCEPT ![p] = r] /\ UNCHANGED <<attempt, answer, told, crossed>>
      BY <2>3 DEF StartQuestions
    <3> HIDE DEF contents
    <3>2. r.pc = "startInsert"
      BY <1>1 DEF ExamTyped
    <3> HIDE DEF r
    <3> QED BY <1>3, <3>1, <3>2 DEF FoundSteps
  <2> QED BY <1>4, <1>5, <2>1, <2>2, <2>3 DEF StartCount, StartLook, StartQuestions
<1>6. CASE StartInsert(p)
  <2>1. UNCHANGED <<answer, told, crossed>>
    BY <1>6 DEF StartInsert
  <2>2. \A b \in Attempt : attempt'[b] = attempt[b] \/ attempt[b].status = "none"
    BY <1>6 DEF StartInsert, Typed
  <2>3. \A b \in Attempt : Spared(b) /\ Clean(answer'[b])
    BY <2>1, <2>2 DEF Spared, ResultInv
  <2>4. \A q \in Proc : exam'[q] = exam[q] \/ exam'[q].pc \in {"idle", "startAnswers"}
    <3>1. ExamEnd(p) \/ \E b \in Attempt : exam' = [exam EXCEPT ![p] = [exam[p] EXCEPT !.pc = "startAnswers", !.id = b]]
      BY <1>6 DEF StartInsert
    <3>2. \A b \in Attempt : [exam[p] EXCEPT !.pc = "startAnswers", !.id = b].pc = "startAnswers"
      BY <1>1 DEF ExamTyped
    <3>3. CASE ExamEnd(p)
      BY <1>1, <3>3 DEF ExamEnd, NoExam
    <3> QED BY <1>1, <3>1, <3>2, <3>3
  <2>5. \A q \in Proc : exam'[q] = exam[q] \/ Aware(exam[q])'
    BY <2>4 DEF Aware, FoundSteps
  <2> QED BY <2>1, <2>3, <2>5, ResultFrame
<1>7. CASE StartAnswers(p)
  <2>1. ExamEnd(p) /\ UNCHANGED <<attempt, told>> /\ crossed \subseteq crossed'
    BY <1>7 DEF StartAnswers
  <2>2. \A b \in Attempt : answer'[b] = answer[b] \/ (b = a /\ (IsSubmitted(a) => a \in crossed'))
    BY <1>7 DEF StartAnswers, Typed
  <2>3. ASSUME NEW b \in Attempt PROVE Spared(b)
    BY <2>1, <2>2 DEF Spared
  <2>4. ASSUME NEW b \in Attempt PROVE Clean(answer'[b])
    <3> DEFINE empty(q) == [NoRow EXCEPT !.there = TRUE, !.requiresManualGrading = IsManual(exam[p].content[q])]
    <3>1. \A q : empty(q).there
      BY DEF NoRow
    <3>2. UNCHANGED answer
          \/ answer' = [answer EXCEPT ![a] = [q \in Question |-> IF q \in exam[p].questions THEN empty(q) ELSE NoRow]]
      BY <1>7 DEF StartAnswers
    <3> HIDE DEF empty, a
    <3> QED BY <3>1, <3>2 DEF Clean, ResultInv, Typed
  <2> QED BY <1>2, <2>1, <2>3, <2>4, ResultFrame
<1>8. CASE TimeoutFind(p)
  <2>1. CASE ~ExamEnd(p)
    <3> DEFINE row == attempt[exam[p].id]
               r == [exam[p] EXCEPT !.pc = "timeoutSave", !.row = row]
    <3>1. /\ exam' = [exam EXCEPT ![p] = r] /\ UNCHANGED <<attempt, answer, told, crossed>>
          /\ row.status = "in_progress"
      BY <1>8, <2>1 DEF TimeoutFind
    <3> HIDE DEF row
    <3>2. r.pc = "timeoutSave" /\ r.row = row
      BY <1>1 DEF ExamTyped
    <3> HIDE DEF r
    <3> QED BY <1>3, <3>1, <3>2
  <2> QED BY <1>4, <1>8, <2>1 DEF TimeoutFind
<1>9. CASE TimeoutSave(p)
  <2>1. ExamEnd(p) /\ UNCHANGED <<answer, told>> /\ crossed \subseteq crossed'
    BY <1>9 DEF TimeoutSave
  <2>2. exam[p].row.status = "in_progress"
    BY <1>1, <1>9 DEF TimeoutSave, Aware, FoundSteps
  <2>3. \A b \in Attempt : attempt'[b] = attempt[b] \/ (b = a /\ (attempt[a] # exam[p].row => a \in crossed'))
    BY <1>9 DEF TimeoutSave, Typed
  <2>4. \A b \in Attempt : Spared(b) /\ Clean(answer'[b])
    BY <2>1, <2>2, <2>3 DEF Spared, ResultInv
  <2> QED BY <1>2, <2>1, <2>4, ResultFrame
<1>10. CASE AnswerFind(p)
  <2>1. CASE ~ExamEnd(p)
    <3> DEFINE found == answer[exam[p].id]
    <3>1. /\ exam' = [exam EXCEPT ![p] = [exam[p] EXCEPT !.pc = "answerSave", !.answers = found]]
          /\ UNCHANGED <<attempt, answer, told, crossed>>
          /\ found[exam[p].question].there
      BY <1>10, <2>1 DEF AnswerFind
    <3>2. exam[p].row.status = "in_progress"
      BY <1>1, <1>10 DEF AnswerFind, Aware, FoundSteps
    <3> HIDE DEF found
    <3>3. \A q \in Proc : exam'[q] = IF q = p THEN [exam[p] EXCEPT !.pc = "answerSave", !.answers = found] ELSE exam[q]
      BY <1>1, <3>1
    <3>4. /\ exam'[p].pc = "answerSave" /\ exam'[p].answers = found
          /\ exam'[p].question = exam[p].question /\ exam'[p].row = exam[p].row
      BY <1>1, <3>3 DEF ExamTyped
    <3>5. Aware(exam[p])'
      BY <3>1, <3>2, <3>4 DEF Aware
    <3> QED BY <3>1, <3>3, <3>5, AllSpared, ResultFrame
  <2> QED BY <1>4, <1>10, <2>1 DEF AnswerFind
<1>11. CASE AnswerSave(p)
  <2>0. PICK given \in AllGiven : UNCHANGED answer
           \/ answer' = [answer EXCEPT ![exam[p].id][exam[p].question] =
                            [exam[p].answers[exam[p].question] EXCEPT !.given = given]]
    BY <1>11, AnswerSaveIs, NothingGiven
  <2> DEFINE asked == exam[p].question
             row == [exam[p].answers[asked] EXCEPT !.given = given]
  <2>1. ExamEnd(p) /\ UNCHANGED <<attempt, told>> /\ crossed \subseteq crossed'
    BY <1>11 DEF AnswerSave
  <2>2. exam[p].row.status = "in_progress" /\ exam[p].answers[asked].there /\ asked \in Question
    BY <1>1, <1>11 DEF AnswerSave, Aware, FoundSteps, ExamTyped
  <2>3. \A b \in Attempt : answer'[b] = answer[b] \/ (b = a /\ (IsSubmitted(a) => a \in crossed'))
    BY <1>11, <2>2 DEF AnswerSave, Typed
  <2>4. ASSUME NEW b \in Attempt PROVE Spared(b)
    BY <2>1, <2>3 DEF Spared
  <2>5. ASSUME NEW b \in Attempt PROVE Clean(answer'[b])
    <3>1. UNCHANGED answer \/ answer' = [answer EXCEPT ![a] = [answer[a] EXCEPT ![asked] = row]]
      BY <2>0
    <3>2. row.there
      BY <1>1, <2>2 DEF ExamTyped, Answers, AnswerRow
    <3> HIDE DEF row, a, asked
    <3>3. answer[b] \in Answers /\ Clean(answer[b])
      BY DEF Typed, ResultInv
    <3>4. answer'[b] = answer[b] \/ answer'[b] = [answer[b] EXCEPT ![asked] = row]
      BY <3>1 DEF Typed
    <3> QED BY <3>2, <3>3, <3>4 DEF Clean, Answers
  <2> QED BY <1>2, <2>1, <2>4, <2>5, ResultFrame
<1>12. ASSUME NEW left, NextUsage(p, left), UNCHANGED <<attempt, answer, told, crossed>>, exam[p].pc \in FoundSteps
       PROVE  ResultInv'
  <2> PICK step \in {"answersSave", "usageFind"} :
          exam' = [exam EXCEPT ![p] = [exam[p] EXCEPT !.questions = left, !.question = Null, !.usageCount = 0, !.pc = step]]
    BY <1>12 DEF NextUsage
  <2> DEFINE r == [exam[p] EXCEPT !.questions = left, !.question = Null, !.usageCount = 0, !.pc = step]
  <2>1. r.pc = step /\ r.row = exam[p].row
    BY <1>1 DEF ExamTyped
  <2>2. exam[p].row.status = "in_progress"
    BY <1>1, <1>12 DEF Aware
  <2>3. exam' = [exam EXCEPT ![p] = r]
    OBVIOUS
  <2> HIDE DEF r
  <2> QED BY <1>3, <1>12, <2>1, <2>2, <2>3
<1>13. CASE SubmitAssessment(p) \/ UsageUpdate(p)
  BY <1>4, <1>12, <1>13 DEF SubmitAssessment, UsageUpdate, FoundSteps
<1>14. CASE UsageFind(p) /\ ~ExamEnd(p)
  <2> PICK q \in exam[p].questions :
          exam' = [exam EXCEPT ![p].pc = "usageUpdate", ![p].question = q, ![p].usageCount = question[q].usageCount]
    BY <1>14 DEF UsageFind
  <2> DEFINE r == [exam[p] EXCEPT !.pc = "usageUpdate", !.question = q, !.usageCount = question[q].usageCount]
  <2>1. r.pc = "usageUpdate" /\ r.row = exam[p].row
    BY <1>1 DEF ExamTyped
  <2>2. exam[p].row.status = "in_progress" /\ UNCHANGED <<attempt, answer, told, crossed>>
    BY <1>1, <1>14 DEF Aware, FoundSteps, UsageFind
  <2>3. exam' = [exam EXCEPT ![p] = r]
    OBVIOUS
  <2> HIDE DEF r
  <2> QED BY <1>3, <2>1, <2>2, <2>3
<1>15. CASE UsageFind(p) /\ ExamEnd(p)
  BY <1>4, <1>15 DEF UsageFind
<1>16. CASE AnswersSave(p) /\ ExamEnd(p)
  <2>1. UNCHANGED <<attempt, answer, told, crossed>>
    <3>1. exam'[p].pc = "idle"
      BY <1>1, <1>16 DEF ExamEnd, NoExam
    <3>2. ExamTo(p, "attemptSave") => exam'[p].pc = "attemptSave"
      BY <1>1 DEF ExamTo, ExamTyped
    <3> QED BY <1>16, <3>1, <3>2 DEF AnswersSave
  <2> QED BY <1>4, <1>16, <2>1
<1>17. CASE ExamHalt(p)
  BY <1>4, <1>17 DEF ExamHalt
<1> QED BY <1>5, <1>6, <1>7, <1>8, <1>9, <1>10, <1>11, <1>13, <1>14, <1>15, <1>16, <1>17,
           AnswersSaveResult, AttemptSaveResult DEF ExamStep

LEMMA NextResult ==
    ASSUME Typed, ResultInv, [Next]_vars
    PROVE  ResultInv'
<1>1. CASE UNCHANGED <<attempt, answer, exam, told, crossed>>
  BY <1>1, AllSpared, ResultFrame
<1>2. CASE UNCHANGED vars \/ \E a \in Attempt : DeadlinePasses(a)
  BY <1>1, <1>2 DEF vars, DeadlinePasses
<1> QED BY <1>2, EditsResult, ExamRouteResult, ExamStepResult DEF Next, ExamServe, ExamContinue

\* 'Attempt is not in progress', 'Attempt cannot be submitted', 'Attempt has timed out':
\* the result of a submission stands, in the attempt and in its answers, unless an answer,
\* another submission, the timeout or the attempt's own start was on its way at that moment,
\* or a question was deleted.
THEOREM ResultsKept == Spec => []ResultKept
<1>1. Init => Typed /\ ResultInv
  <2>1. ASSUME Init PROVE ResultInv
    <3>1. \A a \in Attempt : told[a].row.status = "none" /\ Clean(answer[a])
      BY <2>1 DEF Init, AttemptInit, NoAttempt, Clean, NoAnswers
    <3>2. \A p \in Proc : Aware(exam[p])
      BY <2>1 DEF Init, AttemptInit, NoExam, Aware, FoundSteps
    <3> QED BY <3>1, <3>2 DEF ResultInv, ResultKept
  <2> QED BY <2>1, InitTyped
<1>2. Typed /\ ResultInv /\ [Next]_vars => Typed' /\ ResultInv'
  BY NextTyped, NextResult
<1>3. ResultInv => ResultKept
  BY DEF ResultInv
<1> QED BY <1>1, <1>2, <1>3, PTL DEF Spec

(***************************************************************************)
(* What an answer belongs to                                               *)
(***************************************************************************)
Belongs == \A a \in Attempt, q \in Question : answer[a][q].there => IsThere(attempt[a]) /\ IsThere(question[q])

\* An attempt and a question that are there stay, and an answer is made where they are.
BelongsKept ==
    /\ \A a \in Attempt : IsThere(attempt[a]) => IsThere(attempt'[a])
    /\ \A q \in Question : IsThere(question[q]) => IsThere(question'[q])
    /\ \A a \in Attempt, q \in Question :
           answer'[a][q].there => answer[a][q].there \/ (IsThere(attempt[a]) /\ IsThere(question[q]))

LEMMA BelongsStep == Belongs /\ BelongsKept => Belongs'
BY DEF Belongs, BelongsKept

LEMMA EditsQuestions ==
    ASSUME Typed, Edits
    PROVE  \A q \in Question : IsThere(question[q]) => question'[q].status # "none"
<1>1. ASSUME UNCHANGED question
      PROVE  \A q \in Question : IsThere(question[q]) => question'[q].status # "none"
  BY <1>1 DEF IsThere
<1>2. PICK p \in Proc : EditServe(p) \/ EditContinue(p)
  BY DEF Edits
<1>3. EditTyped(edit[p]) /\ question \in [Question -> QuestionRow]
  BY DEF Typed, BankTyped
<1>4. CASE EditContinue(p)
  <2>1. CASE QuestionSave(p)
    <3>1. IsThere(edit[p].question) /\ question' = [question EXCEPT ![edit[p].id] = edit[p].question]
      BY <1>3, <2>1 DEF QuestionSave, EditTyped
    <3> QED BY <1>3, <3>1 DEF IsThere
  <2>2. CASE QuestionRemove(p)
    <3>1. question' = [question EXCEPT ![edit[p].id].status = "deleted"]
      BY <2>2 DEF QuestionRemove
    <3> QED BY <1>3, <3>1 DEF IsThere, QuestionRow
  <2>3. CASE ~QuestionSave(p) /\ ~QuestionRemove(p)
    BY <1>1, <1>4, <2>3 DEF EditContinue, CreateAdd, LinkInsert, SumRead, SumWrite, AssessmentSave, AssessmentRemove,
                          EditHalt
  <2> QED BY <2>1, <2>2, <2>3
<1>5. CASE AssessmentRoute(p)
  BY <1>1, <1>5 DEF AssessmentRoute, AssessmentCreate, AddFind, RemoveQuestion, UpdateFind, PublishFind, CloseFind,
                    DeleteFind
<1>6. CASE QuestionRoute(p)
  <2> PICK q \in Question :
          \/ QuestionCreate(q) \/ ReviseFind(p, q) \/ SubmitForReviewFind(p, q)
          \/ ReviewFind(p, q) \/ ArchiveFind(p, q) \/ QuestionDeleteFind(p, q)
    BY <1>6 DEF QuestionRoute
  <2>1. CASE QuestionCreate(q)
    <3>1. PICK content \in Contents[q] :
              question' = [question EXCEPT ![q] = [status |-> "draft", content |-> content, usageCount |-> 0]]
      BY <2>1 DEF QuestionCreate
    <3> QED BY <1>3, <3>1 DEF IsThere
  <2>2. CASE ~QuestionCreate(q)
    BY <1>1, <2>2 DEF ReviseFind, SubmitForReviewFind, ReviewFind, ArchiveFind, QuestionDeleteFind
  <2> QED BY <2>1, <2>2
<1> QED BY <1>2, <1>4, <1>5, <1>6 DEF EditServe

LEMMA EditsBelongs ==
    ASSUME Typed, Belongs, Edits
    PROVE  Belongs'
<1>1. SUFFICES ASSUME NEW a \in Attempt, NEW q \in Question, answer'[a][q].there
               PROVE  IsThere(attempt'[a]) /\ IsThere(question'[q])
  BY DEF Belongs
<1>2. /\ attempt'[a] = IF assessment'.status = "deleted" /\ attempt[a].status # "none"
                       THEN [NoAttempt EXCEPT !.status = "deleted"] ELSE attempt[a]
      /\ answer'[a][q] = IF attempt'[a].status = "deleted" \/ question'[q].status = "deleted"
                         THEN NoRow ELSE answer[a][q]
  BY DEF Edits, Cascade
<1>3. ~NoRow.there /\ [NoAttempt EXCEPT !.status = "deleted"].status = "deleted"
  BY DEF NoRow, NoAttempt
<1>4. attempt'[a] = attempt[a] /\ question'[q].status # "deleted" /\ answer[a][q].there
  BY <1>1, <1>2, <1>3
<1>5. IsThere(attempt[a]) /\ IsThere(question[q])
  BY <1>4 DEF Belongs
<1> QED BY <1>4, <1>5, EditsQuestions DEF IsThere

LEMMA ExamStepBelongs ==
    ASSUME Typed, Belongs, NEW p \in Proc, ExamStep(p)
    PROVE  BelongsKept
<1> DEFINE r == exam[p]
           a == r.id
<1>1. ExamTyped(r)
  BY DEF Typed
<1>2. CASE UNCHANGED <<attempt, answer, question>>
  BY <1>2 DEF BelongsKept
<1>3. CASE StartInsert(p)
  <2>1. UNCHANGED <<answer, question>>
    BY <1>3 DEF StartInsert, bank
  <2>2. \A b \in Attempt : attempt'[b] = attempt[b] \/ attempt[b].status = "none"
    BY <1>3 DEF StartInsert, Typed
  <2> QED BY <2>1, <2>2 DEF BelongsKept, IsThere
<1>4. CASE StartAnswers(p) /\ ~UNCHANGED answer
  <2> DEFINE empty(q) == [NoRow EXCEPT !.there = TRUE, !.requiresManualGrading = IsManual(exam[p].content[q])]
             row == [q \in Question |-> IF q \in exam[p].questions THEN empty(q) ELSE NoRow]
  <2>1. /\ answer' = [answer EXCEPT ![a] = row] /\ UNCHANGED <<attempt, question>>
        /\ IsThere(attempt[a]) /\ \A q \in r.questions : IsThere(question[q])
    BY <1>4 DEF StartAnswers, bank
  <2>2. \A q \in Question : row[q].there => q \in r.questions
    BY DEF NoRow
  <2> HIDE DEF row
  <2>3. \A b \in Attempt : answer'[b] = answer[b] \/ (b = a /\ answer'[b] = row)
    BY <2>1 DEF Typed
  <2> QED BY <2>1, <2>2, <2>3 DEF BelongsKept
<1>5. CASE TimeoutSave(p)
  <2>1. [r.row EXCEPT !.status = "timed_out"].status = "timed_out"
    BY <1>1 DEF ExamTyped, AttemptRow
  <2>2. \A b \in Attempt : attempt'[b] = attempt[b] \/ attempt'[b].status = "timed_out"
    BY <1>5, <2>1 DEF TimeoutSave, Typed
  <2>3. UNCHANGED <<answer, question>>
    BY <1>5 DEF TimeoutSave, bank
  <2> QED BY <2>2, <2>3 DEF BelongsKept, IsThere
<1>6. CASE AnswerSave(p) /\ ~UNCHANGED answer
  <2>0. PICK given \in AllGiven :
            answer' = [answer EXCEPT ![a][r.question] = [r.answers[r.question] EXCEPT !.given = given]]
    BY <1>6, AnswerSaveIs
  <2> DEFINE asked == r.question
             row == [r.answers[asked] EXCEPT !.given = given]
  <2>1. /\ answer' = [answer EXCEPT ![a] = [answer[a] EXCEPT ![asked] = row]] /\ UNCHANGED <<attempt, question>>
        /\ answer[a][asked].there \/ (IsThere(attempt[a]) /\ IsThere(question[asked]))
    BY <1>6, <2>0 DEF AnswerSave, CanSaveAnswer, bank
  <2>2. a \in Attempt /\ answer[a] \in Answers
    BY <1>1, <1>6 DEF AnswerSave, ExamTyped, FoundSteps, Typed
  <2> HIDE DEF row, asked, a
  <2>3. \A b \in Attempt, q \in Question : answer'[b][q] = answer[b][q] \/ (b = a /\ q = asked)
    BY <2>1, <2>2 DEF Typed, Answers
  <2> QED BY <2>1, <2>3 DEF BelongsKept
<1>7. CASE UsageUpdate(p)
  <2>1. UNCHANGED <<attempt, answer>>
    BY <1>7 DEF UsageUpdate
  <2>2. \A q \in Question : question'[q].status = question[q].status
    BY <1>7 DEF UsageUpdate, Typed, BankTyped, QuestionRow
  <2> QED BY <2>1, <2>2 DEF BelongsKept, IsThere
<1>8. CASE AnswersSave(p) /\ ~UNCHANGED answer
  <2> DEFINE row == [q \in Question |-> IF r.answers[q].there THEN Scored(r)[q] ELSE answer[a][q]]
  <2>1. /\ answer' = [answer EXCEPT ![a] = row] /\ UNCHANGED <<attempt, question>>
        /\ \A q \in Question : r.answers[q].there =>
               answer[a][q].there \/ (IsThere(attempt[a]) /\ IsThere(question[q]))
    BY <1>8 DEF AnswersSave, CanSaveAnswer, bank
  <2>2. \A q \in Question : ~r.answers[q].there => row[q] = answer[a][q]
    OBVIOUS
  <2> HIDE DEF row
  <2>3. \A b \in Attempt : answer'[b] = answer[b] \/ (b = a /\ answer'[b] = row)
    BY <2>1 DEF Typed
  <2> QED BY <2>1, <2>2, <2>3 DEF BelongsKept
<1>9. CASE AttemptSave(p)
  <2>1. Submitted(r).status \in {"submitted", "graded"}
    BY <1>1, <1>9, SubmittedTyped DEF AttemptSave, SubmitSteps
  <2>2. \A b \in Attempt : attempt'[b] = attempt[b] \/ attempt'[b].status \in {"submitted", "graded"}
    BY <1>9, <2>1 DEF AttemptSave, Typed
  <2>3. UNCHANGED <<answer, question>>
    BY <1>9 DEF AttemptSave, bank
  <2> QED BY <2>2, <2>3 DEF BelongsKept, IsThere
<1>10. (StartAnswers(p) \/ AnswerSave(p) \/ AnswersSave(p)) /\ UNCHANGED answer => UNCHANGED <<attempt, answer, question>>
  BY DEF StartAnswers, AnswerSave, AnswersSave, bank
<1>11. StartCount(p) \/ StartLook(p) \/ StartQuestions(p) \/ TimeoutFind(p) \/ AnswerFind(p)
       \/ SubmitAssessment(p) \/ UsageFind(p) \/ ExamHalt(p)
       => UNCHANGED <<attempt, answer, question>>
  BY DEF StartCount, StartLook, StartQuestions, TimeoutFind, AnswerFind, SubmitAssessment, UsageFind, ExamHalt, bank
<1> QED BY <1>2, <1>3, <1>4, <1>5, <1>6, <1>7, <1>8, <1>9, <1>10, <1>11 DEF ExamStep

LEMMA NextBelongs ==
    ASSUME Typed, Belongs, [Next]_vars
    PROVE  Belongs'
<1>1. CASE UNCHANGED <<attempt, answer, question>>
  BY <1>1, BelongsStep DEF BelongsKept
<1>2. CASE UNCHANGED vars \/ \E a \in Attempt : DeadlinePasses(a)
  BY <1>1, <1>2 DEF vars, DeadlinePasses, bank
<1>3. ASSUME NEW p \in Proc, ExamRoute(p)
      PROVE  UNCHANGED <<attempt, answer, question>>
  BY <1>3 DEF ExamRoute, StartFind, AnswerBegin, SubmitFind, bank
<1> QED BY <1>1, <1>2, <1>3, EditsBelongs, ExamStepBelongs, BelongsStep DEF Next, ExamServe, ExamContinue

\* The numbers and the history.
Recorded ==
    /\ overdue \subseteq Attempt /\ made \in Nat
    /\ crossed \subseteq Attempt /\ mishap \subseteq {"together", "revived"}

LEMMA NextRecorded ==
    ASSUME Typed, Recorded, [Next]_vars
    PROVE  Recorded'
<1>1. made' \in Nat
  <2>1. \A p \in Proc : EditContinue(p) => UNCHANGED made
    BY DEF EditContinue, CreateAdd, LinkInsert, SumRead, SumWrite, AssessmentSave, AssessmentRemove, QuestionSave,
           QuestionRemove, EditHalt
  <2>2. UNCHANGED made \/ made' = made + 1
    BY <2>1 DEF Next, vars, Edits, EditServe, ExamServe, ExamContinue, DeadlinePasses
  <2> QED BY <2>2 DEF Recorded
<1>2. CASE Edits
  BY <1>1, <1>2 DEF Edits, Cascade, Recorded
<1>3. CASE \E a \in Attempt : DeadlinePasses(a)
  BY <1>1, <1>3 DEF DeadlinePasses, Recorded
<1>4. CASE \E p \in Proc : ExamRoute(p)
  BY <1>1, <1>4 DEF ExamRoute, StartFind, AnswerBegin, SubmitFind, Recorded
<1>5. ASSUME NEW p \in Proc, ExamStep(p)
      PROVE  Recorded'
  <2>1. exam[p].pc \in FoundSteps \cup {"startAnswers"} => exam[p].id \in Attempt
    BY DEF Typed, ExamTyped
  <2>2. UNCHANGED overdue
    BY <1>5 DEF ExamStep, StartCount, StartLook, StartQuestions, StartInsert, StartAnswers, TimeoutFind, TimeoutSave, AnswerFind,
                AnswerSave, SubmitAssessment, UsageFind, UsageUpdate, AnswersSave, AttemptSave, ExamHalt
  <2>3. crossed' = crossed \/ (exam[p].pc \in FoundSteps \cup {"startAnswers"} /\ crossed' = crossed \cup {exam[p].id})
    BY <1>5 DEF ExamStep, StartCount, StartLook, StartQuestions, StartInsert, StartAnswers, TimeoutFind, TimeoutSave, AnswerFind,
                AnswerSave, SubmitAssessment, UsageFind, UsageUpdate, AnswersSave, AttemptSave, ExamHalt, FoundSteps
  <2>4. mishap' = mishap \/ mishap' = mishap \cup {"together"} \/ mishap' = mishap \cup {"revived"}
    BY <1>5 DEF ExamStep, StartCount, StartLook, StartQuestions, StartInsert, StartAnswers, TimeoutFind, TimeoutSave, AnswerFind,
                AnswerSave, SubmitAssessment, UsageFind, UsageUpdate, AnswersSave, AttemptSave, ExamHalt
  <2> QED BY <1>1, <2>1, <2>2, <2>3, <2>4 DEF Recorded
<1>6. CASE UNCHANGED vars
  BY <1>6 DEF vars, Recorded
<1> QED BY <1>2, <1>3, <1>4, <1>5, <1>6 DEF Next, ExamServe, ExamContinue

LEMMA TypedIs == Typed /\ Belongs /\ Recorded => TypeOK
<1> SUFFICES ASSUME Typed, Belongs, Recorded PROVE TypeOK
  OBVIOUS
<1>1. edit \in [Proc -> Edit]
  <2>1. \A p \in Proc : edit[p] \in Edit
    BY DEF Typed, BankTyped, EditTyped, Edit
  <2> QED BY <2>1 DEF Typed, BankTyped
<1>2. exam \in [Proc -> Exam]
  <2>1. \A p \in Proc : exam[p] \in Exam
    BY DEF Typed, ExamTyped, Exam, FoundSteps
  <2> QED BY <2>1 DEF Typed
<1>3. attempt \in [Attempt -> AttemptRow] /\ answer \in [Attempt -> Answers]
  BY DEF Typed
<1>4. \A a \in Attempt, q \in Question :
          answer[a][q].there => IsThere(attempt[a]) /\ question[q].status \notin {"none", "deleted"}
  BY DEF Belongs, IsThere
<1> QED BY <1>1, <1>2, <1>3, <1>4 DEF TypeOK, Typed, BankTyped, Recorded, Told

\* Every variable holds what its row or a request's memory can hold, with numbers of points
\* that are sums, and an answer belongs to an attempt and to a question there is: the
\* foreign keys of attempt_answers.
THEOREM Types == Spec => []TypeOK
<1>1. Init => Typed /\ Belongs /\ Recorded
  <2>1. ASSUME Init PROVE Belongs /\ Recorded
    BY <2>1 DEF Init, BankInit, AttemptInit, Belongs, Recorded, NoAnswers, NoRow
  <2> QED BY <2>1, InitTyped
<1>2. Typed /\ Belongs /\ Recorded /\ [Next]_vars => Typed' /\ Belongs' /\ Recorded'
  BY NextTyped, NextBelongs, NextRecorded
<1> QED BY <1>1, <1>2, TypedIs, PTL DEF Spec

(***************************************************************************)
(* What a submission earns                                                 *)
(***************************************************************************)
LEMMA NextEarned ==
    ASSUME Typed, EarnedWithinPossible, [Next]_vars
    PROVE  EarnedWithinPossible'
<1>1. CASE UNCHANGED told
  BY <1>1 DEF EarnedWithinPossible
<1>2. ASSUME NEW p \in Proc, AttemptSave(p), ~UNCHANGED told
      PROVE  EarnedWithinPossible'
  <2>1. PICK r : r = exam[p]
    OBVIOUS
  <2>2. ExamTyped(r) /\ r.pc \in SubmitSteps
    BY <1>2, <2>1 DEF AttemptSave, SubmitSteps, Typed
  <2>3. told' = [told EXCEPT ![r.id] = [row |-> Submitted(r), answers |-> Scored(r)]]
    BY <1>2, <2>1 DEF AttemptSave
  <2>4. SUFFICES ASSUME NEW a \in Attempt, \A q \in Question : ~SelectsTwice(told'[a].answers[q].given)
                 PROVE  told'[a].row.earnedPoints \in 0..told'[a].row.possiblePoints
    BY DEF EarnedWithinPossible
  <2>5. CASE told'[a] = told[a]
    BY <2>4, <2>5 DEF EarnedWithinPossible
  <2>6. CASE told'[a] # told[a]
    <3>1. told'[a] = [row |-> Submitted(r), answers |-> Scored(r)]
      BY <2>3, <2>6 DEF Typed
    <3>2. told'[a].row = Submitted(r) /\ told'[a].answers = Scored(r)
      BY <3>1
    <3>3. EarnedPoints(r) <= PossiblePoints(r) /\ EarnedPoints(r) \in Nat /\ PossiblePoints(r) \in Nat
      BY <2>2, <2>4, <3>2, SumsTyped
    <3> QED BY <2>2, <3>2, <3>3, SubmittedTyped
  <2> QED BY <2>5, <2>6
<1>3. ASSUME NEW p \in Proc, ExamStep(p), ~AttemptSave(p)
      PROVE  UNCHANGED told
  BY <1>3 DEF ExamStep, StartCount, StartLook, StartQuestions, StartInsert, StartAnswers, TimeoutFind, TimeoutSave, AnswerFind,
              AnswerSave, SubmitAssessment, UsageFind, UsageUpdate, AnswersSave, ExamHalt
<1>4. ASSUME NEW p \in Proc, ExamRoute(p)
      PROVE  UNCHANGED told
  BY <1>4 DEF ExamRoute, StartFind, AnswerBegin, SubmitFind
<1> QED BY <1>1, <1>2, <1>3, <1>4 DEF Next, vars, Edits, DeadlinePasses, ExamServe, ExamContinue

\* "Partial credit: points for each correct, minus for each incorrect" (scoreMultiMCQ): a
\* submission never earns more points than it can, nor less than none, unless an answer
\* selects an option twice.
THEOREM EarnedHolds == Spec => []EarnedWithinPossible
<1>1. Init => EarnedWithinPossible
  BY DEF Init, AttemptInit, EarnedWithinPossible, NoAttempt
<1>2. Typed /\ EarnedWithinPossible /\ [Next]_vars => EarnedWithinPossible'
  BY NextEarned
<1> QED BY <1>1, <1>2, InitTyped, NextTyped, PTL DEF Spec

\* What a student is told of a submission (submitAttempt) is what the questions allow, and
\* it stays so, each unless one of the ways to lose it has happened.
THEOREM ResultHolds == Spec => []ResultStands
<1>1. ResultKept /\ EarnedWithinPossible => ResultStands
  BY DEF ResultStands
<1> QED BY <1>1, ResultsKept, EarnedHolds, PTL
=============================================================================
