------------------------------ MODULE Scoring ------------------------------
(***************************************************************************)
(* From a scenario and a MergeResult to the numbers that are published:    *)
(* generate_downstream_questions, score_downstream and                     *)
(* compute_abstention_metrics.  Rates are left as pairs of counts.         *)
(***************************************************************************)
EXTENDS MergeBase, FiniteSets

\* DownstreamQuestion.  from is what it was derived from: the pair of the key,
\* or the branch that alone holds it; it tells two questions on one key apart.
Question(k, expected, category, from) ==
    [key |-> k, expected |-> expected, category |-> category, from |-> from]

PairQuestions(pairs) ==
    {Question(pairs[n].key, pairs[n].gt,
              IF pairs[n].type = None THEN "resolvable" ELSE pairs[n].type, "pair") :
        n \in DOMAIN pairs}

\* Mutant of BranchQuestions: keys that have a pair are not left out.
BranchQuestionsAndPairs(sc, pairs, side) ==
    LET facts == IF side = "a" THEN sc.a ELSE sc.b IN
    {Question(k, CurrentFact(facts, k).value, "orthogonal", side) :
        k \in KeysOf(facts) \ KeysOf(sc.root)}

BranchQuestions(sc, pairs, side) ==
    LET facts == IF side = "a" THEN sc.a ELSE sc.b
        asked == {pairs[n].key : n \in DOMAIN pairs} \cup KeysOf(sc.root)
    IN {Question(k, CurrentFact(facts, k).value, "orthogonal", side) :
           k \in KeysOf(facts) \ asked}

Questions(sc, pairs) ==
    PairQuestions(pairs) \cup BranchQuestions(sc, pairs, "a") \cup BranchQuestions(sc, pairs, "b")

\* score_downstream reads the result into a dict: of the entries for a key
\* that are not dropped, the last one counts; None if there is none.
Got(result, k) ==
    LET entries == Survivors(result, k) IN
    IF entries = {} THEN [value |-> None, resolution |-> None]
    ELSE LET last == CHOOSE n \in entries : \A m \in entries : m <= n
         IN [value |-> result[last].fact.value, resolution |-> result[last].resolution]

Flagged(q, result) == Got(result, q.key).resolution = "flagged_unresolved"

\* Mutant of Correct: an expected None is compared like a value.
CorrectByValue(q, result) == Got(result, q.key).value = q.expected

Correct(q, result) ==
    IF q.expected = None THEN Flagged(q, result)
    ELSE Got(result, q.key).value = q.expected /\ ~Flagged(q, result)

\* DownstreamScore of one category, or of several.
InCategory(questions, categories) == {q \in questions : q.category \in categories}
Score(questions, categories, result) ==
    [correct |-> Cardinality({q \in InCategory(questions, categories) : Correct(q, result)}),
     total |-> Cardinality(InCategory(questions, categories))]

\* Mutant of InScope: orthogonal questions count.
EveryCategory == {"orthogonal", "resolvable", "ambiguous"}

\* AbstentionMetrics, over the categories in which there is something to flag.
InScope == {"resolvable", "ambiguous"}
Abstention(questions, result) ==
    LET rows == InCategory(questions, InScope)
        committed == {q \in rows : ~Flagged(q, result)}
        right == {q \in committed : Correct(q, result)}
        ambiguous == InCategory(questions, {"ambiguous"})
    IN [questions |-> Cardinality(rows),
        committed |-> Cardinality(committed),
        flagged |-> Cardinality(rows) - Cardinality(committed),
        correct_committed |-> Cardinality(right),
        wrong_committed |-> Cardinality(committed) - Cardinality(right),
        ambiguous |-> Cardinality(ambiguous),
        ambiguous_flagged |-> Cardinality({q \in ambiguous : Flagged(q, result)}),
        others_flagged |-> Cardinality({q \in rows \ ambiguous : Flagged(q, result)})]
=============================================================================
