----------------------------- MODULE Detectors -----------------------------
(***************************************************************************)
(* The conflict detectors and the functions that score them.  Similarities *)
(* and probabilities are percentages, given by two tables for the models   *)
(* that are behind the detectors; ratios are fractions.                    *)
(***************************************************************************)
EXTENDS Integers, SequencesExt

CONSTANTS
    NaN,
    Similarity,          \* cosine of two values' embeddings, NaN if one is zero
    Contradiction,       \* probability that the first value contradicts the second
    EmbeddingThreshold, ContradictionThreshold

ASSUME DetectorsAssumption ==
    /\ NaN \notin Int \X Int
    /\ EmbeddingThreshold \in Int /\ ContradictionThreshold \in Int

-----------------------------------------------------------------------------
(* Detectors.  A judgment keeps the pair it is about, which the code does   *)
(* not: it goes by the place in the list alone.                             *)

ConflictJudgment(pair, is_conflict, score) ==
    [of |-> pair, is_conflict |-> is_conflict, score |-> score]

Cosine(pair) ==
    IF Similarity[<<pair.a, pair.b>>] = NaN THEN 0 ELSE Similarity[<<pair.a, pair.b>>]

\* The score is the similarity: the lower, the more of a conflict.
EmbeddingDetect(pair) ==
    ConflictJudgment(pair, Cosine(pair) < EmbeddingThreshold, Cosine(pair))

NLIDetect(pair) ==
    ConflictJudgment(pair, Contradiction[<<pair.a, pair.b>>] >= ContradictionThreshold,
                     Contradiction[<<pair.a, pair.b>>])

\* What a judge's reply may hold between its first "{" and its last "}": no JSON
\* object, one without is_conflict, or one with a value for it.
JudgeReplies == {"no object", "no verdict", "true", "false", "\"false\"", "null"}

\* bool() of the verdict: any string that is not empty is true.
ParseResponse(reply) == reply \in {"true", "\"false\""}

JudgeDetect(pair, reply) ==
    ConflictJudgment(pair, ParseResponse(reply), IF ParseResponse(reply) THEN 100 ELSE 0)

-----------------------------------------------------------------------------
(* Scores.                                                                  *)

Ratio(n, d) == IF d = 0 THEN NaN ELSE <<n, d>>
SameRatio(x, y) ==
    \/ x = NaN /\ y = NaN
    \/ x # NaN /\ y # NaN /\ x[1] * y[2] = y[1] * x[2]
AtMostRatio(x, y) == x[1] * y[2] <= y[1] * x[2]

\* 2 p r / (p + r), NaN if either is NaN or both are zero.
HarmonicMean(p, r) ==
    IF p = NaN \/ r = NaN THEN NaN
    ELSE Ratio(2 * p[1] * r[1], p[1] * r[2] + r[1] * p[2])

\* Mutant of ScoreDetector: the two kinds of errors are exchanged.
ScoreSwapped(pairs, judgments) ==
    LET Count(p, j) == Cardinality({n \in DOMAIN pairs :
                           pairs[n].is_conflict = p /\ judgments[n].is_conflict = j})
        precision == Ratio(Count(TRUE, TRUE), Count(TRUE, TRUE) + Count(TRUE, FALSE))
        recall == Ratio(Count(TRUE, TRUE), Count(TRUE, TRUE) + Count(FALSE, TRUE))
    IN [precision |-> precision, recall |-> recall, f1 |-> HarmonicMean(precision, recall)]

\* zip(pairs, judgments): the n-th judgment is taken for the n-th pair.
ScoreDetector(pairs, judgments) ==
    LET zipped == DOMAIN pairs \cap DOMAIN judgments
        Count(p, j) == Cardinality({n \in zipped :
                           pairs[n].is_conflict = p /\ judgments[n].is_conflict = j})
        tp == Count(TRUE, TRUE)
        precision == Ratio(tp, tp + Count(FALSE, TRUE))
        recall == Ratio(tp, tp + Count(TRUE, FALSE))
    IN [precision |-> precision, recall |-> recall, f1 |-> HarmonicMean(precision, recall)]

\* What sorted() puts at a place, from 1.
SortedAt(list, place, AtMost(_, _)) ==
    CHOOSE x \in Range(list) :
        /\ Cardinality({n \in DOMAIN list : ~AtMost(x, list[n])}) < place
        /\ place <= Cardinality({n \in DOMAIN list : AtMost(list[n], x)})

ScoreAt(scores, place) == SortedAt(scores, place, <=)
RatioAt(ratios, place) == SortedAt(ratios, place, AtMostRatio)

\* Mutant of Ranks: tied scores all get the first of their ranks.
RanksOfFirst(scores) ==
    [s \in Range(scores) |-> 2 * (Cardinality({n \in DOMAIN scores : scores[n] < s}) + 1)]

\* Twice the average rank of every score: the first and the last place of the
\* group of scores that are equal to it.
Ranks(scores) ==
    LET all_scores == [k \in DOMAIN scores |-> ScoreAt(scores, k)]
        Group(s) == {k \in DOMAIN scores : all_scores[k] = s}
    IN [s \in Range(scores) |-> Min(Group(s)) + Max(Group(s))]

\* _auroc: the Mann-Whitney U of the scores of conflicts, by their ranks.
Auroc(labels, scores) ==
    LET pos == {n \in DOMAIN labels : labels[n]}
        neg == DOMAIN labels \ pos
        ranks == Ranks(scores)
        twiceU == FoldSet(LAMBDA n, sum : sum + ranks[scores[n]], 0, pos)
                      - Cardinality(pos) * (Cardinality(pos) + 1)
    IN Ratio(twiceU, 2 * Cardinality(pos) * Cardinality(neg))

\* full_metrics, which counts as score_detector does.
FullMetrics(pairs, judgments) ==
    LET labels == [n \in DOMAIN pairs |-> pairs[n].is_conflict]
        alarms == {n \in DOMAIN pairs : ~labels[n] /\ judgments[n].is_conflict}
        negatives == {n \in DOMAIN pairs : ~labels[n]}
        counted == ScoreDetector(pairs, judgments)
    IN [precision |-> counted.precision, recall |-> counted.recall, f1 |-> counted.f1,
        specificity |-> Ratio(Cardinality(negatives \ alarms), Cardinality(negatives)),
        false_positive_rate |-> Ratio(Cardinality(alarms), Cardinality(negatives)),
        auroc |-> Auroc(labels, [n \in DOMAIN pairs |-> judgments[n].score])]

-----------------------------------------------------------------------------
(* Bootstrap intervals: the percentiles 2.5 and 97.5 of what the resamples  *)
(* gave, by their places in the sorted list.                                *)

\* The place, from 1, of a subscript of Python, which counts from the end if it
\* is negative.
Place(list, i) == IF i < 0 THEN Len(list) + i + 1 ELSE i + 1
LowPlace(list) == Place(list, (25 * Len(list)) \div 1000)
HighPlace(list) == Place(list, (975 * Len(list)) \div 1000 - 1)

\* Mutant of BootstrapInterval: the list is not sorted.
IntervalUnsorted(list) == <<list[LowPlace(list)], list[HighPlace(list)]>>

BootstrapInterval(list) == <<RatioAt(list, LowPlace(list)), RatioAt(list, HighPlace(list))>>
=============================================================================
