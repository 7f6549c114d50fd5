------------------------- MODULE DetectorBenchmark -------------------------
(***************************************************************************)
(* The evaluation of the detectors: every detector judges every pair of    *)
(* every scenario, in one of the two orders of the scripts, and is scored  *)
(* by the judgments' places in a list; the scores are then resampled.      *)
(*                                                                         *)
(* run_full_benchmark lets all detectors judge the pairs of a scenario     *)
(* before it goes on to the next; run_pilot, analyze_rq2_f1_drift and      *)
(* run_balanced_detector_benchmark let a detector judge all pairs first,   *)
(* as if they were those of a single scenario.                             *)
(***************************************************************************)
EXTENDS Detectors

CONSTANTS
    Workloads,      \* sequences of scenarios, each the sequence of its pairs
    Resamples       \* bound: resamples of a bootstrap (2000 in the code)

ConflictPairs == UNION {UNION {Range(s) : s \in Range(w)} : w \in Workloads}

\* A pair is told from all others by the ids of its facts, whatever its values.
ASSUME WorkloadsAssumption ==
    /\ \A p \in ConflictPairs :
           /\ p.is_conflict \in BOOLEAN
           /\ Similarity[<<p.a, p.b>>] \in Int \cup {NaN}
           /\ Contradiction[<<p.a, p.b>>] \in Int
    /\ \A w \in Workloads :
           /\ w \in Seq(Seq(ConflictPairs))
           /\ IsInjective(FlattenSeq(w))
    /\ Resamples \in Nat

VARIABLES
    batches,        \* the pairs, in the lists they are judged by
    batch,          \* the list that is judged
    detector, next, \* the detector that judges, and the pair it judges next
    all_pairs,      \* the pairs of the lists so far
    judgments,      \* of each detector, its judgments so far
    scores,         \* of each detector, its scores
    resampled,      \* resamples so far
    f1s, gaps,      \* F1s, and their gaps to the judge's, of the resamples
    intervals, gapIntervals,
    phase

evalVars == <<batches, batch, detector, next, all_pairs, judgments, scores, resampled, f1s,
              gaps, intervals, gapIntervals, phase>>

\* build_detectors, in the order of the dictionary.
DetectorNames == <<"embedding_threshold", "nli", "llm_judge">>
Names == Range(DetectorNames)
Local == Names \ {"llm_judge"}

EvalInit ==
    /\ \E w \in Workloads : batches \in {w, <<FlattenSeq(w)>>}
    /\ batch = 0 /\ detector = Len(DetectorNames) /\ next = 1
    /\ all_pairs = <<>>
    /\ judgments = [d \in Names |-> <<>>]
    /\ scores = <<>>
    /\ resampled = 0 /\ f1s = [d \in Names |-> <<>>] /\ gaps = [d \in Local |-> <<>>]
    /\ intervals = <<>> /\ gapIntervals = <<>>
    /\ phase = "judging"

Pairs == IF batch = 0 THEN <<>> ELSE batches[batch]

NextScenario ==
    /\ phase = "judging" /\ detector = Len(DetectorNames) /\ next > Len(Pairs)
    /\ batch < Len(batches)
    /\ batch' = batch + 1 /\ detector' = 1 /\ next' = 1
    /\ all_pairs' = all_pairs \o batches[batch + 1]
    /\ UNCHANGED <<batches, judgments, scores, resampled, f1s, gaps, intervals, gapIntervals, phase>>

NextDetector ==
    /\ phase = "judging" /\ detector < Len(DetectorNames) /\ next > Len(Pairs)
    /\ detector' = detector + 1 /\ next' = 1
    /\ UNCHANGED <<batches, batch, all_pairs, judgments, scores, resampled, f1s, gaps,
                   intervals, gapIntervals, phase>>

\* A local detector judges by its model, the judge by what it is answered.
Judgments(d, pair) ==
    CASE d = "embedding_threshold" -> {EmbeddingDetect(pair)}
      [] d = "nli" -> {NLIDetect(pair)}
      [] d = "llm_judge" -> {JudgeDetect(pair, reply) : reply \in JudgeReplies}

\* Mutant of Judge: the pairs are taken from those of all scenarios so far.
JudgeFromAllPairs ==
    /\ phase = "judging" /\ next <= Len(Pairs)
    /\ \E j \in Judgments(DetectorNames[detector], all_pairs[next]) :
           judgments' = [judgments EXCEPT ![DetectorNames[detector]] = Append(@, j)]
    /\ next' = next + 1
    /\ UNCHANGED <<batches, batch, detector, all_pairs, scores, resampled, f1s, gaps,
                   intervals, gapIntervals, phase>>

Judge ==
    /\ phase = "judging" /\ next <= Len(Pairs)
    /\ \E j \in Judgments(DetectorNames[detector], Pairs[next]) :
           judgments' = [judgments EXCEPT ![DetectorNames[detector]] = Append(@, j)]
    /\ next' = next + 1
    /\ UNCHANGED <<batches, batch, detector, all_pairs, scores, resampled, f1s, gaps,
                   intervals, gapIntervals, phase>>

\* The scores of each detector; score_detector's are a part of full_metrics'.
Score ==
    /\ phase = "judging" /\ batch = Len(batches)
    /\ detector = Len(DetectorNames) /\ next > Len(Pairs)
    /\ scores' = [d \in Names |-> FullMetrics(all_pairs, judgments[d])]
    /\ phase' = "resampling"
    /\ UNCHANGED <<batches, batch, detector, next, all_pairs, judgments, resampled, f1s,
                   gaps, intervals, gapIntervals>>

AbsoluteGap(x, y) ==
    LET n == x[1] * y[2] - y[1] * x[2] IN <<IF n < 0 THEN -n ELSE n, x[2] * y[2]>>

\* One resample of the pairs.  All bootstraps start from the same seed: they draw
\* the same pairs for every detector.
Resample ==
    /\ phase = "resampling" /\ resampled < Resamples
    /\ resampled' = resampled + 1
    /\ \E draw \in [DOMAIN all_pairs -> DOMAIN all_pairs] :
           LET pairs == [n \in DOMAIN draw |-> all_pairs[draw[n]]]
               f1 == [d \in Names |->
                   ScoreDetector(pairs, [n \in DOMAIN draw |-> judgments[d][draw[n]]]).f1]
           IN /\ f1s' = [d \in Names |->
                     IF f1[d] = NaN THEN f1s[d] ELSE Append(f1s[d], f1[d])]
              /\ gaps' = [d \in Local |->
                     IF NaN \in {f1[d], f1["llm_judge"]} THEN gaps[d]
                     ELSE Append(gaps[d], AbsoluteGap(f1[d], f1["llm_judge"]))]
    /\ UNCHANGED <<batches, batch, detector, next, all_pairs, judgments, scores,
                   intervals, gapIntervals, phase>>

\* The intervals; an empty list has no first element, and the script ends.
Intervals ==
    /\ phase = "resampling" /\ resampled = Resamples
    /\ IF <<>> \in Range(f1s) \cup Range(gaps)
       THEN phase' = "raised" /\ UNCHANGED <<intervals, gapIntervals>>
       ELSE /\ phase' = "done"
            /\ intervals' = [d \in Names |-> BootstrapInterval(f1s[d])]
            /\ gapIntervals' = [d \in Local |-> BootstrapInterval(gaps[d])]
    /\ UNCHANGED <<batches, batch, detector, next, all_pairs, judgments, scores, resampled,
                   f1s, gaps>>

EvalNext ==
    NextScenario \/ NextDetector \/ Judge \/ Score \/ Resample \/ Intervals

EvalSpec == EvalInit /\ [][EvalNext]_evalVars

-----------------------------------------------------------------------------

\* Every judgment is in the place of its pair, in either order of the loops:
\* score_detector has nothing else to pair them by.
JudgedInOrder ==
    /\ \A d \in Names : \A n \in DOMAIN judgments[d] : judgments[d][n].of = all_pairs[n]
    /\ phase # "judging" =>
           \A d \in Names : Len(judgments[d]) = Len(all_pairs)
                                /\ all_pairs = FlattenSeq(batches)

\* The scores are what information retrieval calls by their names, taken from
\* the sets of conflicts and of pairs judged to be conflicts.  Where no conflict
\* was found there is no F1; where all pairs are conflicts, as in the pilot and
\* the locked run, precision says nothing: it is 1 for every detector.
ScoresAreReference ==
    phase # "judging" => \A d \in Names :
        LET conflicts == {n \in DOMAIN all_pairs : all_pairs[n].is_conflict}
            found == {n \in DOMAIN all_pairs :
                          \E j \in Range(judgments[d]) : j.of = all_pairs[n] /\ j.is_conflict}
            both == Cardinality(conflicts \cap found)
        IN /\ SameRatio(scores[d].precision, Ratio(both, Cardinality(found)))
           /\ SameRatio(scores[d].recall, Ratio(both, Cardinality(conflicts)))
           /\ SameRatio(scores[d].f1, IF both = 0 THEN NaN
                  ELSE Ratio(2 * both, Cardinality(conflicts) + Cardinality(found)))
           /\ SameRatio(scores[d].false_positive_rate,
                  Ratio(Cardinality(found \ conflicts), Len(all_pairs) - Cardinality(conflicts)))
           /\ (conflicts = DOMAIN all_pairs /\ found # {}) =>
                  SameRatio(scores[d].precision, <<1, 1>>)

\* The AUROC that _auroc gets from ranks is the share of the pairs of a conflict
\* and a non-conflict in which the conflict has the higher score, a tie counting
\* for a half.
AurocCountsPairs ==
    phase # "judging" => \A d \in Names :
        LET Label(n) == all_pairs[n].is_conflict
            S(n) == judgments[d][n].score
            opposed == {x \in (DOMAIN all_pairs) \X (DOMAIN all_pairs) : Label(x[1]) /\ ~Label(x[2])}
            wins == Cardinality({x \in opposed : S(x[1]) > S(x[2])})
            ties == Cardinality({x \in opposed : S(x[1]) = S(x[2])})
        IN SameRatio(scores[d].auroc, Ratio(2 * wins + ties, 2 * Cardinality(opposed)))

\* analyze_rq2_f1_drift ends without intervals only if some list it takes a
\* percentile of is empty, as no resample had a conflict found by the detector,
\* or by it and by the judge; otherwise the ends of every interval are in order,
\* and within what the resamples gave.
IntervalSound ==
    /\ phase = "raised" => \/ \E d \in Names : f1s[d] = <<>>
                           \/ \E d \in Local : gaps[d] = <<>>
    /\ phase = "done" =>
           \A x \in {<<intervals[d], f1s[d]>> : d \in Names}
                        \cup {<<gapIntervals[d], gaps[d]>> : d \in Local} :
               /\ {x[1][1], x[1][2]} \subseteq Range(x[2])
               /\ AtMostRatio(x[1][1], x[1][2])

\* A detector that separates the conflicts from the other pairs without an error
\* has an AUROC of 1.
PerfectSeparationIsOne ==
    phase # "judging" => \A d \in Names :
        (/\ {all_pairs[n].is_conflict : n \in DOMAIN all_pairs} = BOOLEAN
         /\ \A n \in DOMAIN all_pairs : judgments[d][n].is_conflict = all_pairs[n].is_conflict)
            => SameRatio(scores[d].auroc, <<1, 1>>)
=============================================================================
