---------------------------- MODULE MCDetectors ----------------------------
(***************************************************************************)
(* Three values: v2 is a paraphrase of v1, v3 says something else and its  *)
(* embedding against v2 is taken as zero.  The pairs are conflicts and     *)
(* others, judged rightly and wrongly by each of the local detectors, with *)
(* scores that tie.                                                        *)
(***************************************************************************)
EXTENDS DetectorBenchmark

CONSTANTS v1, v2, v3

Table(t) == [x \in {v1, v2, v3} \X {v1, v2, v3} |->
                IF x \in DOMAIN t THEN t[x] ELSE IF x[1] = x[2] THEN 100 ELSE 0]
MCSimilarity == Table(<<v1, v2>> :> 85 @@ <<v2, v1>> :> 85 @@ <<v1, v3>> :> 40
                          @@ <<v3, v1>> :> 40 @@ <<v2, v3>> :> NaN @@ <<v3, v2>> :> NaN)
MCContradiction == Table(<<v1, v2>> :> 10 @@ <<v1, v3>> :> 90 @@ <<v2, v3>> :> 20
                             @@ <<v1, v1>> :> 0 @@ <<v2, v2>> :> 10 @@ <<v3, v3>> :> 20)

P(id, x, y, c) == [ids |-> id, a |-> x, b |-> y, is_conflict |-> c]

\* Three pairs in two scenarios, with every assignment of conflicts to them.
Labelled(x, y, z) ==
    {<<<<P(1, x[1], x[2], c[1]), P(2, y[1], y[2], c[2])>>, <<P(3, z[1], z[2], c[3])>>>> :
         c \in [1..3 -> BOOLEAN]}

\* No scenario; one without a pair; no conflict, and the same values twice;
\* three scenarios.
MCWorkloads ==
    {<<>>, <<<<>>, <<P(1, v1, v3, TRUE)>>>>,
     <<<<P(1, v2, v1, FALSE), P(2, v2, v1, FALSE)>>>>, <<<<P(1, v2, v1, FALSE), P(2, v3, v3, FALSE)>>>>,
     <<<<P(1, v1, v1, FALSE)>>, <<P(2, v1, v2, TRUE)>>, <<P(3, v1, v3, FALSE)>>>>}
        \cup Labelled(<<v1, v3>>, <<v1, v2>>, <<v2, v3>>)
        \cup Labelled(<<v1, v1>>, <<v2, v3>>, <<v3, v2>>)
=============================================================================
