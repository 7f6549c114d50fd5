-------------------------- MODULE EvaluationProofs --------------------------
(* What the scripts evaluate.                                               *)
(*                                                                          *)
(* Experiments: any number of runs, with any number of faults: results can  *)
(* be computed again, replays are free, inputs are checked first, and no    *)
(* result is written past a file that could not be read.                    *)
(*                                                                          *)
(* DetectorBenchmark: any workloads and any number of resamples: judgments  *)
(* are in the places of their pairs, scores are what they are called, the   *)
(* AUROC counts pairs, and the intervals are in order.                      *)
EXTENDS Experiments, DetectorBenchmark, FiniteSetTheorems, WellFoundedInduction, TLAPS

-----------------------------------------------------------------------------
(* Programs.  A program is a concatenation of pieces, each of operations of *)
(* one phase; the phases follow one another.                                *)

Reads == {"check", "copy", "copy_if_there"}
Asks == {"ask", "repeat"}
Writes == {"truncate", "write"}

IsList(p) == p \in Seq(Range(p))

\* The scripts that read their input after they have asked.
Late == {"compute_abstention_report", "run_cross_vendor_rq1"}

Phase(s, do) ==
    IF do \in Writes THEN 4
    ELSE IF do = "census" THEN 3
    ELSE IF do \in Asks THEN 2
    ELSE IF s \in Late THEN 3 ELSE 1

\* The files that some script copies numbers from, and who writes them.
CopiedFiles == Supplied \cup {"results.json", "results.csv", "abstention_metrics_report.json"}
Producer(f) ==
    IF f \in {"results.json", "results.csv"} THEN "run_experiment" ELSE "compute_abstention_report"

\* What the pilot asks again past the cache.
Repeated == {Question(nano, 1024, who, VarianceSet[1]) : who \in {"three_way_llm", "llm_judge"}}

\* What an operation of script s may be.
Allowed(s, o) ==
    /\ o.do \in {"copy", "copy_if_there"} => o.file \in CopiedFiles
    /\ o.do = "check" => o.file = "results.json"
    /\ o.do = "write" /\ o.file \in CopiedFiles => o.file \notin Supplied /\ s = Producer(o.file)
    /\ o.do = "repeat" => s = "run_pilot" /\ o.q \in Repeated
    /\ o.do = "census" => s = "run_pilot"

\* p is a piece of the program of s, of the phases from a to b, in their order.
Shaped(s, p, a, b) ==
    /\ IsList(p)
    /\ \A n \in DOMAIN p : Allowed(s, p[n]) /\ Phase(s, p[n].do) \in a..b
    /\ \A m, n \in DOMAIN p : m < n => Phase(s, p[m].do) <= Phase(s, p[n].do)

QuestionsOf(model, tokens, X, Y) ==
    UNION {{Question(model, tokens, Y[m], X[n]) : m \in DOMAIN Y} : n \in DOMAIN X}

\* What a program asks.
AskedIn(p) == {o.q : o \in {o \in Range(p) : o.do = "ask"}}
AskedInEither(p, q) == AskedIn(p) \cup AskedIn(q)

LEMMA ListOf == \A S : \A p \in Seq(S) : IsList(p)
BY DEF IsList, Range

LEMMA Lists ==
    /\ \A x : IsList(<<x>>) /\ Len(<<x>>) = 1 /\ DOMAIN <<x>> = {1} /\ <<x>>[1] = x
    /\ \A x, y : IsList(<<x, y>>) /\ Len(<<x, y>>) = 2 /\ DOMAIN <<x, y>> = {1, 2}
                /\ <<x, y>>[1] = x /\ <<x, y>>[2] = y
    /\ \A x, y, z : IsList(<<x, y, z>>)
BY DEF IsList, Range

LEMMA Two == \A x, y : <<x, y>> = <<x>> \o <<y>>
<1> SUFFICES ASSUME NEW x, NEW y PROVE <<x, y>> = <<x>> \o <<y>>
  OBVIOUS
<1> DEFINE p == <<x>>
           q == <<y>>
           r == <<x, y>>
<1>1. p \in Seq({x, y}) /\ q \in Seq({x, y}) /\ Len(p) = 1 /\ Len(q) = 1 /\ p[1] = x /\ q[1] = y
  OBVIOUS
<1>2. r \in Seq({x, y}) /\ Len(r) = 2 /\ r[1] = x /\ r[2] = y
  OBVIOUS
<1> HIDE DEF p, q, r
<1> DEFINE S == {x, y}
<1>5. /\ p \in Seq(S) /\ q \in Seq(S) /\ Len(p) = 1 /\ Len(q) = 1 /\ p[1] = x /\ q[1] = y
      /\ r \in Seq(S) /\ Len(r) = 2 /\ r[1] = x /\ r[2] = y
  BY <1>1, <1>2
<1> HIDE DEF S
<1>6. p \in Seq(S) /\ q \in Seq(S)
  BY <1>5
<1>7. /\ p \o q \in Seq(S) /\ Len(p \o q) = Len(p) + Len(q)
      /\ \A n \in 1..Len(p) : (p \o q)[n] = p[n]
      /\ \A n \in 1..Len(q) : (p \o q)[n + Len(p)] = q[n]
  BY <1>6
<1>3. p \o q \in Seq(S) /\ Len(p \o q) = 2 /\ (p \o q)[1] = x /\ (p \o q)[2] = y
  <2>1. Len(p) + Len(q) = 2 /\ 1 \in 1..Len(p) /\ 1 \in 1..Len(q) /\ 1 + Len(p) = 2
    BY <1>5
  <2> QED
    BY <1>5, <1>7, <2>1
<1>4. r = p \o q
  BY <1>5, <1>3
<1> QED
  BY <1>4 DEF p, q, r

LEMMA OneOrTwo ==
    ASSUME NEW S, NEW p \in Seq(Seq(S)), Len(p) \in {1, 2}
    PROVE  FlattenSeq(p) = IF Len(p) = 1 THEN p[1] ELSE p[1] \o p[2]
<1> DEFINE Step(g) == [n \in 1..Len(p) |-> IF n = 1 THEN p[n] ELSE g[n - 1] \o p[n]]
           flat == [n \in 1..Len(p) |-> IF n = 1 THEN p[n] ELSE p[1] \o p[2]]
           f == CHOOSE g : g = Step(g)
<1>1. ASSUME NEW n \in 1..Len(p) PROVE n = 1 \/ (n = 2 /\ n - 1 = 1 /\ 1 \in 1..Len(p))
  <2>1. CASE Len(p) = 1
    BY <2>1
  <2>2. CASE Len(p) = 2
    BY <2>2
  <2> QED
    BY <2>1, <2>2
<1>2. flat = Step(flat)
  <2>1. \A n \in 1..Len(p) : flat[n] = Step(flat)[n]
    BY <1>1
  <2> QED
    BY <2>1
<1>3. f = Step(f)
  BY <1>2
<1>4. FlattenSeq(p) = f[Len(p)]
  BY DEF FlattenSeq
<1> HIDE DEF f
<1>5. \A n \in 1..Len(p) : f[n] = IF n = 1 THEN p[n] ELSE f[n - 1] \o p[n]
  BY <1>3
<1> HIDE DEF Step, flat
<1>6. f[1] = p[1]
  BY <1>5
<1>7. Len(p) = 2 => f[2] = f[1] \o p[2]
  <2> SUFFICES ASSUME Len(p) = 2 PROVE f[2] = f[1] \o p[2]
    OBVIOUS
  <2>1. 2 \in 1..Len(p) /\ 2 - 1 = 1 /\ 2 # 1
    OBVIOUS
  <2> QED
    BY <1>5, <2>1
<1> QED
  BY <1>4, <1>6, <1>7

LEMMA Joined ==
    ASSUME NEW s, NEW p, NEW q,
           NEW a \in Nat, NEW b \in Nat, NEW c \in Nat, NEW d \in Nat, a <= b, b <= c, c <= d,
           Shaped(s, p, a, b), Shaped(s, q, c, d)
    PROVE  Shaped(s, p \o q, a, d)
<1> DEFINE r == p \o q
<1> DEFINE S == Range(p) \cup Range(q)
<1>1. p \in Seq(S) /\ q \in Seq(S)
  <2>1. p \in Seq(Range(p)) /\ q \in Seq(Range(q))
    BY DEF Shaped, IsList
  <2> QED
    BY <2>1
<1> HIDE DEF S
<1>2. /\ r \in Seq(S) /\ Len(r) = Len(p) + Len(q)
      /\ Len(p) \in Nat /\ Len(q) \in Nat
      /\ DOMAIN p = 1..Len(p) /\ DOMAIN q = 1..Len(q) /\ DOMAIN r = 1..Len(r)
  BY <1>1
<1>3. \A n \in DOMAIN p : n \in DOMAIN r /\ r[n] = p[n]
  BY <1>1, <1>2
<1>4. \A n \in DOMAIN q : n + Len(p) \in DOMAIN r /\ r[n + Len(p)] = q[n]
  BY <1>1, <1>2
<1>5. \A n \in DOMAIN r :
          n \in DOMAIN p \/ (n > Len(p) /\ n - Len(p) \in DOMAIN q /\ r[n] = q[n - Len(p)])
  BY <1>1, <1>2
<1> HIDE DEF r
<1>6. \A n \in DOMAIN r : Allowed(s, r[n]) /\ Phase(s, r[n].do) \in a..d
  <2>1. \A n \in DOMAIN p : Allowed(s, p[n]) /\ Phase(s, p[n].do) \in a..b
    BY DEF Shaped
  <2>2. \A n \in DOMAIN q : Allowed(s, q[n]) /\ Phase(s, q[n].do) \in c..d
    BY DEF Shaped
  <2>3. a..b \subseteq a..d /\ c..d \subseteq a..d
    OBVIOUS
  <2> QED
    BY <1>3, <1>5, <2>1, <2>2, <2>3
<1>7. ASSUME NEW m \in DOMAIN r, NEW n \in DOMAIN r, m < n
      PROVE  Phase(s, r[m].do) <= Phase(s, r[n].do)
  <2> DEFINE R(x) == Phase(s, r[x].do)
             P(x) == Phase(s, p[x].do)
             Q(x) == Phase(s, q[x].do)
  <2>1. \A x \in DOMAIN p : R(x) = P(x) /\ P(x) \in a..b
    BY <1>3 DEF Shaped
  <2>2. \A x \in DOMAIN q : Q(x) \in c..d
    BY DEF Shaped
  <2>3. \A x \in DOMAIN r : x \in DOMAIN p \/ (x > Len(p) /\ x - Len(p) \in DOMAIN q /\ R(x) = Q(x - Len(p)))
    BY <1>5
  <2>4. \A x, y \in DOMAIN p : x < y => P(x) <= P(y)
    BY DEF Shaped
  <2>5. \A x, y \in DOMAIN q : x < y => Q(x) <= Q(y)
    BY DEF Shaped
  <2> HIDE DEF R, P, Q
  <2>6. R(m) <= R(n)
    <3>1. m \in Nat /\ n \in Nat
      BY <1>2
    <3>2. CASE m \in DOMAIN p /\ n \in DOMAIN p
      BY <1>7, <2>1, <2>4, <3>2
    <3>3. CASE m \in DOMAIN p /\ n \notin DOMAIN p
      <4>1. P(m) \in a..b /\ Q(n - Len(p)) \in c..d /\ R(m) = P(m) /\ R(n) = Q(n - Len(p))
        BY <2>1, <2>2, <2>3, <3>3
      <4> QED
        BY <4>1
    <3>4. CASE m \notin DOMAIN p /\ n \notin DOMAIN p
      <4>1. m - Len(p) \in DOMAIN q /\ n - Len(p) \in DOMAIN q /\ m - Len(p) < n - Len(p)
        BY <1>2, <1>7, <2>3, <3>1, <3>4
      <4> QED
        BY <2>3, <2>5, <3>4, <4>1
    <3>5. CASE m \notin DOMAIN p /\ n \in DOMAIN p
      BY <1>2, <1>7, <2>3, <3>1, <3>5
    <3> QED
      BY <3>2, <3>3, <3>4, <3>5
  <2> QED
    BY <2>6 DEF R
<1>10. IsList(r)
  BY <1>2, ListOf
<1> QED
  BY <1>6, <1>7, <1>10 DEF r, Shaped

LEMMA JoinedAsks ==
    ASSUME NEW p, NEW q, IsList(p), IsList(q)
    PROVE  AskedIn(p \o q) = AskedInEither(p, q)
<1> DEFINE r == p \o q
           S == Range(p) \cup Range(q)
<1>1. p \in Seq(S) /\ q \in Seq(S)
  <2>1. p \in Seq(Range(p)) /\ q \in Seq(Range(q))
    BY DEF IsList
  <2> QED
    BY <2>1
<1> HIDE DEF S
<1>2. /\ \A n \in DOMAIN p : n \in DOMAIN r /\ r[n] = p[n]
      /\ \A n \in DOMAIN q : n + Len(p) \in DOMAIN r /\ r[n + Len(p)] = q[n]
      /\ \A n \in DOMAIN r :
             n \in DOMAIN p \/ (n > Len(p) /\ n - Len(p) \in DOMAIN q /\ r[n] = q[n - Len(p)])
  BY <1>1
<1> HIDE DEF r
<1>3. Range(r) = Range(p) \cup Range(q)
  BY <1>2 DEF Range
<1> QED
  BY <1>3 DEF AskedIn, AskedInEither, r

LEMMA Wider ==
    ASSUME NEW s, NEW p, NEW a \in Nat, NEW b \in Nat, a >= 1, b <= 4, Shaped(s, p, a, b)
    PROVE  Shaped(s, p, 1, 4)
<1>1. a..b \subseteq 1..4
  OBVIOUS
<1> QED
  BY <1>1 DEF Shaped

LEMMA OnePiece ==
    ASSUME NEW s, NEW o, Allowed(s, o), o.do # "ask"
    PROVE  /\ \A a \in Nat : Phase(s, o.do) = a => Shaped(s, <<o>>, a, a)
           /\ AskedIn(<<o>>) = {}
<1> DEFINE p == <<o>>
<1>1. IsList(p) /\ DOMAIN p = {1} /\ p[1] = o
  BY Lists
<1>2. Range(p) = {o}
  BY <1>1 DEF Range
<1> HIDE DEF p
<1>3. \A a \in Nat : Phase(s, o.do) = a => Shaped(s, p, a, a)
  BY <1>1 DEF Shaped
<1>4. AskedIn(p) = {}
  BY <1>2 DEF AskedIn
<1> QED
  BY <1>3, <1>4 DEF p

LEMMA WritePiece ==
    ASSUME NEW s, NEW f, f \in CopiedFiles => f \notin Supplied /\ s = Producer(f)
    PROVE  Shaped(s, Write(f), 4, 4) /\ AskedIn(Write(f)) = {}
<1> DEFINE p == Write(f)
<1>1. /\ IsList(p) /\ DOMAIN p = {1, 2}
      /\ p[1] = [do |-> "truncate", file |-> f] /\ p[2] = [do |-> "write", file |-> f]
  BY Lists DEF Write
<1>2. Range(p) = {p[1], p[2]}
  BY <1>1 DEF Range
<1> HIDE DEF p
<1>3. \A n \in DOMAIN p : Allowed(s, p[n]) /\ Phase(s, p[n].do) = 4
  BY <1>1 DEF Allowed, Phase, Writes
<1>4. Shaped(s, p, 4, 4)
  BY <1>1, <1>3 DEF Shaped
<1>5. AskedIn(p) = {}
  BY <1>1, <1>2 DEF AskedIn
<1> QED
  BY <1>4, <1>5 DEF p

\* The loops over one or two scenarios and any strategies.
LEMMA AskPiece ==
    ASSUME NEW s, NEW model, NEW tokens, NEW X, NEW Y, IsList(X), Len(X) \in {1, 2}, IsList(Y)
    PROVE  /\ Shaped(s, Merges(model, tokens, X, Y), 2, 2)
           /\ AskedIn(Merges(model, tokens, X, Y)) = QuestionsOf(model, tokens, X, Y)
<1> DEFINE Row(n) == [m \in DOMAIN Y |-> Ask(Question(model, tokens, Y[m], X[n]))]
           rowsOf == [n \in DOMAIN X |-> Row(n)]
           QOf(n) == {Question(model, tokens, Y[m], X[n]) : m \in DOMAIN Y}
           AllRows == UNION {Range(Row(n)) : n \in DOMAIN X}
<1>1. DOMAIN X = 1..Len(X) /\ DOMAIN Y = 1..Len(Y) /\ Len(Y) \in Nat
  BY DEF IsList
<1>2. ASSUME NEW n \in DOMAIN X
      PROVE  /\ IsList(Row(n)) /\ Row(n) \in Seq(AllRows)
             /\ Shaped(s, Row(n), 2, 2) /\ AskedIn(Row(n)) = QOf(n)
  <2>3. IsList(Row(n)) /\ DOMAIN Row(n) = DOMAIN Y
    <3> DEFINE E(m) == Ask(Question(model, tokens, Y[m], X[n]))
               S == {E(m) : m \in 1..Len(Y)}
    <3>1. \A m \in 1..Len(Y) : E(m) \in S
      OBVIOUS
    <3> HIDE DEF E, S
    <3>2. [m \in 1..Len(Y) |-> E(m)] \in Seq(S)
      BY <1>1, <3>1
    <3>3. Row(n) = [m \in 1..Len(Y) |-> E(m)]
      BY <1>1 DEF E
    <3> QED
      BY <1>1, <3>2, <3>3, ListOf
  <2>4. \A m \in DOMAIN Y : /\ Row(n)[m].do = "ask"
                            /\ Row(n)[m].q = Question(model, tokens, Y[m], X[n])
    BY DEF Ask
  <2> HIDE DEF Row
  <2>5. \A m \in DOMAIN Row(n) : Allowed(s, Row(n)[m]) /\ Phase(s, Row(n)[m].do) = 2
    BY <2>3, <2>4 DEF Allowed, Phase, Writes, Asks
  <2>6. Shaped(s, Row(n), 2, 2)
    BY <2>3, <2>5 DEF Shaped
  <2>7. \A o : o \in Range(Row(n)) <=> \E m \in DOMAIN Y : o = Row(n)[m]
    BY <2>3 DEF Range
  <2>8. AskedIn(Row(n)) = QOf(n)
    BY <2>4, <2>7 DEF AskedIn
  <2>9. Row(n) \in Seq(AllRows)
    <3>1. Row(n) \in Seq(Range(Row(n)))
      BY <2>3 DEF IsList
    <3>2. Range(Row(n)) \subseteq AllRows
      OBVIOUS
    <3> HIDE DEF AllRows
    <3> QED
      BY <3>1, <3>2
  <2> QED
    BY <2>3, <2>6, <2>8, <2>9
<1>3. Merges(model, tokens, X, Y) = FlattenSeq(rowsOf)
  BY DEF Merges
<1>4. rowsOf \in Seq(Seq(AllRows)) /\ Len(rowsOf) = Len(X)
  <2>1. \A n \in 1..Len(X) : Row(n) \in Seq(AllRows)
    BY <1>1, <1>2
  <2>2. rowsOf = [n \in 1..Len(X) |-> Row(n)] /\ Len(X) \in Nat
    BY <1>1
  <2> HIDE DEF Row, rowsOf, AllRows
  <2> QED
    BY <2>1, <2>2
<1>5. FlattenSeq(rowsOf) = IF Len(X) = 1 THEN Row(1) ELSE Row(1) \o Row(2)
  <2>1. 1 \in DOMAIN X /\ (Len(X) # 1 => 2 \in DOMAIN X)
    BY <1>1
  <2>2. rowsOf[1] = Row(1) /\ (Len(X) # 1 => rowsOf[2] = Row(2))
    BY <2>1
  <2> HIDE DEF rowsOf, Row, AllRows
  <2> QED
    BY <1>4, <2>2, OneOrTwo
<1>8. /\ Shaped(s, Row(1), 2, 2) /\ AskedIn(Row(1)) = QOf(1)
      /\ Len(X) # 1 => Shaped(s, Row(2), 2, 2) /\ AskedIn(Row(2)) = QOf(2)
  <2>1. 1 \in DOMAIN X /\ (Len(X) # 1 => 2 \in DOMAIN X)
    BY <1>1
  <2> HIDE DEF rowsOf, Row, QOf
  <2> QED
    BY <1>2, <2>1
<1> HIDE DEF rowsOf, Row, QOf, AllRows
<1>6. CASE Len(X) = 1
  <2>1. DOMAIN X = {1}
    BY <1>1, <1>6
  <2>2. AskedIn(Merges(model, tokens, X, Y)) = QOf(1) /\ Shaped(s, Merges(model, tokens, X, Y), 2, 2)
    BY <1>3, <1>5, <1>6, <1>8
  <2> QED
    BY <2>1, <2>2 DEF QOf, QuestionsOf
<1>7. CASE Len(X) = 2
  <2>1. DOMAIN X = {1, 2}
    BY <1>1, <1>7
  <2>2. /\ Shaped(s, Row(1), 2, 2) /\ AskedIn(Row(1)) = QOf(1)
        /\ Shaped(s, Row(2), 2, 2) /\ AskedIn(Row(2)) = QOf(2)
    BY <1>7, <1>8
  <2>3. Shaped(s, Row(1) \o Row(2), 2, 2)
    BY <2>2, Joined
  <2>5. AskedIn(Row(1) \o Row(2)) = AskedIn(Row(1)) \cup AskedIn(Row(2))
    <3>1. IsList(Row(1)) /\ IsList(Row(2))
      BY <2>2 DEF Shaped
    <3>2. AskedIn(Row(1) \o Row(2)) = AskedInEither(Row(1), Row(2))
      BY <3>1, JoinedAsks
    <3> QED
      BY <3>2 DEF AskedInEither
  <2>4. /\ AskedIn(Merges(model, tokens, X, Y)) = QOf(1) \cup QOf(2)
        /\ Shaped(s, Merges(model, tokens, X, Y), 2, 2)
    BY <1>3, <1>5, <1>7, <2>2, <2>3, <2>5
  <2> QED
    BY <2>1, <2>4 DEF QOf, QuestionsOf
<1> QED
  BY <1>6, <1>7

\* Repeated calls of the pilot.
LEMMA RepeatPiece ==
    ASSUME NEW q \in Repeated
    PROVE  /\ Shaped("run_pilot", [n \in 1..2 |-> Repeat(q)], 2, 2)
           /\ AskedIn([n \in 1..2 |-> Repeat(q)]) = {}
<1> DEFINE o == Repeat(q)
           p == [n \in 1..2 |-> o]
<1>1. o.do = "repeat" /\ o.q \in Repeated
  BY DEF Repeat
<1> HIDE DEF o
<1>2. IsList(p) /\ DOMAIN p = 1..2 /\ \A n \in DOMAIN p : p[n] = o
  <2>1. p \in Seq({o})
    OBVIOUS
  <2> QED
    BY <2>1, ListOf
<1>3. \A x1 : x1 \in Range(p) => x1 = o
  BY <1>2 DEF Range
<1> HIDE DEF p
<1>4. Allowed("run_pilot", o) /\ Phase("run_pilot", o.do) = 2
  BY <1>1 DEF Allowed, Phase, Asks, Writes
<1>5. Shaped("run_pilot", p, 2, 2)
  BY <1>2, <1>4 DEF Shaped
<1>6. AskedIn(p) = {}
  BY <1>1, <1>3 DEF AskedIn
<1> QED
  BY <1>5, <1>6 DEF o, p

LEMMA CensusPiece ==
    Shaped("run_pilot", <<[do |-> "census"]>>, 3, 3) /\ AskedIn(<<[do |-> "census"]>>) = {}
<1> DEFINE o == [do |-> "census"]
<1>1. o.do = "census"
  OBVIOUS
<1> HIDE DEF o
<1>2. Allowed("run_pilot", o) /\ Phase("run_pilot", o.do) = 3 /\ o.do # "ask" /\ 3 \in Nat
  BY <1>1 DEF Allowed, Phase, Asks, Writes
<1>3. Shaped("run_pilot", <<o>>, 3, 3) /\ AskedIn(<<o>>) = {}
  BY <1>1, <1>2, OnePiece
<1> QED
  BY <1>3 DEF o

\* A result file that is read.
LEMMA ReadPiece ==
    ASSUME NEW s, NEW f
    PROVE  LET a == IF s \in Late THEN 3 ELSE 1 IN
           /\ f = "results.json" => Shaped(s, <<Check(f)>>, a, a)
           /\ f \in CopiedFiles => Shaped(s, <<Copy(f)>>, a, a) /\ Shaped(s, <<CopyIfThere(f)>>, a, a)
           /\ AskedIn(<<Check(f)>>) = {} /\ AskedIn(<<Copy(f)>>) = {} /\ AskedIn(<<CopyIfThere(f)>>) = {}
<1> DEFINE a == IF s \in Late THEN 3 ELSE 1
<1>1. ASSUME NEW o, o.do \in Reads, Allowed(s, o)
      PROVE  Shaped(s, <<o>>, a, a)
  <2>1. Phase(s, o.do) = a /\ a \in Nat
    BY <1>1 DEF Phase, Reads, Writes, Asks
  <2>2. o.do # "ask"
    BY <1>1 DEF Reads
  <2> HIDE DEF a
  <2> QED
    BY <1>1, <2>1, <2>2, OnePiece
<1>2. ASSUME NEW o, o.do # "ask"
      PROVE  AskedIn(<<o>>) = {}
  <2>1. \A x : x \in Range(<<o>>) => x = o
    BY DEF Range
  <2> QED
    BY <1>2, <2>1 DEF AskedIn
<1>3. /\ Check(f).do = "check" /\ Check(f).file = f
      /\ Copy(f).do = "copy" /\ Copy(f).file = f
      /\ CopyIfThere(f).do = "copy_if_there" /\ CopyIfThere(f).file = f
  BY DEF Check, Copy, CopyIfThere
<1>4. /\ f = "results.json" => Allowed(s, Check(f))
      /\ f \in CopiedFiles => Allowed(s, Copy(f)) /\ Allowed(s, CopyIfThere(f))
  BY <1>3 DEF Allowed
<1> HIDE DEF a
<1>5. /\ f = "results.json" => Shaped(s, <<Check(f)>>, a, a)
      /\ f \in CopiedFiles => Shaped(s, <<Copy(f)>>, a, a) /\ Shaped(s, <<CopyIfThere(f)>>, a, a)
  BY <1>1, <1>3, <1>4 DEF Reads
<1>6. AskedIn(<<Check(f)>>) = {} /\ AskedIn(<<Copy(f)>>) = {} /\ AskedIn(<<CopyIfThere(f)>>) = {}
  BY <1>2, <1>3
<1> QED
  BY <1>5, <1>6 DEF a

\* The sets of scenarios are of one or two.
LEMMA ScenarioSets ==
    \A X \in {PilotSet, Span4, LockedSet, PowerSet, ProxySet, SemanticSet, BalancedSet} :
        IsList(X) /\ Len(X) \in {1, 2}
<1>1. /\ IsList(Span4) /\ Len(Span4) = 1 /\ IsList(PowerSet) /\ Len(PowerSet) = 1
      /\ IsList(ProxySet) /\ Len(ProxySet) = 1 /\ IsList(SemanticSet) /\ Len(SemanticSet) = 1
      /\ IsList(BalancedSet) /\ Len(BalancedSet) = 1
  BY Lists DEF Span4, PowerSet, ProxySet, SemanticSet, BalancedSet
<1>2. IsList(PilotSet) /\ Len(PilotSet) = 2
  BY Lists DEF PilotSet
<1>3. IsList(LockedSet) /\ Len(LockedSet) = 2
  <2> DEFINE x == <<"seed 2026, span 4", 1>>
             y == <<"seed 2027, span 10", 1>>
  <2>1. LockedSet = <<x>> \o <<y>>
    BY DEF LockedSet, Span4
  <2> HIDE DEF x, y
  <2>2. <<x>> \in Seq({x, y}) /\ <<y>> \in Seq({x, y}) /\ Len(<<x>>) = 1 /\ Len(<<y>>) = 1
    OBVIOUS
  <2>3. <<x>> \o <<y>> \in Seq({x, y}) /\ Len(<<x>> \o <<y>>) = 1 + 1
    BY <2>2
  <2>4. IsList(<<x>> \o <<y>>)
    BY <2>3, ListOf
  <2>5. Len(<<x>> \o <<y>>) = 2
    BY <2>3
  <2> QED
    BY <2>1, <2>4, <2>5, Zenon
<1> QED
  BY <1>1, <1>2, <1>3

\* One strategy, or the judge, asked of each scenario.
LEMMA AskByOne ==
    ASSUME NEW s, NEW model, NEW tokens, NEW who, NEW X, IsList(X), Len(X) \in {1, 2}
    PROVE  /\ Shaped(s, Merges(model, tokens, X, <<who>>), 2, 2)
           /\ AskedIn(Merges(model, tokens, X, <<who>>)) = QuestionsOf(model, tokens, X, <<who>>)
BY Lists, AskPiece

\* The ends of programs.
LEMMA ThenWrite ==
    ASSUME NEW s, NEW p, NEW f, f \in CopiedFiles => f \notin Supplied /\ s = Producer(f),
           Shaped(s, p, 1, 3)
    PROVE  Shaped(s, p \o Write(f), 1, 4) /\ AskedIn(p \o Write(f)) = AskedIn(p)
<1> DEFINE w == Write(f)
<1>1. Shaped(s, w, 4, 4) /\ AskedIn(w) = {}
  BY WritePiece
<1> HIDE DEF w
<1>2. Shaped(s, p \o w, 1, 4)
  BY <1>1, Joined
<1>3. IsList(p) /\ IsList(w)
  BY <1>1 DEF Shaped
<1>4. AskedIn(p \o w) = AskedInEither(p, w)
  BY <1>3, JoinedAsks
<1>5. AskedInEither(p, w) = AskedIn(p)
  BY <1>1 DEF AskedInEither
<1> QED
  BY <1>2, <1>4, <1>5 DEF w

LEMMA Within ==
    ASSUME NEW s, NEW p, NEW a \in Nat, NEW b \in Nat, a >= 1, b <= 3, Shaped(s, p, a, b)
    PROVE  Shaped(s, p, 1, 3)
<1>1. a..b \subseteq 1..3
  OBVIOUS
<1> QED
  BY <1>1 DEF Shaped

\* Ask, then write.
LEMMA AskWrite ==
    ASSUME NEW s, NEW p, NEW f, f \notin CopiedFiles, Shaped(s, p, 2, 2)
    PROVE  Shaped(s, p \o Write(f), 1, 4) /\ AskedIn(p \o Write(f)) = AskedIn(p)
<1>1. Shaped(s, p, 1, 3)
  BY Within
<1> QED
  BY <1>1, ThenWrite

\* Read, ask, write.
LEMMA ReadAskWrite ==
    ASSUME NEW s, NEW p, NEW q, NEW f, f \notin CopiedFiles, Shaped(s, p, 1, 1), Shaped(s, q, 2, 2)
    PROVE  Shaped(s, (p \o q) \o Write(f), 1, 4)
<1>1. Shaped(s, p \o q, 1, 2)
  BY Joined
<1>2. Shaped(s, p \o q, 1, 3)
  BY <1>1, Within
<1> QED
  BY <1>2, ThenWrite

\* Ask, read, write.
LEMMA AskReadWrite ==
    ASSUME NEW s, NEW p, NEW q, NEW f, f \in CopiedFiles => f \notin Supplied /\ s = Producer(f),
           Shaped(s, p, 2, 2), Shaped(s, q, 3, 3)
    PROVE  Shaped(s, (p \o q) \o Write(f), 1, 4)
<1>1. Shaped(s, p \o q, 2, 3)
  BY Joined
<1>2. Shaped(s, p \o q, 1, 3)
  BY <1>1, Within
<1> QED
  BY <1>2, ThenWrite

\* Two pieces that ask.
LEMMA AskAsk ==
    ASSUME NEW s, NEW p, NEW q, Shaped(s, p, 2, 2), Shaped(s, q, 2, 2)
    PROVE  Shaped(s, p \o q, 2, 2) /\ AskedIn(p \o q) = AskedInEither(p, q)
<1>1. Shaped(s, p \o q, 2, 2)
  BY Joined
<1>2. IsList(p) /\ IsList(q)
  BY DEF Shaped
<1> QED
  BY <1>1, <1>2, JoinedAsks

LEMMA PilotShape ==
    /\ Shaped("run_pilot", Program["run_pilot"], 1, 4)
    /\ AskedIn(Program["run_pilot"]) =
           QuestionsOf(nano, 1024, PilotSet, <<"three_way_llm">>)
               \cup QuestionsOf(nano, 1024, PilotSet, <<"llm_judge">>)
<1> DEFINE s == "run_pilot"
           M == Merges(nano, 1024, PilotSet, <<"three_way_llm">>)
           J == Judgements(nano, 1024, PilotSet)
           x == Question(nano, 1024, "three_way_llm", VarianceSet[1])
           y == Question(nano, 1024, "llm_judge", VarianceSet[1])
           R == [n \in 1..2 |-> Repeat(x)]
           V == [n \in 1..2 |-> Repeat(y)]
           C == <<[do |-> "census"]>>
<1>1. IsList(PilotSet) /\ Len(PilotSet) \in {1, 2}
  BY ScenarioSets
<1>2. Shaped(s, M, 2, 2) /\ AskedIn(M) = QuestionsOf(nano, 1024, PilotSet, <<"three_way_llm">>)
  BY <1>1, AskByOne
<1>3. Shaped(s, J, 2, 2) /\ AskedIn(J) = QuestionsOf(nano, 1024, PilotSet, <<"llm_judge">>)
  BY <1>1, AskByOne DEF Judgements
<1>7. Program["run_pilot"] = ((((M \o J) \o R) \o V) \o C) \o Write("pilot_summary.json")
  BY DEF Program, Pilot
<1>0. x \in Repeated /\ y \in Repeated
  BY DEF Repeated
<1> HIDE DEF x, y
<1>4. Shaped(s, R, 2, 2) /\ AskedIn(R) = {}
  BY <1>0, RepeatPiece
<1>5. Shaped(s, V, 2, 2) /\ AskedIn(V) = {}
  BY <1>0, RepeatPiece
<1>6. Shaped(s, C, 3, 3) /\ AskedIn(C) = {}
  BY CensusPiece
<1> HIDE DEF M, J, R, V, C, s
<1> DEFINE asks == ((M \o J) \o R) \o V
<1>8. Shaped(s, asks, 2, 2) /\ AskedIn(asks) = AskedIn(M) \cup AskedIn(J)
  <2> DEFINE a == M \o J
             b == a \o R
  <2>1. Shaped(s, M, 2, 2) /\ Shaped(s, J, 2, 2)
    BY <1>2, <1>3
  <2>2. Shaped(s, a, 2, 2) /\ AskedIn(a) = AskedInEither(M, J)
    BY <2>1, AskAsk
  <2> HIDE DEF a
  <2>3. Shaped(s, b, 2, 2) /\ AskedIn(b) = AskedInEither(a, R)
    BY <2>2, <1>4, AskAsk
  <2> HIDE DEF b
  <2>4. Shaped(s, b \o V, 2, 2) /\ AskedIn(b \o V) = AskedInEither(b, V)
    BY <2>3, <1>5, AskAsk
  <2>5. asks = b \o V
    BY DEF a, b
  <2> HIDE DEF asks
  <2>6. Shaped(s, asks, 2, 2)
    BY <2>4, <2>5
  <2>7. AskedIn(asks) = AskedInEither(b, V)
    BY <2>4, <2>5
  <2> QED
    BY <1>4, <1>5, <2>2, <2>3, <2>6, <2>7 DEF AskedInEither
<1> HIDE DEF asks
<1>9. Shaped(s, asks \o C, 1, 3) /\ AskedIn(asks \o C) = AskedIn(asks)
  <2>1. Shaped(s, asks \o C, 2, 3)
    BY <1>6, <1>8, Joined
  <2>2. AskedIn(asks \o C) = AskedIn(asks)
    <3>1. IsList(asks) /\ IsList(C)
      BY <1>6, <1>8 DEF Shaped
    <3>2. AskedIn(asks \o C) = AskedInEither(asks, C)
      BY <3>1, JoinedAsks
    <3> QED
      BY <1>6, <3>2 DEF AskedInEither
  <2> QED
    BY <2>1, <2>2, Within
<1>10. "pilot_summary.json" \notin CopiedFiles
  BY DEF CopiedFiles, Supplied
<1>11. /\ Shaped(s, (asks \o C) \o Write("pilot_summary.json"), 1, 4)
       /\ AskedIn((asks \o C) \o Write("pilot_summary.json")) = AskedIn(asks)
  BY <1>9, <1>10, ThenWrite
<1> QED
  BY <1>2, <1>3, <1>7, <1>8, <1>11 DEF asks, s

LEMMA ExperimentShape ==
    /\ Shaped("run_experiment", Program["run_experiment"], 1, 4)
    /\ AskedIn(Program["run_experiment"]) =
           QuestionsOf(nano, 1024, LockedSet, <<"three_way_llm", "llm_judge">>)
<1> DEFINE s == "run_experiment"
           B == RunFullBenchmark(nano, 1024, LockedSet)
           W == Write("results.json") \o Write("results.csv")
           V == Write("stats_output.json")
<1>1. IsList(LockedSet) /\ Len(LockedSet) \in {1, 2}
  BY ScenarioSets
<1>2. Shaped(s, B, 2, 2) /\ AskedIn(B) = QuestionsOf(nano, 1024, LockedSet, <<"three_way_llm", "llm_judge">>)
  BY <1>1, Lists, AskPiece DEF RunFullBenchmark
<1>3. Shaped(s, W, 4, 4) /\ AskedIn(W) = {}
  <2>1. Shaped(s, Write("results.json"), 4, 4) /\ AskedIn(Write("results.json")) = {}
    BY WritePiece DEF Supplied, Producer
  <2>2. Shaped(s, Write("results.csv"), 4, 4) /\ AskedIn(Write("results.csv")) = {}
    BY WritePiece DEF Supplied, Producer
  <2>3. Shaped(s, W, 4, 4)
    BY <2>1, <2>2, Joined
  <2>4. AskedIn(W) = {}
    <3>1. IsList(Write("results.json")) /\ IsList(Write("results.csv"))
      BY <2>1, <2>2 DEF Shaped
    <3>2. AskedIn(W) = AskedInEither(Write("results.json"), Write("results.csv"))
      BY <3>1, JoinedAsks
    <3> QED
      BY <2>1, <2>2, <3>2 DEF AskedInEither
  <2> QED
    BY <2>3, <2>4
<1>4. Shaped(s, V, 4, 4) /\ AskedIn(V) = {}
  BY WritePiece DEF CopiedFiles, Supplied
<1>5. Program["run_experiment"] = (B \o W) \o V
  BY DEF Program, Experiment, WriteResults
<1> HIDE DEF B, W, V, s
<1>6. Shaped(s, B, 2, 2) /\ IsList(B) /\ IsList(W) /\ IsList(V)
  BY <1>2, <1>3, <1>4 DEF Shaped
<1> DEFINE r == B \o W
<1>7. Shaped(s, r, 2, 4)
  BY <1>3, <1>6, Joined
<1>8. AskedIn(r) = AskedInEither(B, W)
  BY <1>6, JoinedAsks
<1> HIDE DEF r
<1>10. Shaped(s, r \o V, 2, 4)
  BY <1>4, <1>7, Joined
<1>11. AskedIn(r \o V) = AskedIn(B)
  <2>1. IsList(r)
    BY <1>7 DEF Shaped
  <2>2. AskedIn(r \o V) = AskedInEither(r, V)
    BY <1>6, <2>1, JoinedAsks
  <2> QED
    BY <1>3, <1>4, <1>8, <2>2 DEF AskedInEither
<1>9. Shaped(s, r \o V, 1, 4)
  BY <1>10, Wider
<1> QED
  BY <1>2, <1>5, <1>9, <1>11 DEF r, s

LEMMA NoiseShape ==
    /\ Shaped("run_noise_sensitivity", Program["run_noise_sensitivity"], 1, 4)
    /\ AskedIn(Program["run_noise_sensitivity"]) = QuestionsOf(nano, 1024, LockedSet, <<"three_way_llm">>)
<1> DEFINE s == "run_noise_sensitivity"
           M == Merges(nano, 1024, LockedSet, <<"three_way_llm">>)
           levels == [n \in DOMAIN NoiseLevels |->
                         Merges(nano, 1024, BuildScenarios(NoiseLevels[n]), <<"three_way_llm">>)]
<1>1. IsList(LockedSet) /\ Len(LockedSet) \in {1, 2}
  BY ScenarioSets
<1>2. Shaped(s, M, 2, 2) /\ AskedIn(M) = QuestionsOf(nano, 1024, LockedSet, <<"three_way_llm">>)
  BY <1>1, AskByOne
<1>3. levels = [n \in 1..2 |-> M]
  BY DEF NoiseLevels, BuildScenarios
<1>4. Program["run_noise_sensitivity"] = FlattenSeq(levels) \o Write("noise_sensitivity.json")
  BY DEF Program, NoiseSensitivity
<1> HIDE DEF M, levels, s
<1>5. M \in Seq(Range(M))
  BY <1>2 DEF Shaped, IsList
<1>6. levels \in Seq(Seq(Range(M))) /\ Len(levels) = 2 /\ levels[1] = M /\ levels[2] = M
  BY <1>3, <1>5
<1>7. FlattenSeq(levels) = M \o M
  <2> DEFINE S == Range(M)
  <2>2. levels \in Seq(Seq(S)) /\ Len(levels) \in {1, 2}
    BY <1>6
  <2> HIDE DEF S
  <2>3. FlattenSeq(levels) = IF Len(levels) = 1 THEN levels[1] ELSE levels[1] \o levels[2]
    BY <2>2, OneOrTwo
  <2>1. FlattenSeq(levels) = levels[1] \o levels[2]
    BY <1>6, <2>3
  <2> QED
    BY <1>6, <2>1
<1>8. Shaped(s, M \o M, 2, 2) /\ AskedIn(M \o M) = AskedIn(M)
  <2>1. Shaped(s, M, 2, 2)
    BY <1>2
  <2>2. Shaped(s, M \o M, 2, 2) /\ AskedIn(M \o M) = AskedInEither(M, M)
    BY <2>1, AskAsk
  <2> QED
    BY <2>2 DEF AskedInEither
<1>9. "noise_sensitivity.json" \notin CopiedFiles
  BY DEF CopiedFiles, Supplied
<1>10. /\ Shaped(s, (M \o M) \o Write("noise_sensitivity.json"), 1, 4)
       /\ AskedIn((M \o M) \o Write("noise_sensitivity.json")) = AskedIn(M \o M)
  BY <1>8, <1>9, AskWrite
<1> QED
  BY <1>2, <1>4, <1>7, <1>8, <1>10 DEF s

LEMMA DriftShape ==
    /\ Shaped("analyze_rq2_f1_drift", Program["analyze_rq2_f1_drift"], 1, 4)
    /\ AskedIn(Program["analyze_rq2_f1_drift"]) =
           QuestionsOf(nano, 1024, PilotSet, <<"llm_judge">>)
               \cup QuestionsOf(nano, 1024, LockedSet, <<"llm_judge">>)
<1> DEFINE s == "analyze_rq2_f1_drift"
           J == Judgements(nano, 1024, PilotSet)
           K == Judgements(nano, 1024, LockedSet)
<1>1. IsList(LockedSet) /\ Len(LockedSet) \in {1, 2} /\ IsList(PilotSet) /\ Len(PilotSet) \in {1, 2}
  BY ScenarioSets
<1>2. Shaped(s, J, 2, 2) /\ AskedIn(J) = QuestionsOf(nano, 1024, PilotSet, <<"llm_judge">>)
  BY <1>1, AskByOne DEF Judgements
<1>3. Shaped(s, K, 2, 2) /\ AskedIn(K) = QuestionsOf(nano, 1024, LockedSet, <<"llm_judge">>)
  BY <1>1, AskByOne DEF Judgements
<1>4. Program["analyze_rq2_f1_drift"] = (J \o K) \o Write("rq2_f1_bootstrap.json")
  BY DEF Program, RQ2Drift
<1>5. "rq2_f1_bootstrap.json" \notin CopiedFiles
  BY DEF CopiedFiles, Supplied
<1> HIDE DEF J, K, s
<1>6. Shaped(s, J \o K, 2, 2) /\ AskedIn(J \o K) = AskedIn(J) \cup AskedIn(K)
  <2>1. Shaped(s, J, 2, 2) /\ Shaped(s, K, 2, 2)
    BY <1>2, <1>3
  <2>2. Shaped(s, J \o K, 2, 2) /\ AskedIn(J \o K) = AskedInEither(J, K)
    BY <2>1, AskAsk
  <2> QED
    BY <2>2 DEF AskedInEither
<1>7. /\ Shaped(s, (J \o K) \o Write("rq2_f1_bootstrap.json"), 1, 4)
      /\ AskedIn((J \o K) \o Write("rq2_f1_bootstrap.json")) = AskedIn(J \o K)
  BY <1>5, <1>6, AskWrite
<1> QED
  BY <1>2, <1>3, <1>4, <1>6, <1>7 DEF s

\* The programs that ask in one pair of loops and write.
LEMMA MergesThenWrite ==
    ASSUME NEW s, NEW model, NEW tokens, NEW X, NEW Y, NEW f,
           IsList(X), Len(X) \in {1, 2}, IsList(Y), f \notin CopiedFiles
    PROVE  /\ Shaped(s, Merges(model, tokens, X, Y) \o Write(f), 1, 4)
           /\ AskedIn(Merges(model, tokens, X, Y) \o Write(f)) = QuestionsOf(model, tokens, X, Y)
<1> DEFINE M == Merges(model, tokens, X, Y)
<1>1. Shaped(s, M, 2, 2) /\ AskedIn(M) = QuestionsOf(model, tokens, X, Y)
  BY AskPiece
<1> HIDE DEF M
<1> QED
  BY <1>1, AskWrite DEF M

LEMMA PlainShapes ==
    /\ \A s \in {"run_provenance_proxy", "run_semantic_resolvable_experiment",
                 "analyze_semantic_resolvable_failures", "run_balanced_detector_benchmark",
                 "compute_category_breakdown_extra_strategies", "run_cross_vendor_mab_one_order",
                 "run_cross_vendor_mab_another_order", "run_cross_vendor_semantic_resolvable"} :
           Shaped(s, Program[s], 1, 4)
    /\ AskedIn(Program["run_semantic_resolvable_experiment"]) =
           QuestionsOf(nano, 8000, SemanticSet, SemanticStrategies)
    /\ AskedIn(Program["analyze_semantic_resolvable_failures"]) =
           QuestionsOf(nano, 8000, SemanticSet, <<"three_way_llm">>)
<1>1. /\ \A x : IsList(<<x>>) /\ Len(<<x>>) \in {1, 2}
      /\ \A x, y : IsList(<<x, y>>)
      /\ IsList(SemanticStrategies)
      /\ \A X \in {LockedSet, ProxySet, SemanticSet, BalancedSet} : IsList(X) /\ Len(X) \in {1, 2}
  BY Lists, ScenarioSets DEF SemanticStrategies
<1>2. \A f \in {"provenance_proxy.json", "semantic_resolvable.json",
                "semantic_resolvable_failure_modes.json", "balanced_detector_benchmark.json",
                "category_breakdown_extra_strategies.json", "cross_vendor_mab.json",
                "cross_vendor_semantic_resolvable.json"} : f \notin CopiedFiles
  BY DEF CopiedFiles, Supplied
<1>3. Shaped("run_provenance_proxy", Program["run_provenance_proxy"], 1, 4)
  BY <1>1, <1>2, MergesThenWrite DEF Program, ProvenanceProxy
<1>4. /\ Shaped("run_semantic_resolvable_experiment", Program["run_semantic_resolvable_experiment"], 1, 4)
      /\ AskedIn(Program["run_semantic_resolvable_experiment"]) =
             QuestionsOf(nano, 8000, SemanticSet, SemanticStrategies)
  BY <1>1, <1>2, MergesThenWrite DEF Program, SemanticResolvableExperiment
<1>5. /\ Shaped("analyze_semantic_resolvable_failures", Program["analyze_semantic_resolvable_failures"], 1, 4)
      /\ AskedIn(Program["analyze_semantic_resolvable_failures"]) =
             QuestionsOf(nano, 8000, SemanticSet, <<"three_way_llm">>)
  BY <1>1, <1>2, MergesThenWrite DEF Program, SemanticResolvableFailures
<1>6. Shaped("run_balanced_detector_benchmark", Program["run_balanced_detector_benchmark"], 1, 4)
  BY <1>1, <1>2, MergesThenWrite DEF Program, BalancedDetectors, Judgements
<1>7. Shaped("compute_category_breakdown_extra_strategies",
             Program["compute_category_breakdown_extra_strategies"], 1, 4)
  BY <1>1, <1>2, MergesThenWrite DEF Program, CategoryBreakdown
<1>8. ASSUME NEW s, NEW order PROVE Shaped(s, CrossVendorMAB(order), 1, 4)
  <2> DEFINE x == <<"mab row", order>>
  <2>1. CrossVendorMAB(order) =
            Merges(claude, 8000, <<x>>, <<"three_way_llm">>) \o Write("cross_vendor_mab.json")
    BY ONLY DEF CrossVendorMAB
  <2> HIDE DEF x
  <2>2. /\ IsList(<<x>>) /\ Len(<<x>>) \in {1, 2} /\ IsList(<<"three_way_llm">>)
        /\ "cross_vendor_mab.json" \notin CopiedFiles
    BY <1>1, <1>2
  <2>3. Shaped(s, Merges(claude, 8000, <<x>>, <<"three_way_llm">>) \o Write("cross_vendor_mab.json"), 1, 4)
    BY ONLY <2>2, MergesThenWrite
  <2> QED
    BY ONLY <2>1, <2>3
<1>9. /\ Shaped("run_cross_vendor_mab_one_order", Program["run_cross_vendor_mab_one_order"], 1, 4)
      /\ Shaped("run_cross_vendor_mab_another_order", Program["run_cross_vendor_mab_another_order"], 1, 4)
  <2>1. /\ Program["run_cross_vendor_mab_one_order"] = CrossVendorMAB("one")
        /\ Program["run_cross_vendor_mab_another_order"] = CrossVendorMAB("another")
    BY DEF Program
  <2> QED
    BY ONLY <2>1, <1>8
<1>10. Shaped("run_cross_vendor_semantic_resolvable", Program["run_cross_vendor_semantic_resolvable"], 1, 4)
  BY <1>1, <1>2, MergesThenWrite DEF Program, CrossVendorSemantic
<1> QED
  BY <1>3, <1>4, <1>5, <1>6, <1>7, <1>8, <1>9, <1>10

\* The programs that read results.
LEMMA ReaderShapes ==
    \A s \in {"run_raw_text_ablation", "run_resolvable_power_expansion", "compute_abstention_report",
              "compute_risk_coverage_frontier", "run_cross_vendor_rq1"} :
        Shaped(s, Program[s], 1, 4)
<1>1. /\ IsList(<<"raw_text_llm">>) /\ IsList(<<"three_way_llm", "two_way_llm", "raw_text_llm">>)
      /\ IsList(<<"three_way_llm">>) /\ IsList(<<"three_way_llm", "llm_judge">>)
      /\ \A X \in {LockedSet, PowerSet, Span4} : IsList(X) /\ Len(X) \in {1, 2}
  BY Lists, ScenarioSets
<1>2. \A f \in {"raw_text_ablation.json", "resolvable_power_expansion.json",
                "risk_coverage_frontier.json", "cross_vendor_rq1.json"} : f \notin CopiedFiles
  BY DEF CopiedFiles, Supplied
<1>3. \A f \in {"results.json", "results.csv", "abstention_metrics_report.json",
                "abstention_adjusted_metric.json", "robustness_second_model.json"} : f \in CopiedFiles
  BY DEF CopiedFiles, Supplied
<1>4. Shaped("run_raw_text_ablation", Program["run_raw_text_ablation"], 1, 4)
  <2> DEFINE s == "run_raw_text_ablation"
             C == <<Copy("results.json")>>
             M == Merges(nano, 8000, LockedSet, <<"raw_text_llm">>)
  <2>1. Shaped(s, C, 1, 1)
    BY <1>3, ReadPiece DEF Late
  <2>2. Shaped(s, M, 2, 2)
    BY <1>1, AskPiece
  <2>3. Program["run_raw_text_ablation"] = (C \o M) \o Write("raw_text_ablation.json")
    BY DEF Program, RawTextAblation
  <2> HIDE DEF C, M
  <2> QED
    BY <1>2, <2>1, <2>2, <2>3, ReadAskWrite
<1>5. Shaped("run_resolvable_power_expansion", Program["run_resolvable_power_expansion"], 1, 4)
  <2> DEFINE s == "run_resolvable_power_expansion"
             C == <<Check("results.json")>>
             M == Merges(nano, 8000, PowerSet, <<"three_way_llm", "two_way_llm", "raw_text_llm">>)
  <2>1. Shaped(s, C, 1, 1)
    BY ReadPiece DEF Late
  <2>2. Shaped(s, M, 2, 2)
    BY <1>1, AskPiece
  <2>3. Program["run_resolvable_power_expansion"] = (C \o M) \o Write("resolvable_power_expansion.json")
    BY DEF Program, PowerExpansion
  <2> HIDE DEF C, M
  <2> QED
    BY <1>2, <2>1, <2>2, <2>3, ReadAskWrite
<1>6. Shaped("compute_abstention_report", Program["compute_abstention_report"], 1, 4)
  <2> DEFINE s == "compute_abstention_report"
             C == <<Copy("abstention_adjusted_metric.json")>>
             M == Merges(nano, 8000, LockedSet, <<"three_way_llm">>)
  <2>1. Shaped(s, C, 3, 3)
    BY <1>3, ReadPiece DEF Late
  <2>2. Shaped(s, M, 2, 2)
    BY <1>1, AskPiece
  <2>3. Program["compute_abstention_report"] = (M \o C) \o Write("abstention_metrics_report.json")
    BY DEF Program, AbstentionReport
  <2>4. "abstention_metrics_report.json" \notin Supplied /\ s = Producer("abstention_metrics_report.json")
    BY DEF Supplied, Producer
  <2> HIDE DEF C, M
  <2> QED
    BY <2>1, <2>2, <2>3, <2>4, AskReadWrite
<1>7. Shaped("compute_risk_coverage_frontier", Program["compute_risk_coverage_frontier"], 1, 4)
  <2> DEFINE s == "compute_risk_coverage_frontier"
             C == <<Copy("abstention_metrics_report.json")>>
  <2>1. Shaped(s, C, 1, 1)
    BY <1>3, ReadPiece DEF Late
  <2>2. Program["compute_risk_coverage_frontier"] = C \o Write("risk_coverage_frontier.json")
    BY DEF Program, RiskCoverage
  <2> HIDE DEF C, s
  <2>3. Shaped(s, C, 1, 3)
    BY <2>1, Within
  <2> QED
    BY <1>2, <2>2, <2>3, ThenWrite DEF s
<1>8. Shaped("run_cross_vendor_rq1", Program["run_cross_vendor_rq1"], 1, 4)
  <2> DEFINE s == "run_cross_vendor_rq1"
             C == <<Copy("results.csv"), CopyIfThere("robustness_second_model.json")>>
             M == RunFullBenchmark(claude, 1024, Span4)
  <2>1. Shaped(s, C, 3, 3)
    <3>1. Shaped(s, <<Copy("results.csv")>>, 3, 3)
      BY <1>3, ReadPiece DEF Late
    <3>2. Shaped(s, <<CopyIfThere("robustness_second_model.json")>>, 3, 3)
      BY <1>3, ReadPiece DEF Late
    <3> DEFINE x == Copy("results.csv")
               y == CopyIfThere("robustness_second_model.json")
    <3> HIDE DEF x, y, s
    <3>3. Shaped(s, <<x>>, 3, 3) /\ Shaped(s, <<y>>, 3, 3)
      BY <3>1, <3>2 DEF x, y
    <3>4. Shaped(s, <<x>> \o <<y>>, 3, 3)
      BY <3>3, Joined
    <3>5. <<x, y>> = <<x>> \o <<y>>
      BY Two
    <3> QED
      BY <3>4, <3>5 DEF x, y
  <2>2. Shaped(s, M, 2, 2)
    BY <1>1, AskPiece DEF RunFullBenchmark
  <2>3. Program["run_cross_vendor_rq1"] = (M \o C) \o Write("cross_vendor_rq1.json")
    BY DEF Program, CrossVendorRQ1
  <2> HIDE DEF C, M
  <2> QED
    BY <1>2, <2>1, <2>2, <2>3, AskReadWrite
<1> QED
  BY <1>4, <1>5, <1>6, <1>7, <1>8

\* Every program is a sequence of operations that its phases keep in order.
LEMMA AllShaped == \A s \in Scripts : Shaped(s, Program[s], 1, 4)
BY PilotShape, ExperimentShape, NoiseShape, DriftShape, PlainShapes, ReaderShapes DEF Scripts, Program

LEMMA JoinedIsList == ASSUME NEW p, NEW q, IsList(p), IsList(q) PROVE IsList(p \o q)
<1> DEFINE S == Range(p) \cup Range(q)
<1>1. p \in Seq(S) /\ q \in Seq(S)
  <2>1. p \in Seq(Range(p)) /\ q \in Seq(Range(q))
    BY DEF IsList
  <2> QED
    BY <2>1
<1> HIDE DEF S
<1>2. p \o q \in Seq(S)
  BY <1>1
<1> QED
  BY <1>2, ListOf

\* What a concatenation holds.
LEMMA JoinedHolds ==
    ASSUME NEW p, NEW q, IsList(p), IsList(q), NEW o, o \in Range(p) \/ o \in Range(q)
    PROVE  o \in Range(p \o q)
<1> DEFINE r == p \o q
           S == Range(p) \cup Range(q)
<1>1. p \in Seq(S) /\ q \in Seq(S)
  <2>1. p \in Seq(Range(p)) /\ q \in Seq(Range(q))
    BY DEF IsList
  <2> QED
    BY <2>1
<1> HIDE DEF S
<1>2. /\ \A n \in DOMAIN p : n \in DOMAIN r /\ r[n] = p[n]
      /\ \A n \in DOMAIN q : n + Len(p) \in DOMAIN r /\ r[n + Len(p)] = q[n]
  BY <1>1
<1> HIDE DEF r
<1>3. o \in Range(r)
  BY <1>2 DEF Range
<1> QED
  BY <1>3 DEF r

LEMMA WriteHolds ==
    ASSUME NEW f
    PROVE  IsList(Write(f)) /\ [do |-> "write", file |-> f] \in Range(Write(f))
<1> DEFINE a == [do |-> "truncate", file |-> f]
           b == [do |-> "write", file |-> f]
<1>1. Write(f) = <<a, b>>
  BY DEF Write
<1> HIDE DEF a, b
<1>2. IsList(<<a, b>>) /\ 2 \in DOMAIN <<a, b>> /\ <<a, b>>[2] = b
  BY Lists
<1>3. b \in Range(<<a, b>>)
  BY <1>2 DEF Range
<1> QED
  BY <1>1, <1>2, <1>3 DEF b

\* The files that are copied from are files.
LEMMA CopiedAreFiles == CopiedFiles \subseteq Files
<1>1. ASSUME NEW s \in Scripts, NEW f, [do |-> "write", file |-> f] \in Range(Program[s])
      PROVE  f \in Files
  <2> DEFINE o == [do |-> "write", file |-> f]
  <2>1. o \in Operations /\ o.do = "write" /\ o.file = f
    BY <1>1 DEF Operations
  <2> HIDE DEF o
  <2> QED
    BY <2>1 DEF Files
<1>2. "run_experiment" \in Scripts /\ "compute_abstention_report" \in Scripts
  BY DEF Scripts, Program
<1>3. /\ [do |-> "write", file |-> "results.json"] \in Range(Program["run_experiment"])
      /\ [do |-> "write", file |-> "results.csv"] \in Range(Program["run_experiment"])
  <2> DEFINE x == [do |-> "write", file |-> "results.json"]
             y == [do |-> "write", file |-> "results.csv"]
             B == RunFullBenchmark(nano, 1024, LockedSet)
             X == Write("results.json")
             Y == Write("results.csv")
             V == Write("stats_output.json")
  <2>1. IsList(B) /\ IsList(V)
    <3>1. Shaped("run_experiment", B, 2, 2)
      BY Lists, ScenarioSets, AskPiece DEF RunFullBenchmark
    <3>2. IsList(B)
      BY <3>1 DEF Shaped
    <3> QED
      BY <3>2, WriteHolds
  <2>2. IsList(X) /\ IsList(Y) /\ x \in Range(X) /\ y \in Range(Y)
    BY WriteHolds
  <2>3. Program["run_experiment"] = (B \o (X \o Y)) \o V
    BY DEF Program, Experiment, WriteResults
  <2> HIDE DEF x, y, B, X, Y, V
  <2>4. IsList(X \o Y) /\ IsList(B \o (X \o Y))
    BY <2>1, <2>2, JoinedIsList
  <2>5. x \in Range(X \o Y) /\ y \in Range(X \o Y)
    BY <2>2, JoinedHolds
  <2>6. x \in Range(B \o (X \o Y)) /\ y \in Range(B \o (X \o Y))
    BY <2>1, <2>4, <2>5, JoinedHolds
  <2>7. x \in Range((B \o (X \o Y)) \o V) /\ y \in Range((B \o (X \o Y)) \o V)
    BY <2>1, <2>4, <2>6, JoinedHolds
  <2> QED
    BY <2>3, <2>7 DEF x, y
<1>4. [do |-> "write", file |-> "abstention_metrics_report.json"] \in
          Range(Program["compute_abstention_report"])
  <2> DEFINE x == [do |-> "write", file |-> "abstention_metrics_report.json"]
             M == Merges(nano, 8000, LockedSet, <<"three_way_llm">>)
             C == <<Copy("abstention_adjusted_metric.json")>>
             W == Write("abstention_metrics_report.json")
  <2>1. IsList(M) /\ IsList(C)
    <3>1. Shaped("compute_abstention_report", M, 2, 2)
      BY Lists, ScenarioSets, AskPiece
    <3> QED
      BY <3>1, Lists DEF Shaped
  <2>2. IsList(W) /\ x \in Range(W)
    BY WriteHolds
  <2>3. Program["compute_abstention_report"] = (M \o C) \o W
    BY DEF Program, AbstentionReport
  <2> HIDE DEF x, M, C, W
  <2>4. IsList(M \o C)
    BY <2>1, JoinedIsList
  <2>5. x \in Range((M \o C) \o W)
    BY <2>2, <2>4, JoinedHolds
  <2> QED
    BY <2>3, <2>5 DEF x
<1>5. \A f \in {"results.json", "results.csv", "abstention_metrics_report.json"} : f \in Files
  BY <1>1, <1>2, <1>3, <1>4
<1>6. Supplied \subseteq Files
  BY DEF Files
<1> QED
  BY <1>5, <1>6 DEF CopiedFiles

\* The pilot counts its files before it writes.
LEMMA PilotCounts == \E n \in DOMAIN Program["run_pilot"] : Program["run_pilot"][n].do = "census"
<1> DEFINE x == Question(nano, 1024, "three_way_llm", VarianceSet[1])
           y == Question(nano, 1024, "llm_judge", VarianceSet[1])
           M == Merges(nano, 1024, PilotSet, <<"three_way_llm">>)
           J == Judgements(nano, 1024, PilotSet)
           R == [n \in 1..2 |-> Repeat(x)]
           V == [n \in 1..2 |-> Repeat(y)]
           c == [do |-> "census"]
           W == Write("pilot_summary.json")
<1>1. Program["run_pilot"] = ((((M \o J) \o R) \o V) \o <<c>>) \o W
  BY DEF Program, Pilot
<1>2. c.do = "census"
  OBVIOUS
<1>3. IsList(M) /\ IsList(J)
  <2>1. Shaped("run_pilot", M, 2, 2) /\ Shaped("run_pilot", J, 2, 2)
    BY ScenarioSets, AskByOne DEF Judgements
  <2> QED
    BY <2>1 DEF Shaped
<1>0. x \in Repeated /\ y \in Repeated
  BY DEF Repeated
<1> HIDE DEF x, y
<1>4. IsList(R) /\ IsList(V)
  BY <1>0, RepeatPiece DEF Shaped
<1>5. IsList(W)
  BY WriteHolds
<1> HIDE DEF M, J, R, V, c, W
<1>6. IsList(<<c>>) /\ c \in Range(<<c>>)
  BY Lists DEF Range
<1> DEFINE a == ((M \o J) \o R) \o V
<1>7. IsList(a)
  BY <1>3, <1>4, JoinedIsList
<1> HIDE DEF a
<1>8. IsList(a \o <<c>>) /\ c \in Range(a \o <<c>>)
  BY <1>6, <1>7, JoinedHolds, JoinedIsList
<1>9. c \in Range((a \o <<c>>) \o W)
  BY <1>5, <1>8, JoinedHolds
<1>10. c \in Range(Program["run_pilot"])
  BY <1>1, <1>9 DEF a
<1> QED
  BY <1>2, <1>10 DEF Range

-----------------------------------------------------------------------------
(* What the proofs below need to know of a program.                         *)

LEMMA Positions ==
    ASSUME NEW s \in Scripts
    PROVE  /\ Len(Program[s]) \in Nat /\ DOMAIN Program[s] = 1..Len(Program[s])
           /\ \A n \in DOMAIN Program[s] : Allowed(s, Program[s][n])
<1>1. IsList(Program[s]) /\ \A n \in DOMAIN Program[s] : Allowed(s, Program[s][n])
  BY AllShaped DEF Shaped
<1> QED
  BY <1>1 DEF IsList

LEMMA PhasesInOrder ==
    ASSUME NEW s \in Scripts, NEW m \in DOMAIN Program[s], NEW n \in DOMAIN Program[s],
           Phase(s, Program[s][m].do) < Phase(s, Program[s][n].do)
    PROVE  m < n
<1>1. /\ \A k \in DOMAIN Program[s] : Phase(s, Program[s][k].do) \in 1..4
      /\ \A j, k \in DOMAIN Program[s] :
             j < k => Phase(s, Program[s][j].do) <= Phase(s, Program[s][k].do)
  BY AllShaped DEF Shaped
<1>2. m \in Nat /\ n \in Nat
  BY Positions
<1> DEFINE P(k) == Phase(s, Program[s][k].do)
<1>3. P(m) \in 1..4 /\ P(n) \in 1..4 /\ P(m) < P(n) /\ (n < m => P(n) <= P(m))
  BY <1>1
<1> HIDE DEF P
<1>4. ~(n < m)
  BY <1>3
<1>5. m # n
  BY <1>3
<1> QED
  BY <1>2, <1>4, <1>5

LEMMA Precedence ==
    ASSUME NEW s \in Scripts, NEW m \in DOMAIN Program[s], NEW n \in DOMAIN Program[s]
    PROVE  /\ Program[s][m].do = "ask" /\ Program[s][n].do = "write" => m < n
           /\ Program[s][m].do = "census" /\ Program[s][n].do = "write" => m < n
           /\ Program[s][m].do = "repeat" /\ Program[s][n].do = "write" => m < n
           /\ Program[s][m].do = "ask" /\ Program[s][n].do = "census" => m < n
           /\ s \notin Late /\ Program[s][m].do \in Reads /\ Program[s][n].do \in Asks => m < n
<1> DEFINE do(k) == Program[s][k].do
<1>1. Phase(s, do(m)) < Phase(s, do(n)) => m < n
  BY PhasesInOrder
<1> HIDE DEF do
<1>2. do(m) = "ask" /\ do(n) = "write" => m < n
  BY <1>1 DEF Phase, Asks, Writes
<1>3. do(m) = "census" /\ do(n) = "write" => m < n
  BY <1>1 DEF Phase, Asks, Writes
<1>4. s \notin Late /\ do(m) \in Reads /\ do(n) \in Asks => m < n
  BY <1>1 DEF Phase, Asks, Writes, Reads
<1>5. do(m) = "repeat" /\ do(n) = "write" => m < n
  BY <1>1 DEF Phase, Asks, Writes
<1>6. do(m) = "ask" /\ do(n) = "census" => m < n
  BY <1>1 DEF Phase, Asks, Writes
<1> QED
  BY <1>2, <1>3, <1>4, <1>5, <1>6 DEF do

LEMMA AskedPositions ==
    ASSUME NEW s \in Scripts
    PROVE  /\ \A q : q \in AskedBy[s] <=>
                  \E n \in DOMAIN Program[s] : Program[s][n].do = "ask" /\ Program[s][n].q = q
           /\ AskedBy[s] \subseteq Questions
           /\ AskedBy[s] = AskedIn(Program[s])
<1>1. AskedBy[s] = AskedIn(Program[s])
  BY DEF AskedBy, AskedIn
<1>2. \A q : q \in AskedIn(Program[s]) <=>
          \E n \in DOMAIN Program[s] : Program[s][n].do = "ask" /\ Program[s][n].q = q
  BY DEF AskedIn, Range
<1>3. DOMAIN AskedBy = Scripts
  BY DEF AskedBy
<1>4. AskedBy[s] \subseteq Questions
  BY <1>3 DEF Questions, Range
<1> QED
  BY <1>1, <1>2, <1>4

LEMMA QuestionsWithin ==
    ASSUME NEW model, NEW tokens, NEW X, NEW Y, NEW Z,
           \A m \in DOMAIN Y : \E k \in DOMAIN Z : Z[k] = Y[m]
    PROVE  QuestionsOf(model, tokens, X, Y) \subseteq QuestionsOf(model, tokens, X, Z)
BY DEF QuestionsOf

\* A replay asks what the runs it replays have asked.
LEMMA ReplaysAskNothingNew ==
    ASSUME NEW s \in DOMAIN ReplaysOf
    PROVE  /\ s \in Scripts /\ s # "run_pilot" /\ ReplaysOf[s] \subseteq Scripts
           /\ \A q \in AskedBy[s] : \E t \in ReplaysOf[s] : q \in AskedBy[t]
<1>1. s \in {"run_noise_sensitivity", "analyze_semantic_resolvable_failures", "analyze_rq2_f1_drift"}
  BY DEF ReplaysOf
<1>2. /\ ReplaysOf["run_noise_sensitivity"] = {"run_experiment"}
      /\ ReplaysOf["analyze_semantic_resolvable_failures"] = {"run_semantic_resolvable_experiment"}
      /\ ReplaysOf["analyze_rq2_f1_drift"] = {"run_pilot", "run_experiment"}
  BY DEF ReplaysOf
<1>3. {"run_noise_sensitivity", "analyze_semantic_resolvable_failures", "analyze_rq2_f1_drift",
       "run_experiment", "run_semantic_resolvable_experiment", "run_pilot"} \subseteq Scripts
  BY DEF Scripts, Program
<1>4. AskedBy["run_noise_sensitivity"] \subseteq AskedBy["run_experiment"]
  <2>1. QuestionsOf(nano, 1024, LockedSet, <<"three_way_llm">>) \subseteq
            QuestionsOf(nano, 1024, LockedSet, <<"three_way_llm", "llm_judge">>)
    BY Lists, QuestionsWithin
  <2> QED
    BY <1>3, <2>1, AskedPositions, NoiseShape, ExperimentShape
<1>5. AskedBy["analyze_semantic_resolvable_failures"] \subseteq AskedBy["run_semantic_resolvable_experiment"]
  <2>1. QuestionsOf(nano, 8000, SemanticSet, <<"three_way_llm">>) \subseteq
            QuestionsOf(nano, 8000, SemanticSet, SemanticStrategies)
    BY Lists, QuestionsWithin DEF SemanticStrategies
  <2> QED
    BY <1>3, <2>1, AskedPositions, PlainShapes
<1>6. AskedBy["analyze_rq2_f1_drift"] \subseteq AskedBy["run_pilot"] \cup AskedBy["run_experiment"]
  <2>1. QuestionsOf(nano, 1024, LockedSet, <<"llm_judge">>) \subseteq
            QuestionsOf(nano, 1024, LockedSet, <<"three_way_llm", "llm_judge">>)
    BY Lists, QuestionsWithin
  <2> QED
    BY <1>3, <2>1, AskedPositions, DriftShape, PilotShape, ExperimentShape
<1> QED
  BY <1>1, <1>2, <1>3, <1>4, <1>5, <1>6

-----------------------------------------------------------------------------
(* What a run has asked before its operation n.                             *)

HadBefore(s, n) ==
    {q \in Questions :
        \E m \in DOMAIN Program[s] : m < n /\ Program[s][m].do = "ask" /\ Program[s][m].q = q}

LEMMA HadAtStart ==
    ASSUME NEW s \in Scripts
    PROVE  HadBefore(s, 1) = {}
<1>1. \A m \in DOMAIN Program[s] : ~(m < 1)
  BY Positions
<1> QED
  BY <1>1 DEF HadBefore

LEMMA HadNext ==
    ASSUME NEW s \in Scripts, NEW n \in DOMAIN Program[s], NEW q
    PROVE  q \in HadBefore(s, n + 1) <=>
               q \in HadBefore(s, n) \/ (Program[s][n].do = "ask" /\ q = Program[s][n].q)
<1>1. \A m \in DOMAIN Program[s] : m < n + 1 <=> m < n \/ m = n
  BY Positions
<1>2. Program[s][n].do = "ask" => Program[s][n].q \in Questions
  BY AskedPositions
<1> QED
  BY <1>1, <1>2 DEF HadBefore

\* All questions of a script are asked before it counts or writes, and before
\* it ends.
LEMMA AllHad ==
    ASSUME NEW s \in Scripts, NEW n \in 1..(Len(Program[s]) + 1),
           n \in DOMAIN Program[s] => Program[s][n].do \in {"write", "census"}
    PROVE  HadBefore(s, n) = AskedBy[s]
<1>1. ASSUME NEW m \in DOMAIN Program[s], Program[s][m].do = "ask"
      PROVE  m < n
  <2>1. CASE n \in DOMAIN Program[s]
    BY <1>1, <2>1, Precedence
  <2>2. CASE n \notin DOMAIN Program[s]
    BY <2>2, Positions
  <2> QED
    BY <2>1, <2>2
<1>2. \A q : q \in AskedBy[s] <=>
          \E m \in DOMAIN Program[s] : Program[s][m].do = "ask" /\ Program[s][m].q = q
  BY AskedPositions
<1>3. AskedBy[s] \subseteq Questions
  BY AskedPositions
<1>4. \A q : q \in HadBefore(s, n) <=> q \in AskedBy[s]
  BY <1>1, <1>2, <1>3 DEF HadBefore
<1> QED
  BY <1>4

-----------------------------------------------------------------------------
(* The invariant of the runs.                                               *)

\* With the cache as it is in k, c is the replies that a run of s rests on.
\* No reply in the cache is replaced: it then rests on them for good.
Rests(s, c, k) ==
    /\ \A q \in AskedBy[s] : k[q] # None
    /\ c = {<<q, k[q]>> : q \in AskedBy[s]}

\* c is what file f says whenever it says anything.
Says(f, c, k) == IF f \in Supplied THEN c = {} ELSE Rests(Producer(f), c, k)
AllSay(files, k) ==
    DOMAIN files \subseteq CopiedFiles /\ \A f \in DOMAIN files : Says(f, files[f], k)

Started == outcome # "none"

Typed ==
    /\ cache \in [Questions -> Nat \cup {None, Torn, Poison}]
    /\ answers \in [Questions -> Nat]
    /\ DOMAIN results = Files
    /\ paid \in BOOLEAN /\ promised \in BOOLEAN
    /\ finished \subseteq Scripts
    /\ Started => script \in Scripts /\ at \in 1..(Len(Program[script]) + 1)

\* A reply that a run has gone past is there, and could be read.
HadOK ==
    Running =>
        /\ \A q \in HadBefore(script, at) : cache[q] # None /\ Readable(q)
        /\ used = {<<q, cache[q]>> : q \in HadBefore(script, at)}

CopiedOK == Running => AllSay(copied, cache)

\* Past its count of the files, the pilot knows that none is torn.
CensusTaken ==
    (/\ Running /\ script = "run_pilot"
     /\ \E n \in DOMAIN Program[script] : n < at /\ Program[script][n].do = "census") =>
        \A q \in Questions : cache[q] # Torn

PaidOK ==
    paid => Started /\ \E n \in DOMAIN Program[script] : n <= at /\ Program[script][n].do \in Asks

InputOK ==
    outcome = "no input" =>
        Started /\ at \in DOMAIN Program[script] /\ Program[script][at].do \in Reads

\* A run that is documented to be free of cost finds all its replies.
PromiseOK ==
    promised => /\ ~paid /\ Started /\ script # "run_pilot"
                /\ \A q \in AskedBy[script] : cache[q] # None

FinishedOK == \A s \in finished : \A q \in AskedBy[s] : cache[q] # None

ResultOK(f, r, k) ==
    \/ f \in Supplied /\ r = ByHand
    \/ /\ f \notin Supplied /\ r.by \in Scripts
       /\ f \in CopiedFiles => r.by = Producer(f)
       /\ Rests(r.by, r.used, k)
       /\ AllSay(r.copied, k)

ResultsOK == \A f \in Files : Whole(f) => ResultOK(f, results[f], cache)

(* What the pilot's summary says beside.  Answers are numbered, so that an  *)
(* answer past the cache is none that a file holds, then or later.          *)

RepeatsFor(R, q) == {x \in R : x[1] = q}
RepeatsBefore(s, n, q) == {m \in RepeatsOf(s, q) : m < n}

\* With the cache as in k and a answers paid for, all of R are answers that the
\* cache does not hold, and every one it may come to hold will be a later one.
Fresh(R, k, a) ==
    \A x \in R : \E q \in Questions, n \in Nat : x = <<q, n>> /\ n <= a[q] /\ k[q] # n

AnswersOK == \A q \in Questions : cache[q] \in Nat => cache[q] <= answers[q]

\* As many answers past the cache as the run has asked for.
RepeatsOK ==
    Running =>
        /\ Fresh(repeats, cache, answers)
        /\ \A q : /\ IsFiniteSet(RepeatsFor(repeats, q))
                  /\ Cardinality(RepeatsFor(repeats, q)) = Cardinality(RepeatsBefore(script, at, q))

StoredIn(k) == {<<q, k[q]>> : q \in {p \in Questions : k[p] # None}}

\* Past its count of the files, a run has counted all that it rests on.
CountedOK ==
    Running =>
        /\ counted \subseteq StoredIn(cache)
        /\ (\E n \in DOMAIN Program[script] : n < at /\ Program[script][n].do = "census") =>
               \A q \in AskedBy[script] : cache[q] # None /\ <<q, cache[q]>> \in counted

PilotOnly == Running /\ script # "run_pilot" => repeats = {} /\ counted = {}

SummaryOK(r, k, a) ==
    /\ r.by # "run_pilot" => r.repeats = {} /\ r.counted = {}
    /\ Fresh(r.repeats, k, a)
    /\ r.by \in Scripts =>
           \A q : Cardinality(RepeatsFor(r.repeats, q)) = Cardinality(RepeatsOf(r.by, q))
    /\ r.counted \subseteq StoredIn(k)
    /\ r.by = "run_pilot" => r.used \subseteq r.counted

SummariesOK == \A f \in Files : Whole(f) => SummaryOK(results[f], cache, answers)

PilotInv == AnswersOK /\ RepeatsOK /\ CountedOK /\ PilotOnly /\ SummariesOK

IInv ==
    /\ Typed /\ HadOK /\ CopiedOK /\ CensusTaken /\ PaidOK /\ InputOK
    /\ PromiseOK /\ FinishedOK /\ ResultsOK /\ PilotInv

-----------------------------------------------------------------------------
(* What steps leave alone.                                                  *)

\* No reply in cache k is another one, or gone, in cache l.
Keeps(k, l) == \A q \in Questions : k[q] # None => l[q] = k[q]

LEMMA RestsStays ==
    ASSUME NEW s \in Scripts, NEW c, NEW k, NEW l, Keeps(k, l), Rests(s, c, k)
    PROVE  Rests(s, c, l)
<1>1. AskedBy[s] \subseteq Questions
  BY AskedPositions
<1>2. \A q \in AskedBy[s] : l[q] = k[q]
  BY <1>1 DEF Keeps, Rests
<1> QED
  BY <1>2 DEF Rests

LEMMA ProducersAreScripts == \A f : Producer(f) \in Scripts
BY DEF Producer, Scripts, Program

LEMMA SaysStays ==
    ASSUME NEW f, NEW c, NEW k, NEW l, Keeps(k, l), Says(f, c, k)
    PROVE  Says(f, c, l)
BY RestsStays, ProducersAreScripts DEF Says

LEMMA AllSayStays ==
    ASSUME NEW files, NEW k, NEW l, Keeps(k, l), AllSay(files, k)
    PROVE  AllSay(files, l)
BY SaysStays DEF AllSay

LEMMA ResultStays ==
    ASSUME NEW f, NEW r, NEW k, NEW l, Keeps(k, l), ResultOK(f, r, k)
    PROVE  ResultOK(f, r, l)
<1>1. \A s \in Scripts : \A c : Rests(s, c, k) => Rests(s, c, l)
  BY RestsStays
<1>2. AllSay(r.copied, k) => AllSay(r.copied, l)
  BY AllSayStays
<1> QED
  BY <1>1, <1>2 DEF ResultOK

\* Types and cache through a step.
LEMMA OperationTyped ==
    ASSUME Typed, AtOperation
    PROVE  /\ script \in Scripts /\ at \in DOMAIN Program[script] /\ at \in 1..Len(Program[script])
           /\ at + 1 \in 1..(Len(Program[script]) + 1)
           /\ op.do = "ask" => op.q \in AskedBy[script] /\ op.q \in Questions
           /\ Allowed(script, op)
<1>1. script \in Scripts /\ at \in DOMAIN Program[script]
  BY DEF Typed, Started, AtOperation, Running
<1>2. at \in 1..Len(Program[script]) /\ Len(Program[script]) \in Nat
  BY <1>1, Positions
<1>3. at + 1 \in 1..(Len(Program[script]) + 1)
  BY <1>2
<1>4. op.do = "ask" => op.q \in AskedBy[script] /\ op.q \in Questions
  BY <1>1, AskedPositions DEF op
<1>5. Allowed(script, op)
  BY <1>1, Positions DEF op
<1> QED
  BY <1>1, <1>2, <1>3, <1>4, <1>5

\* Every step is of one of these shapes: the cache.
LEMMA CacheSteps ==
    ASSUME Typed, [Next]_vars
    PROVE  \/ UNCHANGED <<cache, answers>>
           \/ /\ UNCHANGED cache /\ answers' \in [Questions -> Nat]
           \/ /\ AtOperation /\ op.do = "ask" /\ cache[op.q] = None /\ answers' \in [Questions -> Nat]
              /\ \E c \in Nat \cup {Torn, Poison} :
                     /\ cache' = [cache EXCEPT ![op.q] = c]
                     /\ c = Torn => outcome' = "killed"
<1>1. CASE \E s \in Scripts : Start(s)
  BY <1>1 DEF Start
<1>2. CASE TakeReply
  BY <1>2 DEF TakeReply
<1>3. CASE Pay
  <2>1. op.q \in Questions /\ answers[op.q] + 1 \in Nat
    BY <1>3, OperationTyped DEF Pay, Typed
  <2>2. answers' \in [Questions -> Nat] /\ answers'[op.q] \in Nat
    BY <1>3, <2>1 DEF Pay, Typed
  <2>3. \E c \in Nat \cup {Poison} : cache' = [cache EXCEPT ![op.q] = c]
    BY <1>3, <2>2 DEF Pay
  <2>4. \A c \in Nat \cup {Poison} : c # Torn
    BY ExperimentsAssumption
  <2> QED
    BY <1>3, <2>2, <2>3, <2>4 DEF Pay
<1>4. CASE ReplyRaises
  BY <1>4 DEF ReplyRaises
<1>5. CASE AskAgain
  BY <1>5 DEF AskAgain, Typed
<1>6. CASE Census
  BY <1>6 DEF Census
<1>7. CASE ReadResult
  BY <1>7 DEF ReadResult
<1>8. CASE WriteResult
  BY <1>8 DEF WriteResult
<1>9. CASE Finish
  BY <1>9 DEF Finish
<1>10. CASE Kill
  <2>1. CASE UNCHANGED <<cache, answers, paid>>
    BY <2>1
  <2>2. CASE ~UNCHANGED <<cache, answers, paid>>
    <3>1. /\ AtOperation /\ op.do = "ask" /\ cache[op.q] = None
          /\ answers' = [answers EXCEPT ![op.q] = @ + 1]
          /\ UNCHANGED cache \/ cache' = [cache EXCEPT ![op.q] = Torn]
      BY <1>10, <2>2 DEF Kill
    <3>2. answers' \in [Questions -> Nat]
      BY <3>1, OperationTyped DEF Typed
    <3>3. outcome' = "killed"
      BY <1>10 DEF Kill, End
    <3> QED
      BY <3>1, <3>2, <3>3
  <2> QED
    BY <2>1, <2>2
<1>11. CASE UNCHANGED vars
  BY <1>11 DEF vars
<1> QED
  BY <1>1, <1>2, <1>3, <1>4, <1>5, <1>6, <1>7, <1>8, <1>9, <1>10, <1>11 DEF Next

\* No step replaces or loses a reply, and one that leaves a torn file ends its run.
LEMMA CacheKept ==
    ASSUME Typed, [Next]_vars
    PROVE  /\ Keeps(cache, cache')
           /\ cache' \in [Questions -> Nat \cup {None, Torn, Poison}]
           /\ answers' \in [Questions -> Nat]
           /\ \A q \in Questions : cache'[q] = Torn => cache[q] = Torn \/ outcome' = "killed"
<1>1. CASE UNCHANGED cache
  <2>1. answers' \in [Questions -> Nat]
    BY CacheSteps DEF Typed
  <2> QED
    BY <1>1, <2>1 DEF Typed, Keeps
<1>2. CASE ~UNCHANGED cache
  <2>1. /\ AtOperation /\ op.do = "ask" /\ cache[op.q] = None /\ answers' \in [Questions -> Nat]
        /\ \E c \in Nat \cup {Torn, Poison} :
               /\ cache' = [cache EXCEPT ![op.q] = c]
               /\ c = Torn => outcome' = "killed"
    BY <1>2, CacheSteps
  <2>2. PICK c \in Nat \cup {Torn, Poison} :
            /\ cache' = [cache EXCEPT ![op.q] = c]
            /\ c = Torn => outcome' = "killed"
    BY <2>1
  <2>3. op.q \in Questions /\ cache \in [Questions -> Nat \cup {None, Torn, Poison}]
    BY <2>1, OperationTyped DEF Typed
  <2>4. cache' \in [Questions -> Nat \cup {None, Torn, Poison}]
    BY <2>2, <2>3
  <2>5. \A q \in Questions : cache'[q] = IF q = op.q THEN c ELSE cache[q]
    BY <2>2, <2>3
  <2> QED
    BY <2>1, <2>2, <2>4, <2>5 DEF Keeps
<1> QED
  BY <1>1, <1>2

\* The other variables of a run.
LEMMA RunSteps ==
    ASSUME Typed, [Next]_vars
    PROVE  \/ /\ ~Running /\ \E s \in Scripts : Start(s)
           \/ /\ AtOperation /\ GoOn
           \/ /\ Running /\ \E how \in {"raised", "no input", "killed"} : End(how)
           \/ Finish
           \/ UNCHANGED <<script, at, outcome, promised, finished, starts>>
<1>1. CASE \E s \in Scripts : Start(s)
  BY <1>1 DEF Start
<1>2. CASE TakeReply
  BY <1>2 DEF TakeReply
<1>3. CASE Pay
  BY <1>3 DEF Pay
<1>4. CASE ReplyRaises
  BY <1>4 DEF ReplyRaises, AtOperation
<1>5. CASE AskAgain
  BY <1>5 DEF AskAgain, AtOperation
<1>6. CASE Census
  BY <1>6 DEF Census, AtOperation
<1>7. CASE ReadResult
  BY <1>7 DEF ReadResult, AtOperation
<1>8. CASE WriteResult
  BY <1>8 DEF WriteResult
<1>9. CASE Finish
  BY <1>9
<1>10. CASE Kill
  BY <1>10 DEF Kill
<1>11. CASE UNCHANGED vars
  BY <1>11 DEF vars
<1> QED
  BY <1>1, <1>2, <1>3, <1>4, <1>5, <1>6, <1>7, <1>8, <1>9, <1>10, <1>11 DEF Next

-----------------------------------------------------------------------------
(* The invariant holds at first and is kept.                                *)

\* Who runs, and where, through a step.
LEMMA PlaceKept ==
    ASSUME Typed, [Next]_vars
    PROVE  /\ Started' => script' \in Scripts /\ at' \in 1..(Len(Program[script']) + 1)
           /\ finished' \subseteq Scripts
           /\ Started => Started'
<1>1. CASE ~Running /\ \E s \in Scripts : Start(s)
  <2>1. PICK s \in Scripts : Start(s)
    BY <1>1
  <2>2. Len(Program[s]) \in Nat
    BY Positions
  <2>3. 1 \in 1..(Len(Program[s]) + 1)
    BY <2>2
  <2> QED
    BY <2>1, <2>3 DEF Start, Started, Typed
<1>2. CASE AtOperation /\ GoOn
  BY <1>2, OperationTyped DEF GoOn, Started, Typed
<1>3. CASE Running /\ \E how \in {"raised", "no input", "killed"} : End(how)
  BY <1>3 DEF End, Started, Typed, Running
<1>4. CASE Finish
  BY <1>4 DEF Finish, Started, Typed, Running
<1>5. CASE UNCHANGED <<script, at, outcome, promised, finished, starts>>
  BY <1>5 DEF Started, Typed
<1> QED
  BY <1>1, <1>2, <1>3, <1>4, <1>5, RunSteps

\* What steps do to results.
LEMMA ResultSteps ==
    ASSUME [Next]_vars
    PROVE  UNCHANGED results \/ WriteResult
BY DEF Next, vars, Start, TakeReply, Pay, ReplyRaises, AskAgain, Census, ReadResult, Finish, Kill

LEMMA TypedKept == Typed /\ [Next]_vars => Typed'
<1> SUFFICES ASSUME Typed, [Next]_vars PROVE Typed'
  OBVIOUS
<1>1. DOMAIN results' = Files
  <2>1. CASE UNCHANGED results
    BY <2>1 DEF Typed
  <2>2. CASE WriteResult
    BY <2>2 DEF WriteResult, Typed
  <2> QED
    BY <2>1, <2>2, ResultSteps
<1>2. paid' \in BOOLEAN
  BY DEF Next, vars, Start, TakeReply, Pay, ReplyRaises, AskAgain, Census, ReadResult,
         WriteResult, Finish, Kill, Typed
<1>3. promised' \in BOOLEAN
  BY RunSteps DEF Start, GoOn, End, Finish, Typed, FreeOfCost
<1> QED
  BY <1>1, <1>2, <1>3, CacheKept, PlaceKept DEF Typed

\* What a run that goes on has done: taken a reply, gone past an operation that
\* takes none, or stayed where it is.
LEMMA GoingOn ==
    ASSUME Typed, [Next]_vars, Running'
    PROVE  \/ \E s \in Scripts : Start(s)
           \/ /\ Running /\ AtOperation /\ GoOn /\ op.do = "ask"
              /\ cache[op.q] # None /\ Readable(op.q) /\ used' = used \cup {<<op.q, cache[op.q]>>}
              /\ UNCHANGED <<cache, copied>>
           \/ /\ Running /\ AtOperation /\ GoOn /\ op.do # "ask" /\ UNCHANGED <<cache, used>>
              /\ op.do = "census" => \A q \in Questions : cache[q] # Torn
              /\ \/ UNCHANGED copied
                 \/ /\ op.do \in {"copy", "copy_if_there"} /\ Whole(op.file)
                    /\ copied' = Noting(op.file, results[op.file].used)
           \/ Running /\ UNCHANGED <<script, at, used, copied>>
<1>1. CASE \E s \in Scripts : Start(s)
  BY <1>1
<1>2. CASE TakeReply
  BY <1>2 DEF TakeReply, AtOperation
<1>3. CASE Pay
  BY <1>3 DEF Pay, AtOperation
<1>4. CASE ReplyRaises
  BY <1>4 DEF ReplyRaises, End, Running
<1>5. CASE AskAgain
  BY <1>5 DEF AskAgain, End, Running, AtOperation
<1>6. CASE Census
  BY <1>6 DEF Census, End, Running, AtOperation
<1>7. CASE ReadResult
  <2>1. Running /\ AtOperation /\ UNCHANGED cache /\ op.do \in {"check", "copy", "copy_if_there"}
    BY <1>7 DEF ReadResult, AtOperation
  <2>2. op.do # "ask" /\ op.do # "census"
    BY <2>1
  <2>3. ~End("no input")
    BY DEF End, Running
  <2>4. /\ GoOn /\ UNCHANGED used
        /\ \/ UNCHANGED copied
           \/ /\ op.do # "check" /\ Whole(op.file)
              /\ copied' = Noting(op.file, results[op.file].used)
    BY <1>7, <2>3 DEF ReadResult
  <2> QED
    BY <2>1, <2>2, <2>4
<1>8. CASE WriteResult
  BY <1>8 DEF WriteResult, AtOperation
<1>9. CASE Finish
  BY <1>9 DEF Finish, Running
<1>10. CASE Kill
  BY <1>10 DEF Kill, End, Running
<1>11. CASE UNCHANGED vars
  BY <1>11 DEF vars, Running
<1> QED
  BY <1>1, <1>2, <1>3, <1>4, <1>5, <1>6, <1>7, <1>8, <1>9, <1>10, <1>11 DEF Next

LEMMA HadWithin == \A s, n : HadBefore(s, n) \subseteq Questions
BY DEF HadBefore

LEMMA HadKept == Typed /\ HadOK /\ [Next]_vars => HadOK'
<1> SUFFICES ASSUME Typed, HadOK, [Next]_vars, Running' PROVE HadOK'
  BY DEF HadOK
<1> DEFINE H == HadBefore(script, at)
           K == HadBefore(script', at')
<1>1. Running => /\ \A q \in H : cache[q] # None /\ Readable(q)
                 /\ used = {<<q, cache[q]>> : q \in H}
  BY DEF HadOK
<1>2. SUFFICES /\ \A q \in K : cache'[q] # None /\ Readable(q)'
               /\ used' = {<<q, cache'[q]>> : q \in K}
  BY DEF HadOK
<1>3. CASE \E s \in Scripts : Start(s)
  <2>1. PICK s \in Scripts : Start(s)
    BY <1>3
  <2>2. K = {} /\ used' = {}
    BY <2>1, HadAtStart DEF Start
  <2> HIDE DEF K
  <2> QED
    BY <2>2
<1>4. CASE /\ Running /\ AtOperation /\ GoOn /\ op.do = "ask"
           /\ cache[op.q] # None /\ Readable(op.q) /\ used' = used \cup {<<op.q, cache[op.q]>>}
           /\ UNCHANGED <<cache, copied>>
  <2>1. \A q : q \in K <=> q \in H \/ q = op.q
    BY <1>4, OperationTyped, HadNext DEF op, GoOn
  <2> HIDE DEF H, K
  <2>2. K = H \cup {op.q}
    BY <2>1
  <2>3. \A q : Readable(q)' <=> Readable(q)
    BY <1>4 DEF Readable
  <2>4. \A q \in K : cache'[q] # None /\ Readable(q)'
    BY <1>1, <1>4, <2>1, <2>3
  <2>5. used' = {<<q, cache'[q]>> : q \in K}
    BY <1>1, <1>4, <2>2
  <2> QED
    BY <2>4, <2>5
<1>5. CASE Running /\ AtOperation /\ GoOn /\ op.do # "ask" /\ UNCHANGED <<cache, used>>
  <2>1. \A q : q \in K <=> q \in H
    BY <1>5, OperationTyped, HadNext DEF op, GoOn
  <2> HIDE DEF H, K
  <2>2. K = H
    BY <2>1
  <2>3. \A q : Readable(q)' <=> Readable(q)
    BY <1>5 DEF Readable
  <2> QED
    BY <1>1, <1>5, <2>2, <2>3
<1>6. CASE Running /\ UNCHANGED <<script, at, used, copied>>
  <2>1. K = H /\ H \subseteq Questions
    BY <1>6, HadWithin
  <2>2. \A q \in Questions : cache[q] # None => cache'[q] = cache[q]
    BY CacheKept DEF Keeps
  <2> HIDE DEF H, K
  <2>3. \A q \in H : cache[q] # None /\ Readable(q) /\ cache'[q] = cache[q]
    BY <1>1, <1>6, <2>1, <2>2
  <2>4. \A q \in H : cache'[q] # None /\ Readable(q)'
    BY <2>3 DEF Readable
  <2>5. used' = {<<q, cache'[q]>> : q \in H}
    BY <1>1, <1>6, <2>3
  <2> QED
    BY <2>1, <2>4, <2>5
<1> QED
  BY <1>3, <1>4, <1>5, <1>6, GoingOn

\* What a result says, when it says anything.
LEMMA ResultSays ==
    ASSUME NEW f, NEW r, NEW k, f \in CopiedFiles, ResultOK(f, r, k)
    PROVE  Says(f, r.used, k)
BY DEF ResultOK, Says, ByHand

LEMMA CopiedKept == Typed /\ CopiedOK /\ ResultsOK /\ [Next]_vars => CopiedOK'
<1> SUFFICES ASSUME Typed, CopiedOK, ResultsOK, [Next]_vars, Running'
             PROVE  AllSay(copied', cache')
  BY DEF CopiedOK
<1>1. Keeps(cache, cache')
  BY CacheKept
<1>2. CASE \E s \in Scripts : Start(s)
  <2>1. copied' = <<>>
    BY <1>2 DEF Start
  <2> QED
    BY <2>1 DEF AllSay
<1>3. CASE Running /\ UNCHANGED copied
  BY <1>1, <1>3, AllSayStays DEF CopiedOK
<1>4. CASE /\ Running /\ AtOperation /\ UNCHANGED cache
           /\ op.do \in {"copy", "copy_if_there"} /\ Whole(op.file)
           /\ copied' = Noting(op.file, results[op.file].used)
  <2> DEFINE g == op.file
             u == results[g].used
  <2>1. g \in CopiedFiles
    BY <1>4, OperationTyped DEF Allowed
  <2>2. ResultOK(g, results[g], cache)
    BY <1>4, <2>1, CopiedAreFiles DEF ResultsOK
  <2>3. Says(g, u, cache)
    BY <2>1, <2>2, ResultSays
  <2>4. AllSay(copied, cache)
    BY <1>4 DEF CopiedOK
  <2>5. /\ DOMAIN copied' = DOMAIN copied \cup {g}
        /\ \A f \in DOMAIN copied' : copied'[f] = IF f = g THEN u ELSE copied[f]
    BY <1>4 DEF Noting
  <2> HIDE DEF g, u
  <2> QED
    BY <1>4, <2>1, <2>3, <2>4, <2>5 DEF AllSay
<1> QED
  BY <1>2, <1>3, <1>4, GoingOn

LEMMA CensusKept == Typed /\ CensusTaken /\ [Next]_vars => CensusTaken'
<1> DEFINE Past(s, n) == \E m \in DOMAIN Program[s] : m < n /\ Program[s][m].do = "census"
<1> SUFFICES ASSUME Typed, CensusTaken, [Next]_vars, Running', script' = "run_pilot",
                    Past(script', at'), NEW q \in Questions
             PROVE  cache'[q] # Torn
  BY DEF CensusTaken
<1>1. cache'[q] = Torn => cache[q] = Torn
  BY CacheKept DEF Running
<1>2. Running /\ script = "run_pilot" /\ Past(script, at) => cache[q] # Torn
  BY DEF CensusTaken
<1>3. CASE \E s \in Scripts : Start(s)
  <2>1. script' \in Scripts /\ at' = 1
    BY <1>3 DEF Start
  <2> QED
    BY <2>1, Positions
<1>4. CASE /\ Running /\ AtOperation /\ GoOn
           /\ op.do = "census" => \A r \in Questions : cache[r] # Torn
  <2>1. script' = script /\ at' = at + 1
    BY <1>4 DEF GoOn
  <2>2. PICK m \in DOMAIN Program[script] : m < at + 1 /\ Program[script][m].do = "census"
    BY <2>1
  <2>3. m < at \/ m = at
    BY <1>4, <2>2, OperationTyped, Positions
  <2> QED
    BY <1>1, <1>2, <1>4, <2>1, <2>2, <2>3 DEF op
<1>5. CASE Running /\ UNCHANGED <<script, at>>
  BY <1>1, <1>2, <1>5
<1>6. CASE Running /\ AtOperation /\ GoOn /\ op.do = "ask"
  BY <1>4, <1>6
<1> QED
  BY <1>3, <1>4, <1>5, <1>6, GoingOn

\* Whoever pays is at, or has just gone past, an operation that asks.
LEMMA PaySteps ==
    ASSUME Typed, [Next]_vars, paid'
    PROVE  /\ script' = script /\ at' \in {at, at + 1}
           /\ promised' = promised
           /\ \/ paid
              \/ /\ AtOperation /\ op.do \in Asks
                 /\ \/ op.do = "ask" /\ cache[op.q] = None
                    \/ op.do = "repeat"
<1>1. CASE \E s \in Scripts : Start(s)
  BY <1>1 DEF Start
<1>2. CASE Pay
  BY <1>2 DEF Pay, Asks, AtOperation, Running, Started
<1>3. CASE AskAgain
  BY <1>3 DEF AskAgain, Asks, AtOperation, Running, Started, GoOn, End
<1>4. CASE Kill
  BY <1>4 DEF Kill, Asks, AtOperation, Running, Started, End
<1>5. CASE TakeReply \/ ReplyRaises \/ Census \/ ReadResult \/ WriteResult \/ Finish
  BY <1>5 DEF TakeReply, ReplyRaises, Census, ReadResult, WriteResult, Finish, AtOperation, Running,
              Started, GoOn, End
<1>6. CASE UNCHANGED vars
  BY <1>6 DEF vars
<1> QED
  BY <1>1, <1>2, <1>3, <1>4, <1>5, <1>6 DEF Next

LEMMA PaidKept == Typed /\ PaidOK /\ [Next]_vars => PaidOK'
<1> DEFINE Past(s, n) == \E m \in DOMAIN Program[s] : m <= n /\ Program[s][m].do \in Asks
<1> SUFFICES ASSUME Typed, PaidOK, [Next]_vars, paid'
             PROVE  Started' /\ Past(script', at')
  BY DEF PaidOK
<1>1. script' = script /\ at' \in {at, at + 1}
  BY PaySteps
<1>2. CASE paid
  <2>1. Started /\ script \in Scripts /\ at \in Nat
    BY <1>2, Positions DEF PaidOK, Typed
  <2>2. PICK m \in DOMAIN Program[script] : m <= at /\ Program[script][m].do \in Asks
    BY <1>2 DEF PaidOK
  <2>3. m \in Nat
    BY <2>1, Positions
  <2>4. m <= at'
    BY <1>1, <2>1, <2>2, <2>3
  <2> QED
    BY <1>1, <2>1, <2>2, <2>4, PlaceKept
<1>3. CASE AtOperation /\ op.do \in Asks
  <2>1. at \in DOMAIN Program[script] /\ at \in Nat /\ Program[script][at].do \in Asks
    BY <1>3, OperationTyped DEF op
  <2>2. at <= at' /\ Started'
    BY <1>1, <1>3, <2>1, PlaceKept DEF AtOperation, Running, Started
  <2> QED
    BY <1>1, <2>1, <2>2
<1> QED
  BY <1>2, <1>3, PaySteps

LEMMA InputKept == Typed /\ InputOK /\ [Next]_vars => InputOK'
<1> SUFFICES ASSUME Typed, InputOK, [Next]_vars, outcome' = "no input" PROVE InputOK'
  BY DEF InputOK
<1>1. CASE ReadResult
  <2>1. AtOperation /\ op.do \in Reads /\ UNCHANGED <<script, at>>
    BY <1>1 DEF ReadResult, GoOn, End, AtOperation, Running, Reads
  <2> QED
    BY <2>1, OperationTyped, PlaceKept DEF InputOK, op, AtOperation, Running, Started
<1>2. CASE UNCHANGED vars
  BY <1>2 DEF vars, InputOK, Started
<1>3. ~(\E s \in Scripts : Start(s))
  BY DEF Start
<1>4. ~TakeReply /\ ~Pay /\ ~ReplyRaises /\ ~AskAgain /\ ~Census /\ ~WriteResult /\ ~Finish /\ ~Kill
  BY DEF TakeReply, Pay, ReplyRaises, AskAgain, Census, WriteResult, Finish, Kill,
         GoOn, End, AtOperation, Running
<1> QED
  BY <1>1, <1>2, <1>3, <1>4 DEF Next

LEMMA PromiseKept == Typed /\ PromiseOK /\ FinishedOK /\ [Next]_vars => PromiseOK'
<1> SUFFICES ASSUME Typed, PromiseOK, FinishedOK, [Next]_vars, promised'
             PROVE  /\ ~paid' /\ Started' /\ script' # "run_pilot"
                    /\ \A q \in AskedBy[script'] : cache'[q] # None
  BY DEF PromiseOK
<1>1. CASE \E s \in Scripts : Start(s)
  <2>1. PICK s \in Scripts : Start(s)
    BY <1>1
  <2>2. script' = s /\ outcome' = "running" /\ ~paid' /\ cache' = cache /\ FreeOfCost(s)
    BY <2>1 DEF Start
  <2>3. s # "run_pilot" /\ \A q \in AskedBy[s] : cache[q] # None
    <3>1. CASE s \in finished /\ s # "run_pilot"
      BY <3>1 DEF FinishedOK
    <3>2. CASE s \in DOMAIN ReplaysOf /\ ReplaysOf[s] \subseteq finished
      <4>1. /\ s # "run_pilot"
            /\ \A q \in AskedBy[s] : \E t \in ReplaysOf[s] : q \in AskedBy[t]
        BY <3>2, ReplaysAskNothingNew
      <4> QED
        BY <3>2, <4>1 DEF FinishedOK
    <3> QED
      BY <2>2, <3>1, <3>2 DEF FreeOfCost
  <2> QED
    BY <2>2, <2>3 DEF Started
<1>2. CASE ~(\E s \in Scripts : Start(s))
  <2>1. promised' = promised /\ script' = script
    BY <1>2, RunSteps DEF GoOn, End, Finish
  <2>2. ~paid /\ Started /\ script # "run_pilot" /\ \A q \in AskedBy[script] : cache[q] # None
    BY <2>1 DEF PromiseOK
  <2>3. script \in Scripts /\ AskedBy[script] \subseteq Questions
    BY <2>2, AskedPositions DEF Typed
  <2>4. \A q \in AskedBy[script] : cache'[q] # None
    BY <2>2, <2>3, CacheKept DEF Keeps
  <2>5. ~paid'
    <3> SUFFICES ASSUME paid' PROVE FALSE
      OBVIOUS
    <3>1. AtOperation /\ ((op.do = "ask" /\ cache[op.q] = None) \/ op.do = "repeat")
      BY <2>2, PaySteps
    <3>2. op.do = "ask" => op.q \in AskedBy[script]
      BY <3>1, OperationTyped
    <3>3. op.do # "repeat"
      BY <2>2, <3>1, OperationTyped DEF Allowed
    <3> QED
      BY <2>2, <3>1, <3>2, <3>3
  <2> QED
    BY <2>1, <2>2, <2>4, <2>5, PlaceKept
<1> QED
  BY <1>1, <1>2

LEMMA FinishedKept == Typed /\ HadOK /\ FinishedOK /\ [Next]_vars => FinishedOK'
<1> SUFFICES ASSUME Typed, HadOK, FinishedOK, [Next]_vars,
                    NEW s \in finished', NEW q \in AskedBy[s]
             PROVE  cache'[q] # None
  BY DEF FinishedOK
<1>1. s \in Scripts
  BY PlaceKept
<1>2. q \in Questions /\ (cache[q] # None => cache'[q] = cache[q])
  BY <1>1, AskedPositions, CacheKept DEF Keeps
<1>3. CASE s \in finished
  BY <1>2, <1>3 DEF FinishedOK
<1>4. CASE Finish /\ s = script
  <2>1. Running /\ ~AtOperation /\ script \in Scripts /\ at \in 1..(Len(Program[script]) + 1)
    BY <1>4 DEF Finish, Typed, Running, Started
  <2>2. at \notin DOMAIN Program[script]
    BY <2>1 DEF AtOperation
  <2>3. HadBefore(script, at) = AskedBy[script]
    BY <2>1, <2>2, AllHad
  <2> QED
    BY <1>2, <1>4, <2>1, <2>3 DEF HadOK
<1>5. UNCHANGED finished \/ Finish
  BY RunSteps DEF Start, GoOn, End
<1> QED
  BY <1>3, <1>4, <1>5 DEF Finish

\* A file that is written says what its run had from the cache.
LEMMA Written ==
    ASSUME Typed, HadOK, CopiedOK, AtOperation, op.do = "write"
    PROVE  /\ ResultOK(op.file, [by |-> script, used |-> used, copied |-> copied,
                      repeats |-> repeats, counted |-> counted], cache)
           /\ HadBefore(script, at) = AskedBy[script]
<1>1. script \in Scripts /\ at \in 1..(Len(Program[script]) + 1) /\ Allowed(script, op) /\ Running
  BY OperationTyped DEF Typed, Running, Started, AtOperation
<1>2. HadBefore(script, at) = AskedBy[script]
  BY <1>1, AllHad DEF op
<1>3. Rests(script, used, cache) /\ AllSay(copied, cache)
  BY <1>1, <1>2 DEF HadOK, CopiedOK, Rests
<1>4. /\ op.file \notin Supplied
      /\ op.file \in CopiedFiles => script = Producer(op.file)
  BY <1>1 DEF Allowed, CopiedFiles
<1> QED
  BY <1>1, <1>2, <1>3, <1>4 DEF ResultOK

LEMMA ResultsKept == Typed /\ HadOK /\ CopiedOK /\ ResultsOK /\ [Next]_vars => ResultsOK'
<1> SUFFICES ASSUME Typed, HadOK, CopiedOK, ResultsOK, [Next]_vars,
                    NEW f \in Files, results'[f] \notin {None, Torn}
             PROVE  ResultOK(f, results'[f], cache')
  BY DEF ResultsOK, Whole
<1>1. Keeps(cache, cache')
  BY CacheKept
<1>2. CASE results'[f] = results[f]
  BY <1>1, <1>2, ResultStays DEF ResultsOK, Whole
<1>3. CASE results'[f] # results[f]
  <2>1. WriteResult /\ f \in DOMAIN results
    BY <1>3, ResultSteps DEF Typed
  <2> DEFINE r == [by |-> script, used |-> used, copied |-> copied,
                      repeats |-> repeats, counted |-> counted]
  <2>2. AtOperation /\ UNCHANGED cache
    BY <2>1 DEF WriteResult
  <2>3. op.do = "write" /\ op.file = f /\ results'[f] = r
    BY <1>3, <2>1 DEF WriteResult
  <2>4. ResultOK(f, r, cache)
    BY <2>2, <2>3, Written
  <2> QED
    BY <2>2, <2>3, <2>4
<1> QED
  BY <1>2, <1>3

-----------------------------------------------------------------------------
(* The invariant of what the pilot says beside.                             *)

\* What is asked again has been asked, so it has a number of answers.
LEMMA RepeatedAreAsked == Repeated \subseteq Questions
<1>1. "run_pilot" \in Scripts
  BY DEF Scripts, Program
<1>2. VarianceSet[1] = PilotSet[1] /\ 1 \in DOMAIN PilotSet
  <2>1. /\ PilotSet = <<PilotSet[1], PilotSet[2]>> /\ Len(PilotSet) = 2
    BY DEF PilotSet
  <2>2. IsList(PilotSet) /\ Len(PilotSet) = 2
    BY <2>1, ScenarioSets
  <2> QED
    BY <2>2 DEF VarianceSet, IsList
<1>3. ASSUME NEW who
      PROVE  Question(nano, 1024, who, VarianceSet[1]) \in QuestionsOf(nano, 1024, PilotSet, <<who>>)
  <2>1. 1 \in DOMAIN <<who>> /\ <<who>>[1] = who
    BY Lists
  <2> QED
    BY <1>2, <2>1 DEF QuestionsOf
<1>4. QuestionsOf(nano, 1024, PilotSet, <<"three_way_llm">>) \cup
          QuestionsOf(nano, 1024, PilotSet, <<"llm_judge">>) \subseteq Questions
  BY <1>1, PilotShape, AskedPositions
<1> QED
  BY <1>3, <1>4 DEF Repeated

\* A reply that comes into the cache is an answer later than all before it.
LEMMA AnswerSteps ==
    ASSUME Typed, [Next]_vars, NEW q \in Questions
    PROVE  /\ answers[q] \in Nat /\ answers'[q] \in Nat /\ answers[q] <= answers'[q]
           /\ \/ cache'[q] = cache[q]
              \/ cache'[q] \notin Nat
              \/ cache'[q] = answers'[q] /\ answers[q] < answers'[q]
<1>1. answers[q] \in Nat /\ DOMAIN answers = Questions /\ DOMAIN cache = Questions
  BY DEF Typed
<1>2. answers'[q] \in Nat
  BY CacheKept
<1> DEFINE more == [answers EXCEPT ![op.q] = @ + 1]
<1>3. more[q] = (IF q = op.q THEN answers[q] + 1 ELSE answers[q])
  BY <1>1
<1> HIDE DEF more
<1>4. Poison \notin Nat /\ Torn \notin Nat
  BY ExperimentsAssumption
<1>5. CASE Pay
  <2>1. answers' = more /\ op.q \in Questions
    BY <1>5, OperationTyped DEF Pay, more
  <2>2. \E c \in {answers'[op.q], Poison} : cache' = [cache EXCEPT ![op.q] = c]
    BY <1>5 DEF Pay
  <2>3. q # op.q => cache'[q] = cache[q]
    BY <2>2
  <2>4. q = op.q => cache'[q] \in {answers'[q], Poison}
    BY <1>1, <2>2
  <2> QED
    BY <1>1, <1>2, <1>3, <1>4, <2>1, <2>3, <2>4
<1>6. CASE AskAgain
  <2>1. answers' = more /\ UNCHANGED cache
    BY <1>6 DEF AskAgain, more
  <2> QED
    BY <1>1, <1>2, <1>3, <2>1
<1>7. CASE Kill
  <2>1. CASE UNCHANGED <<cache, answers, paid>>
    BY <1>1, <2>1
  <2>2. CASE ~UNCHANGED <<cache, answers, paid>>
    <3>1. answers' = more /\ (UNCHANGED cache \/ cache' = [cache EXCEPT ![op.q] = Torn])
      BY <1>7, <2>2 DEF Kill, more
    <3>2. cache'[q] = cache[q] \/ cache'[q] = Torn
      BY <1>1, <3>1
    <3> QED
      BY <1>1, <1>2, <1>3, <1>4, <3>1, <3>2
  <2> QED
    BY <2>1, <2>2
<1>8. ASSUME UNCHANGED <<cache, answers>>
      PROVE  cache'[q] = cache[q] /\ answers'[q] = answers[q]
  BY <1>8
<1>9. CASE \/ \E s \in Scripts : Start(s)
           \/ TakeReply \/ ReplyRaises \/ Census \/ ReadResult \/ WriteResult \/ Finish
           \/ UNCHANGED vars
  <2>1. UNCHANGED <<cache, answers>>
    BY <1>9 DEF Start, TakeReply, ReplyRaises, Census, ReadResult, WriteResult, Finish, vars
  <2> QED
    BY <1>1, <1>8, <2>1
<1> QED
  BY <1>5, <1>6, <1>7, <1>9 DEF Next

LEMMA AnswersKept == Typed /\ AnswersOK /\ [Next]_vars => AnswersOK'
<1> SUFFICES ASSUME Typed, AnswersOK, [Next]_vars, NEW q \in Questions, cache'[q] \in Nat
             PROVE  cache'[q] <= answers'[q]
  BY DEF AnswersOK
<1>1. cache[q] \in Nat => cache[q] <= answers[q]
  BY DEF AnswersOK
<1> QED
  BY <1>1, AnswerSteps

\* What is fresh stays so.
LEMMA FreshStays ==
    ASSUME Typed, [Next]_vars, NEW R, Fresh(R, cache, answers)
    PROVE  Fresh(R, cache', answers')
<1> SUFFICES ASSUME NEW x \in R
             PROVE  \E q \in Questions, n \in Nat : x = <<q, n>> /\ n <= answers'[q] /\ cache'[q] # n
  BY DEF Fresh
<1>1. PICK q \in Questions, n \in Nat : x = <<q, n>> /\ n <= answers[q] /\ cache[q] # n
  BY DEF Fresh
<1>2. n <= answers'[q] /\ cache'[q] # n
  BY <1>1, AnswerSteps
<1> QED
  BY <1>1, <1>2

LEMMA StoredStays ==
    ASSUME NEW k, NEW l, Keeps(k, l)
    PROVE  StoredIn(k) \subseteq StoredIn(l)
BY DEF Keeps, StoredIn

\* What a run that goes on does to what it says beside.
LEMMA BesideSteps ==
    ASSUME Typed, [Next]_vars, Running'
    PROVE  \/ (\E s \in Scripts : Start(s)) /\ repeats' = {} /\ counted' = {}
           \/ /\ Running /\ AtOperation /\ GoOn /\ op.do = "repeat"
              /\ repeats' = repeats \cup {<<op.q, answers[op.q] + 1>>}
              /\ answers'[op.q] = answers[op.q] + 1 /\ UNCHANGED <<cache, counted>>
           \/ /\ Running /\ AtOperation /\ GoOn /\ op.do = "census"
              /\ counted' = StoredIn(cache) /\ UNCHANGED <<cache, repeats>>
           \/ /\ Running /\ AtOperation /\ GoOn /\ op.do # "repeat" /\ op.do # "census"
              /\ UNCHANGED <<cache, repeats, counted>>
           \/ Running /\ UNCHANGED <<script, at, repeats, counted>>
<1>1. CASE \E s \in Scripts : Start(s)
  BY <1>1 DEF Start
<1>2. CASE TakeReply
  BY <1>2 DEF TakeReply, AtOperation, pilotVars
<1>3. CASE Pay
  BY <1>3 DEF Pay, AtOperation, pilotVars
<1>4. CASE ReplyRaises
  BY <1>4 DEF ReplyRaises, End, Running
<1>5. CASE AskAgain
  <2>1. AtOperation /\ op.do = "repeat" /\ UNCHANGED cache
    BY <1>5 DEF AskAgain
  <2>2. op.q \in Questions
    BY <2>1, OperationTyped, RepeatedAreAsked DEF Allowed
  <2>3. answers'[op.q] = answers[op.q] + 1
    BY <1>5, <2>2 DEF AskAgain, Typed
  <2>4. GoOn /\ repeats' = repeats \cup {<<op.q, answers'[op.q]>>} /\ UNCHANGED counted
    BY <1>5 DEF AskAgain, End, Running
  <2> QED
    BY <2>1, <2>3, <2>4 DEF AtOperation
<1>6. CASE Census
  <2>1. AtOperation /\ op.do = "census" /\ UNCHANGED cache
    BY <1>6 DEF Census
  <2>2. GoOn /\ counted' = Stored /\ UNCHANGED repeats
    BY <1>6 DEF Census, End, Running
  <2> QED
    BY <2>1, <2>2 DEF AtOperation, Stored, StoredIn
<1>7. CASE ReadResult
  <2>1. Running /\ AtOperation /\ UNCHANGED cache /\ op.do \in {"check", "copy", "copy_if_there"}
    BY <1>7 DEF ReadResult, AtOperation
  <2>2. op.do # "repeat" /\ op.do # "census"
    BY <2>1
  <2>3. ~End("no input")
    BY DEF End, Running
  <2>4. GoOn /\ UNCHANGED pilotVars
    BY <1>7, <2>3 DEF ReadResult
  <2> QED
    BY <2>1, <2>2, <2>4 DEF pilotVars
<1>8. CASE WriteResult
  <2>1. Running /\ AtOperation /\ GoOn /\ UNCHANGED <<cache, pilotVars>> /\ op.do \in {"truncate", "write"}
    BY <1>8 DEF WriteResult, AtOperation
  <2>2. op.do # "repeat" /\ op.do # "census"
    BY <2>1
  <2> QED
    BY <2>1, <2>2 DEF pilotVars
<1>9. CASE Finish
  BY <1>9 DEF Finish, Running
<1>10. CASE Kill
  BY <1>10 DEF Kill, End, Running
<1>11. CASE UNCHANGED vars
  BY <1>11 DEF vars, pilotVars, Running
<1> QED
  BY <1>1, <1>2, <1>3, <1>4, <1>5, <1>6, <1>7, <1>8, <1>9, <1>10, <1>11 DEF Next

LEMMA PilotOnlyKept == Typed /\ PilotOnly /\ [Next]_vars => PilotOnly'
<1> SUFFICES ASSUME Typed, PilotOnly, [Next]_vars, Running', script' # "run_pilot"
             PROVE  repeats' = {} /\ counted' = {}
  BY DEF PilotOnly
<1>1. CASE repeats' = {} /\ counted' = {}
  BY <1>1
<1>2. CASE Running /\ AtOperation /\ GoOn /\ op.do \in {"repeat", "census"}
  <2>1. script' = script /\ Allowed(script, op)
    BY <1>2, OperationTyped DEF GoOn
  <2>2. script = "run_pilot"
    BY <1>2, <2>1 DEF Allowed
  <2> QED
    BY <2>1, <2>2
<1>3. CASE Running /\ UNCHANGED <<script, repeats, counted>>
  BY <1>3 DEF PilotOnly
<1> QED
  BY <1>1, <1>2, <1>3, BesideSteps DEF GoOn

\* Where q has been asked again, an operation later.
LEMMA RepeatsNext ==
    ASSUME NEW s \in Scripts, NEW n \in DOMAIN Program[s], NEW q
    PROVE  /\ IsFiniteSet(RepeatsBefore(s, n, q)) /\ n \notin RepeatsBefore(s, n, q)
           /\ RepeatsBefore(s, n + 1, q) =
                  IF Program[s][n].do = "repeat" /\ Program[s][n].q = q
                  THEN RepeatsBefore(s, n, q) \cup {n}
                  ELSE RepeatsBefore(s, n, q)
<1>1. Len(Program[s]) \in Nat /\ DOMAIN Program[s] = 1..Len(Program[s])
  BY Positions
<1>2. IsFiniteSet(DOMAIN Program[s])
  BY <1>1, FS_Interval
<1>3. RepeatsBefore(s, n, q) \subseteq DOMAIN Program[s]
  BY DEF RepeatsBefore, RepeatsOf
<1>4. IsFiniteSet(RepeatsBefore(s, n, q))
  BY <1>2, <1>3, FS_Subset
<1>5. \A m \in DOMAIN Program[s] : m < n + 1 <=> m < n \/ m = n
  BY <1>1
<1>6. n \notin RepeatsBefore(s, n, q)
  BY <1>1 DEF RepeatsBefore
<1>7. \A m : m \in RepeatsBefore(s, n + 1, q) <=>
                 m \in RepeatsBefore(s, n, q)
                     \/ (m = n /\ Program[s][n].do = "repeat" /\ Program[s][n].q = q)
  BY <1>5 DEF RepeatsBefore, RepeatsOf
<1> QED
  BY <1>4, <1>6, <1>7

LEMMA RepeatsAtStart ==
    ASSUME NEW s \in Scripts, NEW q
    PROVE  RepeatsBefore(s, 1, q) = {}
<1>1. \A m \in DOMAIN Program[s] : ~(m < 1)
  BY Positions
<1> QED
  BY <1>1 DEF RepeatsBefore, RepeatsOf

LEMMA RepeatsKept == Typed /\ AnswersOK /\ RepeatsOK /\ [Next]_vars => RepeatsOK'
<1> SUFFICES ASSUME Typed, AnswersOK, RepeatsOK, [Next]_vars, Running'
             PROVE  RepeatsOK'
  BY DEF RepeatsOK
<1> DEFINE Many(R, s, n, q) ==
               /\ IsFiniteSet(RepeatsFor(R, q))
               /\ Cardinality(RepeatsFor(R, q)) = Cardinality(RepeatsBefore(s, n, q))
<1>1. SUFFICES Fresh(repeats', cache', answers') /\ \A q : Many(repeats', script', at', q)
  BY DEF RepeatsOK
<1>2. Running => Fresh(repeats, cache', answers') /\ \A q : Many(repeats, script, at, q)
  BY FreshStays DEF RepeatsOK
<1>3. CASE (\E s \in Scripts : Start(s)) /\ repeats' = {}
  <2>1. script' \in Scripts /\ at' = 1
    BY <1>3 DEF Start
  <2>2. Fresh(repeats', cache', answers')
    BY <1>3 DEF Fresh
  <2>3. \A q : RepeatsFor(repeats', q) = {}
    BY <1>3 DEF RepeatsFor
  <2> QED
    BY <2>1, <2>2, <2>3, RepeatsAtStart, FS_EmptySet
<1>4. CASE /\ Running /\ AtOperation /\ GoOn /\ op.do = "repeat"
           /\ repeats' = repeats \cup {<<op.q, answers[op.q] + 1>>}
           /\ answers'[op.q] = answers[op.q] + 1 /\ UNCHANGED cache
  <2> DEFINE p == op.q
             x == <<p, answers[p] + 1>>
  <2>1. p \in Questions /\ answers[p] \in Nat
    BY <1>4, OperationTyped, RepeatedAreAsked DEF Allowed, Typed
  <2>2. x \notin repeats
    <3>1. \A y \in repeats : \E q \in Questions, n \in Nat : y = <<q, n>> /\ n <= answers[q]
      BY <1>4 DEF RepeatsOK, Fresh
    <3> QED
      BY <2>1, <3>1
  <2>3. cache'[p] # answers[p] + 1
    BY <1>4, <2>1 DEF AnswersOK
  <2>4. Fresh(repeats', cache', answers')
    <3>1. Fresh(repeats, cache', answers')
      BY <1>2, <1>4
    <3>2. /\ p \in Questions /\ answers[p] + 1 \in Nat
          /\ answers[p] + 1 <= answers'[p]
      BY <1>4, <2>1
    <3> QED
      BY <1>4, <2>3, <3>1, <3>2 DEF Fresh
  <2>5. script' = script /\ at' = at + 1 /\ script \in Scripts /\ at \in DOMAIN Program[script]
    BY <1>4, OperationTyped DEF GoOn
  <2>6. Program[script][at].do = "repeat" /\ Program[script][at].q = p
    BY <1>4 DEF op
  <2>7. ASSUME NEW q PROVE Many(repeats', script', at', q)
    <3>1. Many(repeats, script, at, q)
      BY <1>2, <1>4
    <3> DEFINE R == RepeatsFor(repeats, q)
               B == RepeatsBefore(script, at, q)
    <3>2. CASE q = p
      <4>1. RepeatsFor(repeats', q) = R \cup {x} /\ x \notin R
        BY <1>4, <2>2, <3>2 DEF RepeatsFor
      <4>2. /\ IsFiniteSet(B) /\ at \notin B
            /\ RepeatsBefore(script', at', q) = B \cup {at}
        BY <2>5, <2>6, <3>2, RepeatsNext
      <4> HIDE DEF R, B, x
      <4>3. IsFiniteSet(R) /\ Cardinality(R) = Cardinality(B)
        BY <3>1 DEF R, B
      <4>4. IsFiniteSet(R \cup {x}) /\ Cardinality(R \cup {x}) = Cardinality(R) + 1
        BY <4>1, <4>3, FS_AddElement
      <4>5. Cardinality(B \cup {at}) = Cardinality(B) + 1
        BY <4>2, FS_AddElement
      <4> QED
        BY <4>1, <4>2, <4>3, <4>4, <4>5
    <3>3. CASE q # p
      <4>1. RepeatsFor(repeats', q) = R
        BY <1>4, <3>3 DEF RepeatsFor
      <4>2. RepeatsBefore(script', at', q) = B
        BY <2>5, <2>6, <3>3, RepeatsNext
      <4> QED
        BY <3>1, <4>1, <4>2
    <3> QED
      BY <3>2, <3>3
  <2> QED
    BY <2>4, <2>7
<1>5. CASE Running /\ AtOperation /\ GoOn /\ op.do # "repeat" /\ UNCHANGED repeats
  <2>1. script' = script /\ at' = at + 1 /\ script \in Scripts /\ at \in DOMAIN Program[script]
    BY <1>5, OperationTyped DEF GoOn
  <2>2. \A q : RepeatsBefore(script', at', q) = RepeatsBefore(script, at, q)
    BY <1>5, <2>1, RepeatsNext DEF op
  <2> QED
    BY <1>2, <1>5, <2>2
<1>6. CASE Running /\ UNCHANGED <<script, at, repeats>>
  BY <1>2, <1>6
<1> HIDE DEF Many
<1>7. CASE Running /\ AtOperation /\ GoOn /\ op.do = "census" /\ UNCHANGED repeats
  BY <1>5, <1>7
<1> QED
  BY <1>3, <1>4, <1>5, <1>6, <1>7, BesideSteps

LEMMA CountedKept == Typed /\ HadOK /\ CountedOK /\ [Next]_vars => CountedOK'
<1> DEFINE Past(s, n) == \E m \in DOMAIN Program[s] : m < n /\ Program[s][m].do = "census"
           All(s, c, k) == \A q \in AskedBy[s] : k[q] # None /\ <<q, k[q]>> \in c
<1> SUFFICES ASSUME Typed, HadOK, CountedOK, [Next]_vars, Running'
             PROVE  /\ counted' \subseteq StoredIn(cache')
                    /\ Past(script', at') => All(script', counted', cache')
  BY DEF CountedOK
<1>1. Keeps(cache, cache')
  BY CacheKept
<1>2. Running => /\ counted \subseteq StoredIn(cache')
                 /\ Past(script, at) => All(script, counted, cache)
  BY <1>1, StoredStays DEF CountedOK
<1>3. ASSUME NEW c, Running, All(script, c, cache) PROVE All(script, c, cache')
  <2>1. AskedBy[script] \subseteq Questions
    BY <1>3, AskedPositions DEF Typed, Running, Started
  <2> QED
    BY <1>1, <1>3, <2>1 DEF Keeps
<1>4. CASE (\E s \in Scripts : Start(s)) /\ counted' = {}
  <2>1. script' \in Scripts /\ at' = 1
    BY <1>4 DEF Start
  <2>2. ~Past(script', at')
    BY <2>1, Positions
  <2> QED
    BY <1>4, <2>2
<1>5. CASE Running /\ AtOperation /\ GoOn /\ op.do = "census" /\ counted' = StoredIn(cache) /\ UNCHANGED cache
  <2>1. /\ script' = script /\ script \in Scripts /\ at \in DOMAIN Program[script]
        /\ at \in 1..(Len(Program[script]) + 1)
    BY <1>5, OperationTyped DEF GoOn, Typed, Running, Started
  <2>2. HadBefore(script, at) = AskedBy[script]
    BY <1>5, <2>1, AllHad DEF op
  <2>3. AskedBy[script] \subseteq Questions
    BY <2>1, AskedPositions
  <2>4. \A q \in AskedBy[script] : cache[q] # None
    BY <1>5, <2>2 DEF HadOK
  <2>5. All(script, counted', cache)
    BY <1>5, <2>3, <2>4 DEF StoredIn
  <2> QED
    BY <1>5, <2>1, <2>5
<1>6. CASE Running /\ AtOperation /\ GoOn /\ op.do # "census" /\ UNCHANGED <<cache, counted>>
  <2>1. script' = script /\ at' = at + 1 /\ script \in Scripts /\ at \in DOMAIN Program[script]
    BY <1>6, OperationTyped DEF GoOn
  <2>2. Past(script', at') => Past(script, at)
    <3> SUFFICES ASSUME NEW m \in DOMAIN Program[script], m < at + 1, Program[script][m].do = "census"
                 PROVE  Past(script, at)
      BY <2>1
    <3>1. m < at \/ m = at
      BY <2>1, Positions
    <3> QED
      BY <1>6, <3>1 DEF op
  <2> HIDE DEF Past
  <2> QED
    BY <1>2, <1>6, <2>1, <2>2
<1>7. CASE Running /\ UNCHANGED <<script, at, counted>>
  BY <1>2, <1>3, <1>7
<1> HIDE DEF Past, All
<1>8. CASE Running /\ AtOperation /\ GoOn /\ op.do = "repeat" /\ UNCHANGED <<cache, counted>>
  BY <1>6, <1>8
<1> QED
  BY <1>4, <1>5, <1>6, <1>7, <1>8, BesideSteps

LEMMA SummaryStays ==
    ASSUME Typed, [Next]_vars, NEW r, SummaryOK(r, cache, answers)
    PROVE  SummaryOK(r, cache', answers')
<1>1. Fresh(r.repeats, cache', answers')
  BY FreshStays DEF SummaryOK
<1>2. StoredIn(cache) \subseteq StoredIn(cache')
  BY CacheKept, StoredStays
<1> QED
  BY <1>1, <1>2 DEF SummaryOK

\* All is asked again before anything is written, and the pilot has counted.
LEMMA SummaryWritten ==
    ASSUME Typed, HadOK, CopiedOK, RepeatsOK, CountedOK, PilotOnly, AtOperation, op.do = "write"
    PROVE  SummaryOK([by |-> script, used |-> used, copied |-> copied,
                      repeats |-> repeats, counted |-> counted], cache, answers)
<1>1. script \in Scripts /\ at \in DOMAIN Program[script] /\ Running
  BY OperationTyped DEF AtOperation
<1>2. \A q : RepeatsBefore(script, at, q) = RepeatsOf(script, q)
  <2>1. \A m \in DOMAIN Program[script] : Program[script][m].do = "repeat" => m < at
    BY <1>1, Precedence DEF op
  <2> QED
    BY <2>1 DEF RepeatsBefore, RepeatsOf
<1>3. ASSUME script = "run_pilot" PROVE used \subseteq counted
  <2>1. PICK m \in DOMAIN Program[script] : Program[script][m].do = "census"
    BY <1>3, PilotCounts
  <2>2. m < at
    BY <1>1, <2>1, Precedence DEF op
  <2>3. \A q \in AskedBy[script] : <<q, cache[q]>> \in counted
    BY <1>1, <2>1, <2>2 DEF CountedOK
  <2>4. HadBefore(script, at) = AskedBy[script]
    BY Written
  <2>5. used = {<<q, cache[q]>> : q \in AskedBy[script]}
    BY <1>1, <2>4 DEF HadOK
  <2> QED
    BY <2>3, <2>5
<1>4. /\ Fresh(repeats, cache, answers)
      /\ \A q : Cardinality(RepeatsFor(repeats, q)) = Cardinality(RepeatsOf(script, q))
  BY <1>1, <1>2 DEF RepeatsOK
<1>5. counted \subseteq StoredIn(cache)
  BY <1>1 DEF CountedOK
<1>6. script # "run_pilot" => repeats = {} /\ counted = {}
  BY <1>1 DEF PilotOnly
<1> QED
  BY <1>3, <1>4, <1>5, <1>6 DEF SummaryOK

LEMMA SummariesKept ==
    Typed /\ HadOK /\ CopiedOK /\ RepeatsOK /\ CountedOK /\ PilotOnly /\ SummariesOK /\ [Next]_vars
        => SummariesOK'
<1> SUFFICES ASSUME Typed, HadOK, CopiedOK, RepeatsOK, CountedOK, PilotOnly, SummariesOK, [Next]_vars,
                    NEW f \in Files, results'[f] \notin {None, Torn}
             PROVE  SummaryOK(results'[f], cache', answers')
  BY DEF SummariesOK, Whole
<1>1. CASE results'[f] = results[f]
  BY <1>1, SummaryStays DEF SummariesOK, Whole
<1>2. CASE results'[f] # results[f]
  <2>1. WriteResult /\ f \in DOMAIN results
    BY <1>2, ResultSteps DEF Typed
  <2> DEFINE r == [by |-> script, used |-> used, copied |-> copied,
                   repeats |-> repeats, counted |-> counted]
  <2>2. AtOperation /\ UNCHANGED <<cache, answers>>
    BY <2>1 DEF WriteResult
  <2>3. op.do = "write" /\ results'[f] = r
    BY <1>2, <2>1 DEF WriteResult
  <2>4. SummaryOK(r, cache, answers)
    BY <2>2, <2>3, SummaryWritten
  <2> QED
    BY <2>2, <2>3, <2>4
<1> QED
  BY <1>1, <1>2

LEMMA PilotInvInit == Init => PilotInv
<1> SUFFICES ASSUME Init PROVE PilotInv
  OBVIOUS
<1>1. AnswersOK
  BY ExperimentsAssumption DEF Init, AnswersOK
<1>2. RepeatsOK /\ CountedOK /\ PilotOnly
  BY DEF Init, RepeatsOK, CountedOK, PilotOnly, Running
<1>3. SummariesOK
  <2>1. "hand" \notin Scripts
    BY DEF Scripts, Program
  <2>2. SummaryOK(ByHand, cache, answers)
    BY <2>1 DEF SummaryOK, ByHand, Fresh
  <2> QED
    BY <2>2 DEF Init, SummariesOK, Whole
<1> QED
  BY <1>1, <1>2, <1>3 DEF PilotInv

LEMMA PilotInvKept == Typed /\ HadOK /\ CopiedOK /\ PilotInv /\ [Next]_vars => PilotInv'
BY AnswersKept, RepeatsKept, CountedKept, PilotOnlyKept, SummariesKept DEF PilotInv

LEMMA InvInit == Init => IInv
<1> SUFFICES ASSUME Init PROVE IInv
  OBVIOUS
<1>1. Typed
  BY DEF Init, Typed, Started
<1>2. HadOK /\ CopiedOK /\ CensusTaken /\ PaidOK /\ InputOK /\ PromiseOK /\ FinishedOK
  BY DEF Init, HadOK, CopiedOK, CensusTaken, PaidOK, InputOK, PromiseOK, FinishedOK, Running
<1>3. ResultsOK
  BY DEF Init, ResultsOK, Whole, ResultOK
<1> QED
  BY <1>1, <1>2, <1>3, PilotInvInit DEF IInv

LEMMA InvNext == IInv /\ [Next]_vars => IInv'
BY TypedKept, HadKept, CopiedKept, CensusKept, PaidKept, InputKept, PromiseKept, FinishedKept,
   ResultsKept, PilotInvKept DEF IInv

\* Any number of runs, with any number of faults.
THEOREM RunsInductive == Spec => []IInv
BY InvInit, InvNext, PTL DEF Spec

-----------------------------------------------------------------------------

\* However often scripts are run, killed and run again, each result rests on
\* the replies that the cache holds to the questions its script asks, its
\* numbers from another file are those that file holds, and it says nothing else
\* unless it is the pilot's, whose token totals cover the replies it rests on.
THEOREM ResultsCanBeRecomputed == Spec => []Recomputable
<1>1. IInv => Recomputable
  <2> SUFFICES ASSUME IInv, NEW f \in Files, Whole(f), results[f].by \in Scripts
               PROVE  /\ results[f].used = {<<q, cache[q]>> : q \in AskedBy[results[f].by]}
                      /\ \A g \in DOMAIN results[f].copied :
                             Whole(g) => results[f].copied[g] = results[g].used
                      /\ IF results[f].by = "run_pilot"
                         THEN /\ results[f].used \subseteq results[f].counted
                              /\ results[f].counted \subseteq Stored
                         ELSE results[f].repeats = {} /\ results[f].counted = {}
    BY DEF Recomputable
  <2>1. "hand" \notin Scripts
    BY DEF Scripts, Program
  <2>2. /\ Rests(results[f].by, results[f].used, cache)
        /\ AllSay(results[f].copied, cache)
    BY <2>1 DEF IInv, ResultsOK, ResultOK, ByHand
  <2>3. ASSUME NEW g \in DOMAIN results[f].copied, Whole(g)
        PROVE  results[f].copied[g] = results[g].used
    <3>1. g \in CopiedFiles /\ g \in Files /\ Says(g, results[f].copied[g], cache)
      BY <2>2, CopiedAreFiles DEF AllSay
    <3>2. Says(g, results[g].used, cache)
      BY <2>3, <3>1, ResultSays DEF IInv, ResultsOK
    <3> QED
      BY <3>1, <3>2 DEF Says, Rests
  <2>4. results[f].by # "run_pilot" => results[f].repeats = {} /\ results[f].counted = {}
    BY DEF IInv, PilotInv, SummariesOK, SummaryOK
  <2>5. results[f].by = "run_pilot" =>
            results[f].used \subseteq results[f].counted /\ results[f].counted \subseteq Stored
    BY DEF IInv, PilotInv, SummariesOK, SummaryOK, Stored, StoredIn
  <2> QED
    BY <2>2, <2>3, <2>4, <2>5 DEF Rests
<1> QED
  BY <1>1, RunsInductive, PTL

\* A question that the pilot asks again has as many answers in its summary as
\* it was asked again, all different, and the cache holds none of them.
THEOREM VariancesAreMeasured == Spec => []RepeatsAreFresh
<1>1. IInv => RepeatsAreFresh
  <2> SUFFICES ASSUME IInv, NEW f \in Files, Whole(f), results[f].by \in Scripts,
                      NEW q \in RepeatedBy[results[f].by]
               PROVE  LET fresh == {x \in results[f].repeats : x[1] = q}
                      IN  /\ Cardinality(fresh) = Cardinality(RepeatsOf(results[f].by, q))
                          /\ <<q, cache[q]>> \notin fresh
    BY DEF RepeatsAreFresh
  <2>1. SummaryOK(results[f], cache, answers)
    BY DEF IInv, PilotInv, SummariesOK
  <2>2. Cardinality(RepeatsFor(results[f].repeats, q)) = Cardinality(RepeatsOf(results[f].by, q))
    BY <2>1 DEF SummaryOK
  <2>3. <<q, cache[q]>> \notin results[f].repeats
    BY <2>1 DEF SummaryOK, Fresh
  <2> QED
    BY <2>2, <2>3 DEF RepeatsFor
<1> QED
  BY <1>1, RunsInductive, PTL

\* A run that is documented to be free of cost pays for no answer.
THEOREM ReplaysCostNothing == Spec => []ReplaysAreFree
<1>1. IInv => ReplaysAreFree
  BY DEF IInv, PromiseOK, ReplaysAreFree
<1> QED
  BY <1>1, RunsInductive, PTL

LEMMA AsksAfterReads ==
    ASSUME NEW s \in Scripts, NEW n \in DOMAIN Program[s], Program[s][n].do \in Reads,
           NEW m \in DOMAIN Program[s], Program[s][m].do \in Asks, m <= n
    PROVE  s \in Late
<1>1. m \in Nat /\ n \in Nat
  BY Positions
<1>2. s \notin Late => n < m
  BY Precedence
<1> QED
  BY <1>1, <1>2

\* Whoever lacks an input has not paid for an answer, the two late readers aside.
THEOREM InputsComeFirst == Spec => []InputIsCheckedFirst
<1>1. IInv => InputIsCheckedFirst
  <2> SUFFICES ASSUME IInv, outcome = "no input", paid PROVE script \in Late
    BY DEF InputIsCheckedFirst, Late
  <2>1. script \in Scripts /\ at \in DOMAIN Program[script] /\ Program[script][at].do \in Reads
    BY DEF IInv, Typed, InputOK, Started
  <2>2. PICK m \in DOMAIN Program[script] : m <= at /\ Program[script][m].do \in Asks
    BY DEF IInv, PaidOK
  <2> QED
    BY <2>1, <2>2, AsksAfterReads
<1> QED
  BY <1>1, RunsInductive, PTL

\* No step makes a result whole while the file of a question of its script
\* cannot be read, or, for the pilot, any file of the cache is torn.
THEOREM NothingPastABadFile == Spec => NoResultPastABadFile
<1>1. ASSUME IInv, [Next]_vars, NEW f \in Files, ~Whole(f), Whole(f)'
      PROVE  /\ \A q \in AskedBy[script] : Readable(q)
             /\ script = "run_pilot" => \A q \in Questions : cache[q] # Torn
  <2>1. WriteResult /\ DOMAIN results = Files
    BY <1>1, ResultSteps DEF Whole, IInv, Typed
  <2>2. AtOperation /\ Running /\ op.do = "write"
    BY <1>1, <2>1 DEF WriteResult, Whole, AtOperation
  <2>3. HadBefore(script, at) = AskedBy[script]
    BY <1>1, <2>2, Written DEF IInv
  <2>4. ASSUME script = "run_pilot" PROVE \A q \in Questions : cache[q] # Torn
    <3>1. script \in Scripts /\ at \in DOMAIN Program[script]
      BY <1>1, <2>2, OperationTyped DEF IInv
    <3>2. PICK m \in DOMAIN Program[script] : Program[script][m].do = "census"
      BY <2>4, PilotCounts
    <3>3. m < at
      BY <2>2, <3>1, <3>2, Precedence DEF op
    <3> QED
      BY <1>1, <2>2, <2>4, <3>2, <3>3 DEF IInv, CensusTaken
  <2> QED
    BY <1>1, <2>2, <2>3, <2>4 DEF IInv, HadOK
<1>2. IInv /\ [Next]_vars =>
          [\A f \in Files : (~Whole(f) /\ Whole(f)') =>
               /\ \A q \in AskedBy[script] : Readable(q)
               /\ script = "run_pilot" => \A q \in Questions : cache[q] # Torn]_vars
  BY <1>1
<1> QED
  BY <1>2, RunsInductive, PTL DEF Spec, NoResultPastABadFile

-----------------------------------------------------------------------------
(* The evaluation of the detectors: numbers.                                *)

LEMMA LeastNumber ==
    ASSUME NEW T \in SUBSET Nat, T # {}
    PROVE  \E n \in T : \A m \in T : n <= m
<1>1. IsWellFoundedOn(OpToRel(<, Nat), Nat)
  BY NatLessThanWellFounded
<1>2. PICK n \in T : \A m \in T : ~(<<m, n>> \in OpToRel(<, Nat))
  BY <1>1, WFMin
<1>3. \A m \in T : ~(m < n)
  BY <1>2 DEF OpToRel
<1> QED
  BY <1>3

-----------------------------------------------------------------------------
(* Lists of lists, one after the other.  The library defines FlattenSeq by a *)
(* recursive function; that there is one is shown for longer and longer      *)
(* parts of the list.                                                        *)

\* The first n lists of s, up to each of them.
FlattensTo(s, n, g) ==
    g = [i \in 1..n |-> IF i = 1 THEN s[i] ELSE g[i - 1] \o s[i]]

Flattened(s) == CHOOSE g : FlattensTo(s, Len(s), g)

\* What has been walked of s after b lists.
Walked(s, b) == IF b = 0 THEN <<>> ELSE Flattened(s)[b]

LEMMA FlattensOneMore ==
    ASSUME NEW S, NEW s \in Seq(Seq(S)), NEW n \in Nat, n + 1 <= Len(s), NEW g, FlattensTo(s, n, g)
    PROVE  \E h : FlattensTo(s, n + 1, h)
<1> DEFINE h == [i \in 1..(n + 1) |-> IF i <= n THEN g[i] ELSE IF i = 1 THEN s[i] ELSE g[n] \o s[i]]
<1>1. \A i \in 1..n : g[i] = IF i = 1 THEN s[i] ELSE g[i - 1] \o s[i]
  BY DEF FlattensTo
<1>2. ASSUME NEW i \in 1..(n + 1) PROVE h[i] = IF i = 1 THEN s[i] ELSE h[i - 1] \o s[i]
  <2>1. CASE i <= n
    <3>1. i \in 1..n /\ (i # 1 => i - 1 \in 1..(n + 1) /\ i - 1 <= n)
      BY <2>1
    <3>2. i # 1 => h[i - 1] = g[i - 1]
      BY <3>1
    <3> QED
      BY <1>1, <2>1, <3>1, <3>2
  <2>2. CASE ~(i <= n)
    <3>1. i = n + 1 /\ (i # 1 => n \in 1..(n + 1) /\ i - 1 = n)
      BY <2>2
    <3> QED
      BY <2>2, <3>1
  <2> QED
    BY <2>1, <2>2
<1>3. FlattensTo(s, n + 1, h)
  <2>1. h = [i \in 1..(n + 1) |-> h[i]]
    OBVIOUS
  <2> HIDE DEF h
  <2> QED
    BY <1>2, <2>1 DEF FlattensTo
<1> QED
  BY <1>3

LEMMA FlattenedOK ==
    ASSUME NEW S, NEW s \in Seq(Seq(S))
    PROVE  FlattensTo(s, Len(s), Flattened(s))
<1> DEFINE T == {n \in 0..Len(s) : ~\E g : FlattensTo(s, n, g)}
<1>1. T = {}
  <2> SUFFICES ASSUME T # {} PROVE FALSE
    OBVIOUS
  <2>1. T \in SUBSET Nat
    OBVIOUS
  <2>2. PICK n \in T : \A m \in T : n <= m
    <3> HIDE DEF T
    <3> QED
      BY <2>1, LeastNumber
  <2>3. FlattensTo(s, 0, [i \in 1..0 |-> s[i]])
    BY DEF FlattensTo
  <2>4. n # 0
    BY <2>3
  <2>5. n - 1 \in Nat /\ n - 1 \in 0..Len(s) /\ ~(n <= n - 1) /\ (n - 1) + 1 = n /\ n <= Len(s)
    BY <2>4
  <2>6. n - 1 \notin T
    BY <2>2, <2>5
  <2>7. PICK g : FlattensTo(s, n - 1, g)
    BY <2>5, <2>6
  <2>8. \E h : FlattensTo(s, (n - 1) + 1, h)
    BY <2>5, <2>7, FlattensOneMore
  <2> QED
    BY <2>5, <2>8
<1>2. Len(s) \in 0..Len(s)
  OBVIOUS
<1>3. \E g : FlattensTo(s, Len(s), g)
  BY <1>1, <1>2
<1> QED
  BY <1>3, Zenon DEF Flattened

\* Walking to the next list appends it; at the end all lists are walked.
LEMMA Walk ==
    ASSUME NEW S, NEW s \in Seq(Seq(S))
    PROVE  /\ Walked(s, 0) = <<>>
           /\ \A b \in 0..(Len(s) - 1) : Walked(s, b + 1) = Walked(s, b) \o s[b + 1]
           /\ \A b \in 0..Len(s) : Walked(s, b) \in Seq(S)
           /\ FlattenSeq(s) = Walked(s, Len(s))
<1>1. \A i \in 1..Len(s) :
          Flattened(s)[i] = IF i = 1 THEN s[i] ELSE Flattened(s)[i - 1] \o s[i]
  <2> DEFINE g == Flattened(s)
  <2>1. g = [i \in 1..Len(s) |-> IF i = 1 THEN s[i] ELSE g[i - 1] \o s[i]]
    BY FlattenedOK DEF FlattensTo
  <2> HIDE DEF g
  <2>2. \A i \in 1..Len(s) : g[i] = IF i = 1 THEN s[i] ELSE g[i - 1] \o s[i]
    BY <2>1
  <2> QED
    BY <2>2 DEF g
<1>2. ASSUME NEW b \in 0..(Len(s) - 1) PROVE Walked(s, b + 1) = Walked(s, b) \o s[b + 1]
  <2>1. b + 1 \in 1..Len(s) /\ s[b + 1] \in Seq(S) /\ (b + 1) - 1 = b /\ b + 1 # 0
    OBVIOUS
  <2>2. CASE b = 0
    <3>1. Walked(s, 1) = s[1]
      BY <1>1, <2>1, <2>2 DEF Walked
    <3>2. <<>> \o s[1] = s[1]
      BY <2>1, <2>2
    <3> QED
      BY <2>2, <3>1, <3>2 DEF Walked
  <2>3. CASE b # 0
    <3>1. b + 1 # 1
      BY <2>3
    <3> QED
      BY <1>1, <2>1, <2>3, <3>1 DEF Walked
  <2> QED
    BY <2>2, <2>3
<1> DEFINE T == {b \in 0..Len(s) : Walked(s, b) \notin Seq(S)}
<1>3. T = {}
  <2> SUFFICES ASSUME T # {} PROVE FALSE
    OBVIOUS
  <2>1. T \in SUBSET Nat
    OBVIOUS
  <2>2. PICK b \in T : \A m \in T : b <= m
    <3> HIDE DEF T
    <3> QED
      BY <2>1, LeastNumber
  <2>3. b # 0
    BY DEF Walked
  <2>4. b - 1 \in 0..(Len(s) - 1) /\ b - 1 \in 0..Len(s) /\ ~(b <= b - 1) /\ (b - 1) + 1 = b /\ s[b] \in Seq(S)
    BY <2>3
  <2>5. Walked(s, b - 1) \in Seq(S)
    BY <2>2, <2>4
  <2>6. Walked(s, b) = Walked(s, b - 1) \o s[b]
    BY <1>2, <2>4
  <2>7. Walked(s, b - 1) \o s[b] \in Seq(S)
    BY <2>4, <2>5
  <2> QED
    BY <2>2, <2>6, <2>7
<1>4. FlattenSeq(s) = Walked(s, Len(s))
  <2>1. CASE Len(s) = 0
    BY <2>1 DEF FlattenSeq, Walked
  <2>2. CASE Len(s) # 0
    <3>1. FlattenSeq(s) = Flattened(s)[Len(s)]
      BY <2>2 DEF FlattenSeq, Flattened, FlattensTo
    <3> QED
      BY <2>2, <3>1 DEF Walked
  <2> QED
    BY <2>1, <2>2
<1>5. Walked(s, 0) = <<>>
  BY DEF Walked
<1> QED
  BY <1>2, <1>3, <1>4, <1>5

LEMMA FlattenOne ==
    ASSUME NEW S, NEW x \in Seq(S)
    PROVE  <<x>> \in Seq(Seq(S)) /\ Len(<<x>>) = 1 /\ FlattenSeq(<<x>>) = x
<1> DEFINE s == <<x>>
<1>1. s \in Seq(Seq(S)) /\ Len(s) = 1 /\ s[1] = x
  OBVIOUS
<1> HIDE DEF s
<1>2. FlattenSeq(s) = Walked(s, 1) /\ Walked(s, 0) = <<>>
  BY <1>1, Walk
<1>3. Walked(s, 0 + 1) = Walked(s, 0) \o s[0 + 1]
  <2>1. 0 \in 0..(Len(s) - 1)
    BY <1>1
  <2>2. \A b \in 0..(Len(s) - 1) : Walked(s, b + 1) = Walked(s, b) \o s[b + 1]
    BY <1>1, Walk
  <2> QED
    BY <2>1, <2>2
<1>4. 0 + 1 = 1 /\ <<>> \o x = x
  OBVIOUS
<1>5. FlattenSeq(s) = x
  BY <1>1, <1>2, <1>3, <1>4
<1> QED
  BY <1>1, <1>5 DEF s

-----------------------------------------------------------------------------
(* The loops over scenarios, detectors and pairs.                           *)

\* The judgments detector k has given: for the lists walked before, and for
\* the pairs of this one if it is past them.
Given(k) ==
    IF k < detector THEN Len(all_pairs)
    ELSE IF k = detector THEN (Len(all_pairs) - Len(Pairs)) + (next - 1)
    ELSE Len(all_pairs) - Len(Pairs)

JudgmentSet == [of : ConflictPairs, is_conflict : BOOLEAN, score : Int]

\* Where the loops are.
Walking ==
    /\ \E w \in Workloads : batches \in {w, <<FlattenSeq(w)>>}
    /\ batch \in 0..Len(batches)
    /\ detector \in 1..3
    /\ next \in 1..(Len(Pairs) + 1)
    /\ all_pairs = Walked(batches, batch)
    /\ phase # "judging" => batch = Len(batches) /\ detector = 3 /\ next > Len(Pairs)

\* What has been judged so far.
InPlace ==
    /\ judgments \in [Names -> Seq(JudgmentSet)]
    /\ \A k \in 1..3 : Len(judgments[DetectorNames[k]]) = Given(k)
    /\ \A d \in Names : \A n \in DOMAIN judgments[d] : judgments[d][n].of = all_pairs[n]

LEMMA TheNames ==
    /\ Names = {"embedding_threshold", "nli", "llm_judge"}
    /\ Local = {"embedding_threshold", "nli"}
    /\ Len(DetectorNames) = 3
    /\ \A k \in 1..3 : DetectorNames[k] \in Names
    /\ \A k, l \in 1..3 : DetectorNames[k] = DetectorNames[l] => k = l
    /\ \A d \in Names : \E k \in 1..3 : d = DetectorNames[k]
<1>1. /\ DOMAIN DetectorNames = 1..3 /\ Len(DetectorNames) = 3
      /\ DetectorNames[1] = "embedding_threshold" /\ DetectorNames[2] = "nli"
      /\ DetectorNames[3] = "llm_judge"
  BY DEF DetectorNames
<1>2. \A k \in 1..3 : k = 1 \/ k = 2 \/ k = 3
  OBVIOUS
<1> HIDE DEF DetectorNames
<1>3. Names = {"embedding_threshold", "nli", "llm_judge"}
  BY <1>1, <1>2 DEF Names, Range
<1> QED
  BY <1>1, <1>2, <1>3 DEF Local

LEMMA TheBatches ==
    ASSUME \E w \in Workloads : batches \in {w, <<FlattenSeq(w)>>}
    PROVE  /\ batches \in Seq(Seq(ConflictPairs))
           /\ \E w \in Workloads : FlattenSeq(batches) = FlattenSeq(w)
<1>1. PICK w \in Workloads : batches \in {w, <<FlattenSeq(w)>>}
  OBVIOUS
<1>2. w \in Seq(Seq(ConflictPairs))
  BY WorkloadsAssumption
<1>3. FlattenSeq(w) \in Seq(ConflictPairs)
  <2>1. Walked(w, Len(w)) \in Seq(ConflictPairs) /\ FlattenSeq(w) = Walked(w, Len(w))
    <3>1. Len(w) \in 0..Len(w)
      BY <1>2
    <3> QED
      BY <1>2, <3>1, Walk
  <2> QED
    BY <2>1
<1>4. /\ <<FlattenSeq(w)>> \in Seq(Seq(ConflictPairs))
      /\ FlattenSeq(<<FlattenSeq(w)>>) = FlattenSeq(w)
  BY <1>3, FlattenOne
<1> QED
  BY <1>1, <1>2, <1>4

\* The pairs of the list that is judged are the last ones walked.
LEMMA LastWalked ==
    ASSUME Walking
    PROVE  /\ Pairs \in Seq(ConflictPairs) /\ all_pairs \in Seq(ConflictPairs)
           /\ Len(Pairs) <= Len(all_pairs)
           /\ \A i \in DOMAIN Pairs : all_pairs[(Len(all_pairs) - Len(Pairs)) + i] = Pairs[i]
<1>1. batches \in Seq(Seq(ConflictPairs)) /\ batch \in 0..Len(batches) /\ all_pairs = Walked(batches, batch)
  BY TheBatches DEF Walking
<1>2. CASE batch = 0
  <2>1. all_pairs = <<>> /\ Pairs = <<>>
    BY <1>1, <1>2 DEF Pairs, Walked
  <2> QED
    BY <2>1
<1>3. CASE batch # 0
  <2>1. batch - 1 \in 0..(Len(batches) - 1) /\ batch - 1 \in 0..Len(batches) /\ (batch - 1) + 1 = batch
    BY <1>1, <1>3
  <2> DEFINE before == Walked(batches, batch - 1)
  <2>2. before \in Seq(ConflictPairs)
    BY <1>1, <2>1, Walk
  <2>3. \A b \in 0..(Len(batches) - 1) : Walked(batches, b + 1) = Walked(batches, b) \o batches[b + 1]
    BY <1>1, Walk
  <2>4. all_pairs = before \o batches[batch]
    BY <1>1, <2>1, <2>3
  <2>5. Pairs = batches[batch] /\ Pairs \in Seq(ConflictPairs)
    BY <1>1, <1>3 DEF Pairs
  <2> HIDE DEF before
  <2>6. all_pairs = before \o Pairs
    BY <2>4, <2>5
  <2>7. Len(all_pairs) = Len(before) + Len(Pairs) /\ all_pairs \in Seq(ConflictPairs)
    BY <2>2, <2>5, <2>6
  <2>8. \A i \in DOMAIN Pairs : all_pairs[Len(before) + i] = Pairs[i]
    BY <2>2, <2>5, <2>6
  <2>9. Len(all_pairs) - Len(Pairs) = Len(before) /\ Len(Pairs) <= Len(all_pairs)
    BY <2>2, <2>5, <2>7
  <2> QED
    BY <2>5, <2>7, <2>8, <2>9
<1> QED
  BY <1>2, <1>3

\* A judgment is about its pair, and says yes or no.
LEMMA AboutItsPair ==
    ASSUME NEW d \in Names, NEW pair \in ConflictPairs, NEW j \in Judgments(d, pair)
    PROVE  j \in JudgmentSet /\ j.of = pair
<1>1. /\ Similarity[<<pair.a, pair.b>>] \in Int \cup {NaN} /\ Contradiction[<<pair.a, pair.b>>] \in Int
      /\ EmbeddingThreshold \in Int /\ ContradictionThreshold \in Int
  BY WorkloadsAssumption, DetectorsAssumption
<1>2. ASSUME NEW yes \in BOOLEAN, NEW score \in Int, j = ConflictJudgment(pair, yes, score)
      PROVE  j \in JudgmentSet /\ j.of = pair
  BY <1>2 DEF ConflictJudgment, JudgmentSet
<1>3. CASE d = "embedding_threshold"
  <2>1. j = EmbeddingDetect(pair)
    BY <1>3 DEF Judgments
  <2>2. Cosine(pair) \in Int
    BY <1>1 DEF Cosine
  <2>3. (Cosine(pair) < EmbeddingThreshold) \in BOOLEAN
    BY <1>1, <2>2
  <2> QED
    BY <1>2, <2>1, <2>2, <2>3 DEF EmbeddingDetect
<1>4. CASE d = "nli"
  <2>1. j = NLIDetect(pair)
    BY <1>4 DEF Judgments
  <2>2. (Contradiction[<<pair.a, pair.b>>] >= ContradictionThreshold) \in BOOLEAN
    BY <1>1
  <2> QED
    BY <1>1, <1>2, <2>1, <2>2 DEF NLIDetect
<1>5. CASE d = "llm_judge"
  <2>1. PICK reply \in JudgeReplies : j = JudgeDetect(pair, reply)
    BY <1>5 DEF Judgments
  <2>2. ParseResponse(reply) \in BOOLEAN
    BY DEF ParseResponse
  <2>3. (IF ParseResponse(reply) THEN 100 ELSE 0) \in Int
    OBVIOUS
  <2> QED
    BY <1>2, <2>1, <2>2, <2>3 DEF JudgeDetect
<1> QED
  BY <1>3, <1>4, <1>5, TheNames

LEMMA StartsInPlace == EvalInit => Walking /\ InPlace
<1> SUFFICES ASSUME EvalInit PROVE Walking /\ InPlace
  OBVIOUS
<1>1. /\ batch = 0 /\ detector = 3 /\ next = 1 /\ all_pairs = <<>> /\ phase = "judging"
      /\ \E w \in Workloads : batches \in {w, <<FlattenSeq(w)>>}
      /\ judgments = [d \in Names |-> <<>>]
  BY TheNames DEF EvalInit
<1>2. Pairs = <<>>
  BY <1>1 DEF Pairs
<1>3. batches \in Seq(Seq(ConflictPairs))
  BY <1>1, TheBatches
<1>4. Walking
  BY <1>1, <1>2, <1>3 DEF Walking, Walked
<1>5. InPlace
  <2>1. judgments \in [Names -> Seq(JudgmentSet)]
    BY <1>1
  <2>2. \A d \in Names : judgments[d] = <<>>
    BY <1>1
  <2>3. \A k \in 1..3 : Given(k) = 0
    BY <1>1, <1>2 DEF Given
  <2> QED
    BY <2>1, <2>2, <2>3, TheNames DEF InPlace
<1> QED
  BY <1>4, <1>5

\* A step to the next list.
LEMMA NextScenarioStep ==
    ASSUME Walking, InPlace, NextScenario
    PROVE  Walking' /\ InPlace'
<1>1. /\ phase = "judging" /\ phase' = phase /\ detector = 3 /\ next > Len(Pairs)
      /\ batch < Len(batches) /\ batch' = batch + 1 /\ detector' = 1 /\ next' = 1
      /\ all_pairs' = all_pairs \o batches[batch + 1]
      /\ batches' = batches /\ judgments' = judgments
  BY TheNames DEF NextScenario
<1>2. /\ \E w \in Workloads : batches \in {w, <<FlattenSeq(w)>>}
      /\ batch \in 0..Len(batches) /\ next \in 1..(Len(Pairs) + 1) /\ all_pairs = Walked(batches, batch)
  BY DEF Walking
<1>3. batches \in Seq(Seq(ConflictPairs))
  BY <1>2, TheBatches
<1>4. batch \in 0..(Len(batches) - 1) /\ batch + 1 \in 0..Len(batches) /\ batch + 1 # 0
  BY <1>1, <1>2, <1>3
<1>5. batches[batch + 1] \in Seq(ConflictPairs)
  BY <1>3, <1>4
<1>6. Walked(batches, batch + 1) = Walked(batches, batch) \o batches[batch + 1]
  BY <1>3, <1>4, Walk
<1>7. Pairs' = batches[batch + 1]
  BY <1>1, <1>4 DEF Pairs
<1>8. Walking'
  <2>1. 1 \in 1..(Len(batches[batch + 1]) + 1)
    BY <1>5
  <2>2. all_pairs' = Walked(batches', batch')
    BY <1>1, <1>2, <1>6
  <2> QED
    BY <1>1, <1>2, <1>4, <1>7, <2>1, <2>2 DEF Walking
<1>9. /\ Pairs \in Seq(ConflictPairs) /\ all_pairs \in Seq(ConflictPairs)
      /\ Len(Pairs) <= Len(all_pairs)
  BY LastWalked
<1>10. /\ Len(all_pairs') = Len(all_pairs) + Len(Pairs')
       /\ \A n \in 1..Len(all_pairs) : all_pairs'[n] = all_pairs[n]
  BY <1>1, <1>5, <1>7, <1>9
<1>11. \A k \in 1..3 : Given(k) = Len(all_pairs)
  <2>1. Len(Pairs) \in Nat /\ Len(all_pairs) \in Nat
    BY <1>9
  <2>2. (Len(all_pairs) - Len(Pairs)) + (next - 1) = Len(all_pairs)
    BY <1>1, <1>2, <2>1
  <2>3. \A k \in 1..3 : k < 3 \/ k = 3
    OBVIOUS
  <2> QED
    BY <1>1, <2>2, <2>3 DEF Given
<1>12. \A k \in 1..3 : Given(k)' = Len(all_pairs)
  <2>1. Len(Pairs') \in Nat /\ Len(all_pairs) \in Nat
    BY <1>5, <1>7, <1>9
  <2>2. Len(all_pairs') - Len(Pairs') = Len(all_pairs)
    BY <1>10, <2>1
  <2> QED
    BY <1>1, <2>1, <2>2 DEF Given
<1>13. \A d \in Names : \A n \in DOMAIN judgments[d] : n \in 1..Len(all_pairs)
  <2> SUFFICES ASSUME NEW d \in Names, NEW n \in DOMAIN judgments[d] PROVE n \in 1..Len(all_pairs)
    OBVIOUS
  <2>1. PICK k \in 1..3 : d = DetectorNames[k]
    BY TheNames
  <2>2. judgments[d] \in Seq(JudgmentSet) /\ Len(judgments[d]) = Len(all_pairs)
    BY <1>11, <2>1 DEF InPlace
  <2> QED
    BY <2>2
<1> QED
  BY <1>1, <1>8, <1>10, <1>11, <1>12, <1>13 DEF InPlace

\* A step to the next detector.
LEMMA NextDetectorStep ==
    ASSUME Walking, InPlace, NextDetector
    PROVE  Walking' /\ InPlace'
<1>1. /\ phase = "judging" /\ phase' = phase /\ detector < 3 /\ next > Len(Pairs)
      /\ batch' = batch /\ detector' = detector + 1 /\ next' = 1 /\ all_pairs' = all_pairs
      /\ batches' = batches /\ judgments' = judgments
  BY TheNames DEF NextDetector
<1>2. Pairs' = Pairs /\ Pairs \in Seq(ConflictPairs) /\ all_pairs \in Seq(ConflictPairs)
      /\ Len(Pairs) \in Nat /\ Len(all_pairs) \in Nat
  BY <1>1, LastWalked DEF Pairs
<1>3. detector \in 1..3 /\ next \in 1..(Len(Pairs) + 1)
  BY DEF Walking
<1>4. Walking'
  BY <1>1, <1>2, <1>3 DEF Walking
<1>5. \A k \in 1..3 : Given(k)' = Given(k)
  <2> SUFFICES ASSUME NEW k \in 1..3 PROVE Given(k)' = Given(k)
    OBVIOUS
  <2>1. CASE k < detector
    BY <1>1, <1>2, <1>3, <2>1 DEF Given
  <2>2. CASE k = detector
    BY <1>1, <1>2, <1>3, <2>2 DEF Given
  <2>3. CASE k = detector + 1
    BY <1>1, <1>2, <1>3, <2>3 DEF Given
  <2>4. CASE k > detector + 1
    BY <1>1, <1>2, <1>3, <2>4 DEF Given
  <2> QED
    BY <1>3, <2>1, <2>2, <2>3, <2>4
<1> QED
  BY <1>1, <1>4, <1>5 DEF InPlace

\* A judgment is appended to those of its detector, in the place of its pair.
LEMMA JudgeStep ==
    ASSUME Walking, InPlace, Judge
    PROVE  Walking' /\ InPlace'
<1> DEFINE name == DetectorNames[detector]
           given == judgments[name]
<1>1. /\ phase = "judging" /\ phase' = phase /\ next <= Len(Pairs)
      /\ batch' = batch /\ detector' = detector /\ next' = next + 1 /\ all_pairs' = all_pairs
      /\ batches' = batches
  BY DEF Judge
<1>2. PICK j \in Judgments(name, Pairs[next]) : judgments' = [judgments EXCEPT ![name] = Append(given, j)]
  BY DEF Judge
<1>3. detector \in 1..3 /\ next \in 1..(Len(Pairs) + 1)
  BY DEF Walking
<1>4. /\ Pairs \in Seq(ConflictPairs) /\ all_pairs \in Seq(ConflictPairs)
      /\ Len(Pairs) <= Len(all_pairs)
      /\ \A i \in DOMAIN Pairs : all_pairs[(Len(all_pairs) - Len(Pairs)) + i] = Pairs[i]
  BY LastWalked
<1>5. next \in DOMAIN Pairs /\ Pairs[next] \in ConflictPairs /\ name \in Names
  BY <1>1, <1>3, <1>4, TheNames
<1>6. Pairs' = Pairs
  BY <1>1 DEF Pairs
<1>7. Walking'
  BY <1>1, <1>3, <1>4, <1>6 DEF Walking
<1>8. j \in JudgmentSet /\ j.of = Pairs[next]
  BY <1>2, <1>5, AboutItsPair
<1>9. given \in Seq(JudgmentSet) /\ Len(given) = (Len(all_pairs) - Len(Pairs)) + (next - 1)
  <2>1. Given(detector) = (Len(all_pairs) - Len(Pairs)) + (next - 1)
    BY <1>3 DEF Given
  <2> QED
    BY <1>3, <1>5, <2>1 DEF InPlace
<1>10. Len(given) + 1 = (Len(all_pairs) - Len(Pairs)) + next
  BY <1>3, <1>4, <1>9
<1>11. all_pairs[Len(given) + 1] = j.of
  BY <1>4, <1>5, <1>8, <1>10
<1> DEFINE new == Append(given, j)
<1>12. /\ new \in Seq(JudgmentSet) /\ Len(new) = Len(given) + 1
       /\ \A n \in DOMAIN new : n \in DOMAIN given \/ n = Len(given) + 1
       /\ \A n \in DOMAIN given : new[n] = given[n]
       /\ new[Len(given) + 1] = j
  BY <1>8, <1>9
<1>13. /\ \A n \in DOMAIN given : given[n].of = all_pairs[n]
       /\ judgments \in [Names -> Seq(JudgmentSet)]
  BY <1>5 DEF InPlace
<1> HIDE DEF new
<1>14. judgments' = [judgments EXCEPT ![name] = new]
  BY <1>2 DEF new
<1>15. judgments' \in [Names -> Seq(JudgmentSet)] /\ judgments'[name] = new
       /\ \A d \in Names : d # name => judgments'[d] = judgments[d]
  BY <1>5, <1>12, <1>13, <1>14
<1>16. \A n \in DOMAIN new : new[n].of = all_pairs[n]
  BY <1>11, <1>12, <1>13
<1>17. \A d \in Names : \A n \in DOMAIN judgments'[d] : judgments'[d][n].of = all_pairs'[n]
  <2> SUFFICES ASSUME NEW d \in Names
               PROVE  \A n \in DOMAIN judgments'[d] : judgments'[d][n].of = all_pairs[n]
    BY <1>1
  <2>1. CASE d = name
    BY <1>15, <1>16, <2>1
  <2>2. CASE d # name
    BY <1>15, <2>2 DEF InPlace
  <2> QED
    BY <2>1, <2>2
<1>18. \A k \in 1..3 : Len(judgments'[DetectorNames[k]]) = Given(k)'
  <2> SUFFICES ASSUME NEW k \in 1..3 PROVE Len(judgments'[DetectorNames[k]]) = Given(k)'
    OBVIOUS
  <2>1. CASE k = detector
    <3>1. Given(k)' = (Len(all_pairs) - Len(Pairs)) + ((next + 1) - 1)
      BY <1>1, <1>6, <2>1 DEF Given
    <3>2. Len(judgments'[DetectorNames[k]]) = Len(given) + 1
      BY <1>12, <1>15, <2>1
    <3>3. Len(given) + 1 = (Len(all_pairs) - Len(Pairs)) + ((next + 1) - 1)
      BY <1>3, <1>10
    <3> QED
      BY <3>1, <3>2, <3>3
  <2>2. CASE k # detector
    <3>1. Given(k)' = Given(k)
      BY <1>1, <1>6, <2>2 DEF Given
    <3>2. DetectorNames[k] \in Names /\ DetectorNames[k] # name
      BY <1>3, <2>2, TheNames
    <3> QED
      BY <1>15, <3>1, <3>2 DEF InPlace
  <2> QED
    BY <2>1, <2>2
<1> QED
  BY <1>7, <1>15, <1>17, <1>18 DEF InPlace

\* The other steps judge nothing.
LEMMA NoJudgment ==
    ASSUME Walking, InPlace, UNCHANGED <<batches, batch, detector, next, all_pairs, judgments>>,
           phase' # "judging" => batch = Len(batches) /\ detector = 3 /\ next > Len(Pairs)
    PROVE  Walking' /\ InPlace'
<1>1. Pairs' = Pairs /\ \A k : Given(k)' = Given(k)
  BY DEF Pairs, Given
<1>2. Walking'
  BY <1>1 DEF Walking
<1> QED
  BY <1>1, <1>2 DEF InPlace

-----------------------------------------------------------------------------
(* Scores and resamples.                                                    *)

Ratios == Nat \X (Nat \ {0})

LEMMA RatiosAreNumbers == \A x \in Ratios : x # NaN /\ x[1] \in Nat /\ x[2] \in Nat /\ x[2] > 0
<1> SUFFICES ASSUME NEW x \in Ratios PROVE x # NaN /\ x[1] \in Nat /\ x[2] \in Nat /\ x[2] > 0
  OBVIOUS
<1>1. x \in Int \X Int
  BY DEF Ratios
<1> QED
  BY <1>1, DetectorsAssumption DEF Ratios

LEMMA RatioOf ==
    ASSUME NEW n \in Nat, NEW d \in Nat
    PROVE  /\ Ratio(n, d) \in Ratios \cup {NaN}
           /\ d = 0 => Ratio(n, d) = NaN
           /\ d # 0 => Ratio(n, d) = <<n, d>> /\ Ratio(n, d) \in Ratios
BY DEF Ratio, Ratios

\* The product of positive numbers, for the provers.
LEMMA Product == \A a, b \in Nat : a * b \in Nat /\ (a * b = 0 <=> a = 0 \/ b = 0)
OBVIOUS

LEMMA HarmonicOf ==
    ASSUME NEW p \in Ratios \cup {NaN}, NEW r \in Ratios \cup {NaN}
    PROVE  HarmonicMean(p, r) \in Ratios \cup {NaN}
<1>1. CASE p = NaN \/ r = NaN
  BY <1>1 DEF HarmonicMean
<1>2. CASE p # NaN /\ r # NaN
  <2>1. p[1] \in Nat /\ p[2] \in Nat /\ r[1] \in Nat /\ r[2] \in Nat
    BY <1>2, RatiosAreNumbers
  <2>2. 2 * p[1] * r[1] \in Nat /\ p[1] * r[2] + r[1] * p[2] \in Nat
    <3>1. p[1] * r[1] \in Nat /\ p[1] * r[2] \in Nat /\ r[1] * p[2] \in Nat
      BY <2>1, Product
    <3>2. 2 * p[1] \in Nat
      BY <2>1
    <3>3. 2 * p[1] * r[1] \in Nat
      BY <2>1, <3>2, Product
    <3> QED
      BY <3>1, <3>3
  <2> QED
    BY <1>2, <2>2, RatioOf DEF HarmonicMean
<1> QED
  BY <1>1, <1>2

\* What score_detector counts.
Counted(pairs, judged, p, j) ==
    {n \in DOMAIN pairs \cap DOMAIN judged : pairs[n].is_conflict = p /\ judged[n].is_conflict = j}

LEMMA CountedFinite ==
    ASSUME NEW pairs, NEW judged, IsFiniteSet(DOMAIN pairs), NEW p, NEW j
    PROVE  IsFiniteSet(Counted(pairs, judged, p, j)) /\ Cardinality(Counted(pairs, judged, p, j)) \in Nat
<1>1. Counted(pairs, judged, p, j) \subseteq DOMAIN pairs
  BY DEF Counted
<1> QED
  BY <1>1, FS_Subset, FS_CardinalityType

\* The record score_detector returns.
LEMMA ScoreOf ==
    ASSUME NEW pairs, NEW judged
    PROVE  LET Number(p, j) == Cardinality(Counted(pairs, judged, p, j))
               tp == Number(TRUE, TRUE)
               score == ScoreDetector(pairs, judged)
           IN  /\ score.precision = Ratio(tp, tp + Number(FALSE, TRUE))
               /\ score.recall = Ratio(tp, tp + Number(TRUE, FALSE))
               /\ score.f1 = HarmonicMean(score.precision, score.recall)
BY DEF ScoreDetector, Counted

LEMMA ScoreTypes ==
    ASSUME NEW pairs, NEW judged, IsFiniteSet(DOMAIN pairs)
    PROVE  ScoreDetector(pairs, judged).f1 \in Ratios \cup {NaN}
<1> DEFINE tp == Cardinality(Counted(pairs, judged, TRUE, TRUE))
           fp == Cardinality(Counted(pairs, judged, FALSE, TRUE))
           fn == Cardinality(Counted(pairs, judged, TRUE, FALSE))
           score == ScoreDetector(pairs, judged)
<1>1. tp \in Nat /\ fp \in Nat /\ fn \in Nat
  BY CountedFinite
<1>2. /\ score.precision = Ratio(tp, tp + fp) /\ score.recall = Ratio(tp, tp + fn)
      /\ score.f1 = HarmonicMean(score.precision, score.recall)
  BY ScoreOf
<1> HIDE DEF tp, fp, fn, score
<1>3. tp + fp \in Nat /\ tp + fn \in Nat
  BY <1>1
<1>4. score.precision \in Ratios \cup {NaN} /\ score.recall \in Ratios \cup {NaN}
  BY <1>1, <1>2, <1>3, RatioOf
<1>5. score.f1 \in Ratios \cup {NaN}
  BY <1>2, <1>4, HarmonicOf
<1> QED
  BY <1>5 DEF score

LEMMA GapOf ==
    ASSUME NEW x \in Ratios, NEW y \in Ratios
    PROVE  AbsoluteGap(x, y) \in Ratios
<1>1. x[1] \in Nat /\ x[2] \in Nat /\ x[2] # 0 /\ y[1] \in Nat /\ y[2] \in Nat /\ y[2] # 0
  BY RatiosAreNumbers DEF Ratios
<1>2. x[1] * y[2] \in Nat /\ y[1] * x[2] \in Nat /\ x[2] * y[2] \in Nat \ {0}
  BY <1>1, Product
<1> DEFINE a == x[1] * y[2]
           b == y[1] * x[2]
           c == x[2] * y[2]
<1>3. a \in Nat /\ b \in Nat /\ c \in Nat \ {0}
  BY <1>2
<1> HIDE DEF a, b, c
<1>4. <<IF a - b < 0 THEN -(a - b) ELSE a - b, c>> \in Ratios
  BY <1>3 DEF Ratios
<1> QED
  BY <1>4 DEF a, b, c, AbsoluteGap

\* Where the bootstrap is.
Scored ==
    /\ phase \in {"judging", "resampling", "done", "raised"}
    /\ phase # "judging" => scores = [d \in Names |-> FullMetrics(all_pairs, judgments[d])]
    /\ f1s \in [Names -> Seq(Ratios)] /\ gaps \in [Local -> Seq(Ratios)]
    /\ phase = "raised" => <<>> \in Range(f1s) \cup Range(gaps)
    /\ phase = "done" =>
           /\ <<>> \notin Range(f1s) \cup Range(gaps)
           /\ intervals = [d \in Names |-> BootstrapInterval(f1s[d])]
           /\ gapIntervals = [d \in Local |-> BootstrapInterval(gaps[d])]

EvalInv == Walking /\ InPlace /\ Scored

LEMMA StartsScored == EvalInit => Scored
BY DEF EvalInit, Scored

LEMMA JudgingScored ==
    ASSUME Scored, phase = "judging",
           UNCHANGED <<f1s, gaps, phase>>
    PROVE  Scored'
BY DEF Scored

LEMMA ScoreStep ==
    ASSUME EvalInv, Score
    PROVE  EvalInv'
<1>1. Walking' /\ InPlace'
  <2>1. batch = Len(batches) /\ detector = 3 /\ next > Len(Pairs)
    BY TheNames DEF Score
  <2> QED
    BY <2>1, NoJudgment DEF Score, EvalInv
<1>2. Scored'
  BY DEF EvalInv, Scored, Score
<1> QED
  BY <1>1, <1>2 DEF EvalInv

LEMMA ResampleStep ==
    ASSUME EvalInv, Resample
    PROVE  EvalInv'
<1>1. Walking' /\ InPlace'
  <2>1. UNCHANGED <<batches, batch, detector, next, all_pairs, judgments, phase>> /\ phase # "judging"
    BY DEF Resample
  <2>2. batch = Len(batches) /\ detector = 3 /\ next > Len(Pairs)
    BY <2>1 DEF EvalInv, Walking
  <2> QED
    BY <2>1, <2>2, NoJudgment DEF EvalInv
<1> DEFINE Sampled(draw) == [n \in DOMAIN draw |-> all_pairs[draw[n]]]
           F1(draw, d) == ScoreDetector(Sampled(draw), [n \in DOMAIN draw |-> judgments[d][draw[n]]]).f1
<1>2. PICK draw \in [DOMAIN all_pairs -> DOMAIN all_pairs] :
          LET f1 == [d \in Names |-> F1(draw, d)]
          IN  /\ f1s' = [d \in Names |-> IF f1[d] = NaN THEN f1s[d] ELSE Append(f1s[d], f1[d])]
              /\ gaps' = [d \in Local |->
                     IF NaN \in {f1[d], f1["llm_judge"]} THEN gaps[d]
                     ELSE Append(gaps[d], AbsoluteGap(f1[d], f1["llm_judge"]))]
  BY DEF Resample
<1> DEFINE f1 == [d \in Names |-> F1(draw, d)]
<1>3. \A d \in Names : f1[d] \in Ratios \cup {NaN}
  <2> SUFFICES ASSUME NEW d \in Names PROVE f1[d] \in Ratios \cup {NaN}
    OBVIOUS
  <2>1. IsFiniteSet(DOMAIN Sampled(draw))
    <3>1. all_pairs \in Seq(ConflictPairs)
      BY LastWalked DEF EvalInv
    <3>2. DOMAIN Sampled(draw) = 1..Len(all_pairs)
      BY <3>1
    <3>3. Len(all_pairs) \in Int
      BY <3>1
    <3> QED
      BY <3>2, <3>3, FS_Interval
  <2>2. f1[d] = F1(draw, d)
    OBVIOUS
  <2> HIDE DEF Sampled
  <2>3. F1(draw, d) \in Ratios \cup {NaN}
    BY <2>1, ScoreTypes
  <2> QED
    BY <2>2, <2>3
<1>4. /\ f1s' = [d \in Names |-> IF f1[d] = NaN THEN f1s[d] ELSE Append(f1s[d], f1[d])]
      /\ gaps' = [d \in Local |->
             IF NaN \in {f1[d], f1["llm_judge"]} THEN gaps[d]
             ELSE Append(gaps[d], AbsoluteGap(f1[d], f1["llm_judge"]))]
  BY <1>2
<1> HIDE DEF f1
<1>5. f1s \in [Names -> Seq(Ratios)] /\ gaps \in [Local -> Seq(Ratios)] /\ phase = "resampling"
  BY DEF EvalInv, Scored, Resample
<1>6. f1s' \in [Names -> Seq(Ratios)]
  <2>1. \A d \in Names : (IF f1[d] = NaN THEN f1s[d] ELSE Append(f1s[d], f1[d])) \in Seq(Ratios)
    BY <1>3, <1>5
  <2> QED
    BY <1>4, <2>1
<1>7. gaps' \in [Local -> Seq(Ratios)]
  <2>1. ASSUME NEW d \in Local
        PROVE  (IF NaN \in {f1[d], f1["llm_judge"]} THEN gaps[d]
                ELSE Append(gaps[d], AbsoluteGap(f1[d], f1["llm_judge"]))) \in Seq(Ratios)
    <3>1. CASE NaN \in {f1[d], f1["llm_judge"]}
      BY <1>5, <3>1
    <3>2. CASE NaN \notin {f1[d], f1["llm_judge"]}
      <4>1. d \in Names /\ "llm_judge" \in Names
        BY TheNames
      <4>2. f1[d] \in Ratios /\ f1["llm_judge"] \in Ratios
        BY <1>3, <3>2, <4>1
      <4>3. AbsoluteGap(f1[d], f1["llm_judge"]) \in Ratios
        BY <4>2, GapOf
      <4> QED
        BY <1>5, <3>2, <4>3
    <3> QED
      BY <3>1, <3>2
  <2> QED
    BY <1>4, <2>1
<1>8. phase' = phase /\ scores' = scores /\ all_pairs' = all_pairs /\ judgments' = judgments
  BY DEF Resample
<1>9. Scored'
  BY <1>5, <1>6, <1>7, <1>8 DEF EvalInv, Scored
<1> QED
  BY <1>1, <1>9 DEF EvalInv

LEMMA IntervalsStep ==
    ASSUME EvalInv, Intervals
    PROVE  EvalInv'
<1>1. /\ UNCHANGED <<batches, batch, detector, next, all_pairs, judgments, scores, f1s, gaps>>
      /\ phase = "resampling"
      /\ \/ phase' = "raised" /\ <<>> \in Range(f1s) \cup Range(gaps)
         \/ /\ phase' = "done" /\ <<>> \notin Range(f1s) \cup Range(gaps)
            /\ intervals' = [d \in Names |-> BootstrapInterval(f1s[d])]
            /\ gapIntervals' = [d \in Local |-> BootstrapInterval(gaps[d])]
  BY DEF Intervals
<1>2. Walking' /\ InPlace'
  <2>1. batch = Len(batches) /\ detector = 3 /\ next > Len(Pairs)
    BY <1>1 DEF EvalInv, Walking
  <2> QED
    BY <1>1, <2>1, NoJudgment DEF EvalInv
<1>3. Scored'
  BY <1>1 DEF EvalInv, Scored
<1> QED
  BY <1>2, <1>3 DEF EvalInv

\* Every judgment in its place, types of all numbers, and what the phases mean.
THEOREM EvaluationIsSound == EvalSpec => []EvalInv
<1>1. EvalInit => EvalInv
  BY StartsInPlace, StartsScored DEF EvalInv
<1>2. EvalInv /\ [EvalNext]_evalVars => EvalInv'
  <2> SUFFICES ASSUME EvalInv, [EvalNext]_evalVars PROVE EvalInv'
    OBVIOUS
  <2>1. CASE NextScenario
    <3>1. Scored'
      BY <2>1, JudgingScored DEF NextScenario, EvalInv
    <3> QED
      BY <2>1, <3>1, NextScenarioStep DEF EvalInv
  <2>2. CASE NextDetector
    <3>1. Scored'
      BY <2>2, JudgingScored DEF NextDetector, EvalInv
    <3> QED
      BY <2>2, <3>1, NextDetectorStep DEF EvalInv
  <2>3. CASE Judge
    <3>1. Scored'
      BY <2>3, JudgingScored DEF Judge, EvalInv
    <3> QED
      BY <2>3, <3>1, JudgeStep DEF EvalInv
  <2>4. CASE Score
    BY <2>4, ScoreStep
  <2>5. CASE Resample
    BY <2>5, ResampleStep
  <2>6. CASE Intervals
    BY <2>6, IntervalsStep
  <2>7. CASE UNCHANGED evalVars
    <3>1. /\ UNCHANGED <<batches, batch, detector, next, all_pairs, judgments, phase>>
          /\ UNCHANGED <<scores, f1s, gaps, intervals, gapIntervals>>
      BY <2>7 DEF evalVars
    <3>2. Walking' /\ InPlace'
      BY <3>1, NoJudgment DEF EvalInv, Walking
    <3>3. Scored'
      BY <3>1 DEF EvalInv, Scored
    <3> QED
      BY <3>2, <3>3 DEF EvalInv
  <2> QED
    BY <2>1, <2>2, <2>3, <2>4, <2>5, <2>6, <2>7 DEF EvalNext
<1> QED
  BY <1>1, <1>2, PTL DEF EvalSpec

-----------------------------------------------------------------------------
(* What the judgments and the scores are.                                   *)

LEMMA AllJudged ==
    ASSUME EvalInv, phase # "judging"
    PROVE  /\ all_pairs = FlattenSeq(batches)
           /\ \A d \in Names : judgments[d] \in Seq(JudgmentSet) /\ Len(judgments[d]) = Len(all_pairs)
<1>1. /\ \E w \in Workloads : batches \in {w, <<FlattenSeq(w)>>}
      /\ batch = Len(batches) /\ detector = 3 /\ next > Len(Pairs) /\ next \in 1..(Len(Pairs) + 1)
      /\ all_pairs = Walked(batches, batch)
  BY DEF EvalInv, Walking
<1>2. batches \in Seq(Seq(ConflictPairs))
  BY <1>1, TheBatches
<1>3. all_pairs = FlattenSeq(batches)
  BY <1>1, <1>2, Walk
<1>4. Len(Pairs) \in Nat /\ Len(all_pairs) \in Nat
  BY LastWalked DEF EvalInv
<1>5. (Len(all_pairs) - Len(Pairs)) + (next - 1) = Len(all_pairs)
  BY <1>1, <1>4
<1>6. \A k \in 1..3 : Given(k) = Len(all_pairs)
  <2>1. \A k \in 1..3 : k < 3 \/ k = 3
    OBVIOUS
  <2> QED
    BY <1>1, <1>5, <2>1 DEF Given
<1>7. ASSUME NEW d \in Names
      PROVE  judgments[d] \in Seq(JudgmentSet) /\ Len(judgments[d]) = Len(all_pairs)
  <2>1. PICK k \in 1..3 : d = DetectorNames[k]
    BY TheNames
  <2> QED
    BY <1>6, <2>1 DEF EvalInv, InPlace
<1> QED
  BY <1>3, <1>7

\* Every judgment is about the pair in its place, in both orders of the loops
\* and for any number of scenarios and pairs; when scores are taken there is one
\* for every pair of every scenario.
THEOREM JudgmentsInPlace == EvalSpec => []JudgedInOrder
<1>1. EvalInv => JudgedInOrder
  BY AllJudged DEF EvalInv, InPlace, JudgedInOrder
<1> QED
  BY <1>1, EvaluationIsSound, PTL

\* Equal fractions.
LEMMA SameAsItself == \A x : SameRatio(x, x)
BY DEF SameRatio

\* Conflicts found and missed are all of them.
LEMMA CountTwo ==
    ASSUME NEW X, NEW Y, IsFiniteSet(X), IsFiniteSet(Y), X \cap Y = {}
    PROVE  /\ IsFiniteSet(X \cup Y) /\ Cardinality(X) \in Nat /\ Cardinality(Y) \in Nat
           /\ Cardinality(X \cup Y) = Cardinality(X) + Cardinality(Y)
<1>1. IsFiniteSet(X \cup Y) /\ Cardinality(X \cup Y)
          = Cardinality(X) + Cardinality(Y) - Cardinality(X \cap Y)
  BY FS_Union
<1>2. Cardinality(X \cap Y) = 0
  BY FS_EmptySet
<1>3. Cardinality(X) \in Nat /\ Cardinality(Y) \in Nat
  BY FS_CardinalityType
<1> QED
  BY <1>1, <1>2, <1>3

\* The harmonic mean of tp / f and tp / c is 2 tp / (c + f).
LEMMA MeanOfTwo ==
    ASSUME NEW tp \in Nat, NEW f \in Nat, NEW c \in Nat, tp <= f, tp <= c
    PROVE  SameRatio(HarmonicMean(Ratio(tp, f), Ratio(tp, c)),
                     IF tp = 0 THEN NaN ELSE Ratio(2 * tp, c + f))
<1>1. CASE f = 0 \/ c = 0
  <2>1. tp = 0 /\ (Ratio(tp, f) = NaN \/ Ratio(tp, c) = NaN)
    BY <1>1, RatioOf
  <2> QED
    BY <2>1 DEF HarmonicMean, SameRatio
<1>2. CASE f # 0 /\ c # 0
  <2> DEFINE p == <<tp, f>>
             r == <<tp, c>>
             n == 2 * tp * tp
             m == tp * c + tp * f
  <2>1. Ratio(tp, f) = p /\ Ratio(tp, c) = r /\ p # NaN /\ r # NaN
    <3>1. p \in Ratios /\ r \in Ratios
      BY <1>2 DEF Ratios
    <3> QED
      BY <1>2, <3>1, RatioOf, RatiosAreNumbers
  <2>2. HarmonicMean(p, r) = Ratio(n, m)
    BY <2>1 DEF HarmonicMean
  <2>3. CASE tp = 0
    <3>1. m = 0
      BY <2>3
    <3> QED
      BY <2>1, <2>2, <2>3, <3>1 DEF Ratio, SameRatio
  <2>4. CASE tp # 0
    <3>1. tp * c \in Nat /\ tp * f \in Nat /\ tp * c # 0
      BY <1>2, <2>4, Product
    <3>2. m \in Nat /\ m # 0 /\ c + f # 0
      BY <1>2, <3>1
    <3>3. Ratio(n, m) = <<n, m>> /\ Ratio(2 * tp, c + f) = <<2 * tp, c + f>>
      BY <3>2 DEF Ratio
    <3>4. <<n, m>> # NaN /\ <<2 * tp, c + f>> # NaN
      <4>1. n \in Int /\ m \in Int /\ 2 * tp \in Int /\ c + f \in Int
        <5>1. tp * tp \in Nat /\ 2 * tp \in Nat
          BY Product
        <5>2. n \in Nat
          BY <5>1, Product
        <5> QED
          BY <3>2, <5>1, <5>2
      <4> QED
        BY <4>1, DetectorsAssumption
    <3>5. n * (c + f) = (2 * tp) * m
      OBVIOUS
    <3>6. SameRatio(<<n, m>>, <<2 * tp, c + f>>)
      BY <3>4, <3>5 DEF SameRatio
    <3> QED
      BY <2>1, <2>2, <2>4, <3>3, <3>6
  <2> QED
    BY <2>3, <2>4
<1> QED
  BY <1>1, <1>2

\* The pairs a detector found, by the places of its judgments.
LEMMA FoundByPlace ==
    ASSUME EvalInv, phase # "judging", NEW d \in Names
    PROVE  /\ {n \in DOMAIN all_pairs :
                   \E j \in Range(judgments[d]) : j.of = all_pairs[n] /\ j.is_conflict}
                 = {n \in DOMAIN all_pairs : judgments[d][n].is_conflict = TRUE}
           /\ DOMAIN judgments[d] = DOMAIN all_pairs
           /\ \A n \in DOMAIN all_pairs : /\ judgments[d][n].is_conflict \in BOOLEAN
                                          /\ all_pairs[n].is_conflict \in BOOLEAN
           /\ IsFiniteSet(DOMAIN all_pairs) /\ Cardinality(DOMAIN all_pairs) = Len(all_pairs)
<1>1. /\ all_pairs = FlattenSeq(batches)
      /\ judgments[d] \in Seq(JudgmentSet) /\ Len(judgments[d]) = Len(all_pairs)
  BY AllJudged
<1>2. all_pairs \in Seq(ConflictPairs)
  BY LastWalked DEF EvalInv
<1>3. IsInjective(all_pairs)
  <2>1. \E w \in Workloads : FlattenSeq(batches) = FlattenSeq(w)
    BY TheBatches DEF EvalInv, Walking
  <2> QED
    BY <1>1, <2>1, WorkloadsAssumption
<1>4. DOMAIN judgments[d] = DOMAIN all_pairs
  BY <1>1, <1>2
<1>5. \A n \in DOMAIN all_pairs : judgments[d][n].of = all_pairs[n]
  BY <1>4 DEF EvalInv, InPlace
<1>6. ASSUME NEW n \in DOMAIN all_pairs
      PROVE  judgments[d][n].is_conflict \in BOOLEAN /\ all_pairs[n].is_conflict \in BOOLEAN
  <2>1. judgments[d][n] \in JudgmentSet /\ all_pairs[n] \in ConflictPairs
    BY <1>1, <1>2, <1>4
  <2> QED
    BY <2>1, WorkloadsAssumption DEF JudgmentSet
<1>7. ASSUME NEW n \in DOMAIN all_pairs
      PROVE  (\E j \in Range(judgments[d]) : j.of = all_pairs[n] /\ j.is_conflict)
                 <=> judgments[d][n].is_conflict = TRUE
  <2>1. ASSUME NEW j \in Range(judgments[d]), j.of = all_pairs[n], j.is_conflict
        PROVE  judgments[d][n].is_conflict = TRUE
    <3>1. PICK m \in DOMAIN all_pairs : j = judgments[d][m]
      BY <1>4 DEF Range
    <3>2. all_pairs[m] = all_pairs[n]
      BY <1>5, <2>1, <3>1
    <3>3. m = n
      BY <1>3, <3>2 DEF IsInjective
    <3>4. judgments[d][n].is_conflict \in BOOLEAN
      BY <1>6
    <3> QED
      BY <2>1, <3>1, <3>3, <3>4
  <2>2. judgments[d][n] \in Range(judgments[d]) /\ judgments[d][n].of = all_pairs[n]
    BY <1>4, <1>5 DEF Range
  <2> QED
    BY <2>1, <2>2
<1>8. IsFiniteSet(DOMAIN all_pairs) /\ Cardinality(DOMAIN all_pairs) = Len(all_pairs)
  <2>1. DOMAIN all_pairs = 1..Len(all_pairs) /\ Len(all_pairs) \in Nat /\ Len(all_pairs) \in Int
    BY <1>2
  <2>2. IsFiniteSet(1..Len(all_pairs)) /\ Cardinality(1..Len(all_pairs))
            = IF 1 > Len(all_pairs) THEN 0 ELSE Len(all_pairs) - 1 + 1
    BY <2>1, FS_Interval
  <2>3. (IF 1 > Len(all_pairs) THEN 0 ELSE Len(all_pairs) - 1 + 1) = Len(all_pairs)
    BY <2>1
  <2> QED
    BY <2>1, <2>2, <2>3
<1> QED
  BY <1>4, <1>6, <1>7, <1>8

\* Precision, recall, F1 and false positive rate are those of the sets of
\* conflicts and of pairs found, for any pairs and judgments; precision is 1
\* where all pairs are conflicts.
THEOREM ScoresFromSets == EvalSpec => []ScoresAreReference
<1>1. EvalInv => ScoresAreReference
  <2> SUFFICES ASSUME EvalInv, phase # "judging", NEW d \in Names
               PROVE  LET conflicts == {n \in DOMAIN all_pairs : all_pairs[n].is_conflict}
                          found == {n \in DOMAIN all_pairs :
                              \E j \in Range(judgments[d]) : j.of = all_pairs[n] /\ j.is_conflict}
                          both == Cardinality(conflicts \cap found)
                      IN /\ SameRatio(scores[d].precision, Ratio(both, Cardinality(found)))
                         /\ SameRatio(scores[d].recall, Ratio(both, Cardinality(conflicts)))
                         /\ SameRatio(scores[d].f1, IF both = 0 THEN NaN
                                ELSE Ratio(2 * both, Cardinality(conflicts) + Cardinality(found)))
                         /\ SameRatio(scores[d].false_positive_rate,
                                Ratio(Cardinality(found \ conflicts),
                                      Len(all_pairs) - Cardinality(conflicts)))
                         /\ (conflicts = DOMAIN all_pairs /\ found # {}) =>
                                SameRatio(scores[d].precision, <<1, 1>>)
    BY DEF ScoresAreReference
  <2> DEFINE D == DOMAIN all_pairs
             J == judgments[d]
             C == {n \in D : all_pairs[n].is_conflict}
             F == {n \in D : \E j \in Range(J) : j.of = all_pairs[n] /\ j.is_conflict}
             tp == Cardinality(C \cap F)
             fp == Cardinality(F \ C)
             fn == Cardinality(C \ F)
  <2>1. F = {n \in D : J[n].is_conflict = TRUE}
    BY FoundByPlace
  <2>2. /\ DOMAIN J = D /\ IsFiniteSet(D) /\ Cardinality(D) = Len(all_pairs)
        /\ \A n \in D : J[n].is_conflict \in BOOLEAN /\ all_pairs[n].is_conflict \in BOOLEAN
    BY FoundByPlace
  <2>3. /\ Counted(all_pairs, J, TRUE, TRUE) = C \cap F
        /\ Counted(all_pairs, J, FALSE, TRUE) = F \ C
        /\ Counted(all_pairs, J, TRUE, FALSE) = C \ F
    BY <2>1, <2>2 DEF Counted
  <2>4. /\ IsFiniteSet(C) /\ IsFiniteSet(F) /\ IsFiniteSet(D \ C)
        /\ IsFiniteSet(C \cap F) /\ IsFiniteSet(F \ C) /\ IsFiniteSet(C \ F)
    <3>1. C \subseteq D /\ F \subseteq D
      OBVIOUS
    <3> HIDE DEF C, F, D
    <3>2. /\ D \ C \subseteq D /\ C \cap F \subseteq D
          /\ F \ C \subseteq D /\ C \ F \subseteq D
      BY <3>1
    <3> QED
      BY <2>2, <3>1, <3>2, FS_Subset
  <2>5. /\ tp \in Nat /\ fp \in Nat /\ fn \in Nat
        /\ Cardinality(F) = tp + fp /\ Cardinality(C) = tp + fn
    <3> HIDE DEF C, F
    <3>1. /\ (C \cap F) \cap (F \ C) = {} /\ F = (C \cap F) \cup (F \ C)
          /\ (C \cap F) \cap (C \ F) = {} /\ C = (C \cap F) \cup (C \ F)
      OBVIOUS
    <3> QED
      BY <2>4, <3>1, CountTwo
  <2>6. Cardinality(D \ C) = Len(all_pairs) - Cardinality(C)
    <3>1. C \cap (D \ C) = {} /\ D = C \cup (D \ C)
      OBVIOUS
    <3> HIDE DEF C
    <3>2. Cardinality(D) = Cardinality(C) + Cardinality(D \ C) /\ Cardinality(C) \in Nat
          /\ Cardinality(D \ C) \in Nat
      BY <2>4, <3>1, CountTwo
    <3> QED
      BY <2>2, <3>2
  <2>7. scores[d] = FullMetrics(all_pairs, J)
    BY DEF EvalInv, Scored
  <2> DEFINE s == ScoreDetector(all_pairs, J)
  <2>8. /\ s.precision = Ratio(tp, tp + fp) /\ s.recall = Ratio(tp, tp + fn)
        /\ s.f1 = HarmonicMean(s.precision, s.recall)
    <3> HIDE DEF C, F
    <3>1. /\ s.precision = Ratio(Cardinality(Counted(all_pairs, J, TRUE, TRUE)),
                                 Cardinality(Counted(all_pairs, J, TRUE, TRUE))
                                     + Cardinality(Counted(all_pairs, J, FALSE, TRUE)))
          /\ s.recall = Ratio(Cardinality(Counted(all_pairs, J, TRUE, TRUE)),
                              Cardinality(Counted(all_pairs, J, TRUE, TRUE))
                                  + Cardinality(Counted(all_pairs, J, TRUE, FALSE)))
          /\ s.f1 = HarmonicMean(s.precision, s.recall)
      BY ScoreOf
    <3> QED
      BY <2>3, <3>1
  <2>9. /\ scores[d].precision = s.precision /\ scores[d].recall = s.recall /\ scores[d].f1 = s.f1
    BY <2>7 DEF FullMetrics
  <2>10. scores[d].false_positive_rate = Ratio(fp, Cardinality(D \ C))
    <3> DEFINE labels == [n \in D |-> all_pairs[n].is_conflict]
               alarms == {n \in D : ~labels[n] /\ J[n].is_conflict}
               negatives == {n \in D : ~labels[n]}
    <3>1. scores[d].false_positive_rate = Ratio(Cardinality(alarms), Cardinality(negatives))
      BY <2>7 DEF FullMetrics
    <3>2. alarms = F \ C /\ negatives = D \ C
      BY <2>1, <2>2
    <3> QED
      BY <3>1, <3>2
  <2> HIDE DEF s, tp, fp, fn
  <2>11. SameRatio(scores[d].precision, Ratio(tp, Cardinality(F)))
    BY <2>5, <2>8, <2>9, SameAsItself
  <2>12. SameRatio(scores[d].recall, Ratio(tp, Cardinality(C)))
    BY <2>5, <2>8, <2>9, SameAsItself
  <2>13. SameRatio(scores[d].f1, IF tp = 0 THEN NaN ELSE Ratio(2 * tp, Cardinality(C) + Cardinality(F)))
    <3>1. tp + fp \in Nat /\ tp + fn \in Nat /\ tp <= tp + fp /\ tp <= tp + fn
      BY <2>5
    <3>2. SameRatio(HarmonicMean(Ratio(tp, tp + fp), Ratio(tp, tp + fn)),
                    IF tp = 0 THEN NaN ELSE Ratio(2 * tp, (tp + fn) + (tp + fp)))
      BY <2>5, <3>1, MeanOfTwo
    <3> QED
      BY <2>5, <2>8, <2>9, <3>2
  <2>14. SameRatio(scores[d].false_positive_rate,
                   Ratio(Cardinality(F \ C), Len(all_pairs) - Cardinality(C)))
    BY <2>6, <2>10, SameAsItself DEF fp
  <2>15. ASSUME C = D, F # {} PROVE SameRatio(scores[d].precision, <<1, 1>>)
    <3>1. F \ C = {} /\ F \subseteq D
      BY <2>15
    <3>2. fp = 0 /\ tp = Cardinality(F)
      <4>1. fp = 0
        BY <3>1, FS_EmptySet DEF fp
      <4> QED
        BY <2>5, <4>1
    <3>3. tp # 0
      <4> HIDE DEF F
      <4> QED
        BY <2>4, <2>15, <3>2, FS_EmptySet
    <3>4. scores[d].precision = <<tp, tp>>
      BY <2>5, <2>8, <2>9, <3>2, <3>3 DEF Ratio
    <3>5. <<tp, tp>> # NaN /\ <<1, 1>> # NaN
      <4>1. tp \in Int /\ 1 \in Int
        BY <2>5
      <4> QED
        BY <4>1, DetectorsAssumption
    <3> QED
      BY <2>5, <3>4, <3>5 DEF SameRatio
  <2> QED
    BY <2>11, <2>12, <2>13, <2>14, <2>15 DEF tp
<1> QED
  BY <1>1, EvaluationIsSound, PTL

-----------------------------------------------------------------------------
(* What sorted() puts where, in any order.                                  *)

LEMMA TimesMonotone == \A a, b, c \in Nat : a <= b => a * c <= b * c
<1> SUFFICES ASSUME NEW a \in Nat, NEW b \in Nat, NEW c \in Nat, a <= b PROVE a * c <= b * c
  OBVIOUS
<1> DEFINE d == b - a
<1>1. d \in Nat /\ b = a + d
  OBVIOUS
<1>2. b * c = a * c + d * c
  <2> HIDE DEF d
  <2> QED
    BY <1>1
<1>3. a * c \in Nat /\ d * c \in Nat
  BY <1>1, Product
<1> QED
  BY <1>2, <1>3

LEMMA TimesCancel == \A a, b, c \in Nat : c > 0 /\ a * c <= b * c => a <= b
<1> SUFFICES ASSUME NEW a \in Nat, NEW b \in Nat, NEW c \in Nat, c > 0, ~(a <= b)
             PROVE  ~(a * c <= b * c)
  OBVIOUS
<1>1. b + 1 \in Nat /\ b + 1 <= a
  OBVIOUS
<1>2. (b + 1) * c <= a * c
  BY <1>1, TimesMonotone
<1>3. (b + 1) * c = b * c + c
  OBVIOUS
<1>4. a * c \in Nat /\ b * c \in Nat
  BY Product
<1> QED
  BY <1>2, <1>3, <1>4

\* AtMostRatio puts fractions in order.
LEMMA RatiosOrdered ==
    /\ \A x, y \in Ratios : AtMostRatio(x, y) \/ AtMostRatio(y, x)
    /\ \A x, y, z \in Ratios : AtMostRatio(x, y) /\ AtMostRatio(y, z) => AtMostRatio(x, z)
<1>1. ASSUME NEW x \in Ratios, NEW y \in Ratios PROVE AtMostRatio(x, y) \/ AtMostRatio(y, x)
  <2>1. x[1] * y[2] \in Nat /\ y[1] * x[2] \in Nat
    BY RatiosAreNumbers, Product
  <2> QED
    BY <2>1 DEF AtMostRatio
<1>2. ASSUME NEW x \in Ratios, NEW y \in Ratios, NEW z \in Ratios,
             AtMostRatio(x, y), AtMostRatio(y, z)
      PROVE  AtMostRatio(x, z)
  <2> DEFINE a == x[1]
             b == x[2]
             c == y[1]
             d == y[2]
             e == z[1]
             f == z[2]
  <2>1. a \in Nat /\ b \in Nat /\ c \in Nat /\ d \in Nat /\ e \in Nat /\ f \in Nat /\ d > 0
    BY RatiosAreNumbers
  <2>2. a * d <= c * b /\ c * f <= e * d
    BY <1>2 DEF AtMostRatio
  <2> HIDE DEF a, b, c, d, e, f
  <2>3. a * d \in Nat /\ c * b \in Nat /\ c * f \in Nat /\ e * d \in Nat /\ a * f \in Nat /\ e * b \in Nat
    BY <2>1, Product
  <2>4. (a * d) * f <= (c * b) * f /\ (c * f) * b <= (e * d) * b
    BY <2>1, <2>2, <2>3, TimesMonotone
  <2>5. /\ (a * d) * f = (a * f) * d /\ (c * b) * f = (c * f) * b /\ (e * d) * b = (e * b) * d
        /\ (a * f) * d \in Nat /\ (e * b) * d \in Nat /\ (c * f) * b \in Nat
    <3>1. (a * f) * d \in Nat /\ (e * b) * d \in Nat /\ (c * f) * b \in Nat
      BY <2>1, <2>3, Product
    <3> QED
      BY <2>1, <3>1
  <2>6. (a * f) * d <= (e * b) * d
    BY <2>4, <2>5
  <2>7. a * f <= e * b
    BY <2>1, <2>3, <2>6, TimesCancel
  <2> QED
    BY <2>7 DEF AtMostRatio, a, b, e, f
<1> QED
  BY <1>1, <1>2

\* R puts the members of X in order: of any two one is at most the other.
Orders(R, X) ==
    /\ \A x, y \in X : <<x, y>> \in R \/ <<y, x>> \in R
    /\ \A x, y, z \in X : <<x, y>> \in R /\ <<y, z>> \in R => <<x, z>> \in R

\* The places of what is less than x, and of what is at most x.
Below(list, x, R) == {n \in DOMAIN list : <<x, list[n]>> \notin R}
UpTo(list, x, R) == {n \in DOMAIN list : <<list[n], x>> \in R}

LEMMA CountsOfPlaces ==
    ASSUME NEW X, NEW list \in Seq(X), NEW x, NEW R
    PROVE  /\ IsFiniteSet(Below(list, x, R)) /\ IsFiniteSet(UpTo(list, x, R))
           /\ Cardinality(Below(list, x, R)) \in 0..Len(list)
           /\ Cardinality(UpTo(list, x, R)) \in 0..Len(list)
<1>1. /\ Below(list, x, R) \subseteq 1..Len(list) /\ UpTo(list, x, R) \subseteq 1..Len(list)
      /\ Len(list) \in Nat /\ Len(list) \in Int
  BY DEF Below, UpTo
<1>2. IsFiniteSet(1..Len(list)) /\ Cardinality(1..Len(list)) <= Len(list)
  <2>1. IsFiniteSet(1..Len(list)) /\ Cardinality(1..Len(list))
            = IF 1 > Len(list) THEN 0 ELSE Len(list) - 1 + 1
    BY <1>1, FS_Interval
  <2> QED
    BY <1>1, <2>1
<1>3. /\ IsFiniteSet(Below(list, x, R)) /\ Cardinality(Below(list, x, R)) <= Cardinality(1..Len(list))
      /\ IsFiniteSet(UpTo(list, x, R)) /\ Cardinality(UpTo(list, x, R)) <= Cardinality(1..Len(list))
  BY <1>1, <1>2, FS_Subset
<1>4. /\ Cardinality(Below(list, x, R)) \in Nat /\ Cardinality(UpTo(list, x, R)) \in Nat
      /\ Cardinality(1..Len(list)) \in Nat
  BY <1>2, <1>3, FS_CardinalityType
<1> QED
  BY <1>1, <1>2, <1>3, <1>4

\* A set without one of the members of a larger one has fewer.
LEMMA FewerIn ==
    ASSUME NEW T, IsFiniteSet(T), NEW S \in SUBSET T, NEW t \in T, t \notin S
    PROVE  Cardinality(S) < Cardinality(T)
<1>1. IsFiniteSet(S) /\ Cardinality(S) <= Cardinality(T) /\ (Cardinality(S) = Cardinality(T) => S = T)
  BY FS_Subset
<1>2. Cardinality(S) \in Nat /\ Cardinality(T) \in Nat
  BY <1>1, FS_CardinalityType
<1> QED
  BY <1>1, <1>2

\* Among any places of a list one holds the greatest.
LEMMA GreatestPlace ==
    ASSUME NEW X, NEW R, Orders(R, X), NEW list \in Seq(X), NEW P \in SUBSET DOMAIN list, P # {}
    PROVE  \E m \in P : \A p \in P : <<list[p], list[m]>> \in R
<1> DEFINE many(p) == Cardinality(UpTo(list, list[p], R))
           T == {Len(list) - many(p) : p \in P}
<1>1. \A p : many(p) \in 0..Len(list)
  BY CountsOfPlaces
<1>2. \A p \in P : list[p] \in X /\ p \in DOMAIN list
  OBVIOUS
<1>3. T \in SUBSET Nat /\ T # {}
  <2> HIDE DEF many
  <2>1. Len(list) \in Nat
    OBVIOUS
  <2> QED
    BY <1>1, <2>1
<1>4. PICK t \in T : \A u \in T : t <= u
  <2> HIDE DEF T
  <2> QED
    BY <1>3, LeastNumber
<1>5. PICK m \in P : t = Len(list) - many(m)
  BY <1>4
<1>6. ASSUME NEW p \in P, <<list[p], list[m]>> \notin R PROVE FALSE
  <2>1. <<list[m], list[p]>> \in R /\ <<list[p], list[p]>> \in R
    BY <1>2, <1>6 DEF Orders
  <2>2. UpTo(list, list[m], R) \subseteq UpTo(list, list[p], R)
    <3> SUFFICES ASSUME NEW n \in UpTo(list, list[m], R) PROVE n \in UpTo(list, list[p], R)
      OBVIOUS
    <3>1. n \in DOMAIN list /\ list[n] \in X /\ <<list[n], list[m]>> \in R
      BY DEF UpTo
    <3>2. <<list[n], list[p]>> \in R
      BY <1>2, <2>1, <3>1 DEF Orders
    <3> QED
      BY <3>1, <3>2 DEF UpTo
  <2>3. p \in UpTo(list, list[p], R) /\ p \notin UpTo(list, list[m], R)
    BY <1>2, <1>6, <2>1 DEF UpTo
  <2>4. many(m) < many(p)
    BY <2>2, <2>3, CountsOfPlaces, FewerIn
  <2>5. Len(list) - many(m) <= Len(list) - many(p)
    BY <1>4, <1>5
  <2>6. many(m) \in Nat /\ many(p) \in Nat /\ Len(list) \in Nat
    BY <1>1
  <2> HIDE DEF many
  <2> QED
    BY <2>4, <2>5, <2>6
<1> QED
  BY <1>6

\* Every place of the sorted list is taken by a member, with the right number
\* of others below it.
LEMMA MemberAt ==
    ASSUME NEW X, NEW R, Orders(R, X), NEW list \in Seq(X), NEW place \in 1..Len(list)
    PROVE  \E x \in Range(list) : /\ x \in X
                                  /\ Cardinality(Below(list, x, R)) < place
                                  /\ place <= Cardinality(UpTo(list, x, R))
<1> DEFINE D == DOMAIN list
           low(n) == Cardinality(Below(list, list[n], R))
           high(n) == Cardinality(UpTo(list, list[n], R))
           S == {n \in D : place <= high(n)}
           T == {low(n) : n \in S}
<1>1. \A n \in D : list[n] \in X
  OBVIOUS
<1>2. \A n : low(n) \in 0..Len(list) /\ high(n) \in 0..Len(list)
  BY CountsOfPlaces
<1>3. Len(list) \in Nat /\ D = 1..Len(list)
  OBVIOUS
<1>4. S # {}
  <2>1. D # {}
    BY <1>3
  <2>2. PICK g \in D : \A p \in D : <<list[p], list[g]>> \in R
    BY <2>1, GreatestPlace
  <2>3. UpTo(list, list[g], R) = 1..Len(list)
    BY <1>3, <2>2 DEF UpTo
  <2>4. Cardinality(1..Len(list)) = Len(list)
    <3>1. 1 \in Int /\ Len(list) \in Int
      BY <1>3
    <3>2. Cardinality(1..Len(list)) = IF 1 > Len(list) THEN 0 ELSE Len(list) - 1 + 1
      BY <3>1, FS_Interval
    <3> QED
      BY <1>3, <3>2
  <2>5. high(g) = Len(list)
    BY <2>3, <2>4
  <2> QED
    BY <2>5
<1>5. PICK n \in S : \A m \in S : low(n) <= low(m)
  <2>1. T \in SUBSET Nat /\ T # {}
    <3> HIDE DEF low, S
    <3> QED
      BY <1>2, <1>4
  <2>2. PICK t \in T : \A u \in T : t <= u
    <3> HIDE DEF T
    <3> QED
      BY <2>1, LeastNumber
  <2>3. PICK n \in S : t = low(n)
    BY <2>2
  <2>4. \A m \in S : low(n) <= low(m)
    <3> HIDE DEF low, S
    <3> QED
      BY <2>2, <2>3
  <2> QED
    BY <2>4
<1>6. n \in D /\ list[n] \in X /\ place <= high(n)
  BY <1>1, <1>5
<1>7. low(n) < place
  <2> SUFFICES ASSUME ~(low(n) < place) PROVE FALSE
    OBVIOUS
  <2> DEFINE P == Below(list, list[n], R)
  <2>1. P \in SUBSET DOMAIN list
    BY DEF Below
  <2>2. P # {}
    <3>1. P = {} => low(n) = 0
      BY FS_EmptySet
    <3> QED
      BY <1>2, <3>1
  <2>3. PICK m \in P : \A p \in P : <<list[p], list[m]>> \in R
    <3> HIDE DEF P
    <3> QED
      BY <2>1, <2>2, GreatestPlace
  <2>4. m \in D /\ list[m] \in X /\ <<list[n], list[m]>> \notin R
    BY <1>1, <2>3 DEF Below
  <2>5. P \subseteq UpTo(list, list[m], R)
    BY <2>1, <2>3 DEF UpTo
  <2>6. low(n) <= high(m)
    BY <2>5, CountsOfPlaces, FS_Subset
  <2>7. m \in S
    <3>1. place <= high(m)
      <4>1. low(n) \in Nat /\ high(m) \in Nat
        BY <1>2
      <4> HIDE DEF low, high
      <4> QED
        BY <2>6, <4>1
    <3> QED
      BY <2>4, <3>1
  <2>8. <<list[m], list[n]>> \in R /\ <<list[m], list[m]>> \in R
    BY <1>6, <2>4 DEF Orders
  <2>9. Below(list, list[m], R) \subseteq P
    <3> SUFFICES ASSUME NEW p \in Below(list, list[m], R) PROVE p \in Below(list, list[n], R)
      OBVIOUS
    <3>1. p \in D /\ list[p] \in X /\ <<list[m], list[p]>> \notin R
      BY <1>1 DEF Below
    <3>2. <<list[n], list[p]>> \notin R
      BY <1>6, <2>4, <2>8, <3>1 DEF Orders
    <3> QED
      BY <3>1, <3>2 DEF Below
  <2>10. m \notin Below(list, list[m], R)
    BY <2>8 DEF Below
  <2>11. low(m) < low(n)
    BY <2>3, <2>9, <2>10, CountsOfPlaces, FewerIn
  <2>12. low(n) <= low(m)
    BY <1>5, <2>7
  <2>13. low(n) \in Nat /\ low(m) \in Nat
    BY <1>2
  <2> HIDE DEF low
  <2> QED
    BY <2>11, <2>12, <2>13
<1>8. list[n] \in Range(list) /\ list[n] \in X
  BY <1>6 DEF Range
<1> QED
  BY <1>6, <1>7, <1>8

-----------------------------------------------------------------------------
(* Percentiles.                                                             *)

RatioOrder == {x \in Ratios \X Ratios : AtMostRatio(x[1], x[2])}

LEMMA RatiosInOrder ==
    /\ Orders(RatioOrder, Ratios)
    /\ \A x, y \in Ratios : <<x, y>> \in RatioOrder <=> AtMostRatio(x, y)
<1>1. \A x, y \in Ratios : <<x, y>> \in RatioOrder <=> AtMostRatio(x, y)
  BY DEF RatioOrder
<1> QED
  BY <1>1, RatiosOrdered DEF Orders

LEMMA SortedRatioAt ==
    ASSUME NEW list \in Seq(Ratios), NEW place \in 1..Len(list), NEW x,
           x = RatioAt(list, place)
    PROVE  /\ x \in Range(list) /\ x \in Ratios
           /\ Cardinality(Below(list, x, RatioOrder)) < place
           /\ place <= Cardinality(UpTo(list, x, RatioOrder))
<1> DEFINE B(y) == {n \in DOMAIN list : ~AtMostRatio(y, list[n])}
           U(y) == {n \in DOMAIN list : AtMostRatio(list[n], y)}
<1>1. \A n \in DOMAIN list : list[n] \in Ratios
  OBVIOUS
<1>2. \A y \in Ratios : Below(list, y, RatioOrder) = B(y) /\ UpTo(list, y, RatioOrder) = U(y)
  BY <1>1, RatiosInOrder DEF Below, UpTo
<1>3. x = CHOOSE y \in Range(list) : Cardinality(B(y)) < place /\ place <= Cardinality(U(y))
  BY DEF RatioAt, SortedAt
<1> HIDE DEF B, U
<1>4. PICK y \in Range(list) : /\ y \in Ratios
                               /\ Cardinality(Below(list, y, RatioOrder)) < place
                               /\ place <= Cardinality(UpTo(list, y, RatioOrder))
  BY RatiosInOrder, MemberAt
<1>5. Cardinality(B(y)) < place /\ place <= Cardinality(U(y))
  BY <1>2, <1>4
<1>6. x \in Range(list) /\ Cardinality(B(x)) < place /\ place <= Cardinality(U(x))
  BY <1>3, <1>5
<1>7. x \in Ratios
  BY <1>1, <1>6 DEF Range
<1> QED
  BY <1>2, <1>6, <1>7

LEMMA PlacesInOrder ==
    ASSUME NEW list \in Seq(Ratios), list # <<>>
    PROVE  /\ LowPlace(list) \in 1..Len(list) /\ HighPlace(list) \in 1..Len(list)
           /\ LowPlace(list) <= HighPlace(list)
<1> DEFINE n == Len(list)
           l == (25 * n) \div 1000
           h == (975 * n) \div 1000
<1>1. n \in Nat /\ n >= 1
  OBVIOUS
<1>2. LowPlace(list) = (IF l < 0 THEN n + l + 1 ELSE l + 1)
      /\ HighPlace(list) = (IF h - 1 < 0 THEN n + (h - 1) + 1 ELSE h - 1 + 1)
  BY DEF LowPlace, HighPlace, Place
<1> HIDE DEF n
<1>3. l \in Nat /\ h \in Nat /\ l <= h /\ h < n + 1 /\ l < n
  BY <1>1
<1>4. CASE n = 1
  BY <1>2, <1>4 DEF n
<1>5. CASE n # 1
  <2>1. n >= 2
    BY <1>1, <1>5
  <2>2. l + 1 <= h
    BY <1>1, <2>1
  <2> HIDE DEF l, h
  <2>3. LowPlace(list) = l + 1 /\ HighPlace(list) = h
    BY <1>2, <1>3, <2>2
  <2> QED
    BY <1>1, <1>3, <2>2, <2>3 DEF n
<1> QED
  BY <1>4, <1>5

\* The interval of a list that is not empty.
LEMMA IntervalOf ==
    ASSUME NEW list \in Seq(Ratios), list # <<>>
    PROVE  LET x == BootstrapInterval(list)
           IN  {x[1], x[2]} \subseteq Range(list) /\ AtMostRatio(x[1], x[2])
<1> DEFINE l == LowPlace(list)
           h == HighPlace(list)
           a == RatioAt(list, l)
           b == RatioAt(list, h)
           R == RatioOrder
<1>1. l \in 1..Len(list) /\ h \in 1..Len(list) /\ l <= h
  BY PlacesInOrder
<1>2. BootstrapInterval(list)[1] = a /\ BootstrapInterval(list)[2] = b
  BY DEF BootstrapInterval
<1> HIDE DEF l, h
<1>3. a \in Range(list) /\ a \in Ratios /\ Cardinality(Below(list, a, R)) < l
  BY <1>1, SortedRatioAt
<1>4. b \in Range(list) /\ b \in Ratios /\ h <= Cardinality(UpTo(list, b, R))
  BY <1>1, SortedRatioAt
<1>5. AtMostRatio(a, b)
  <2> HIDE DEF a, b
  <2> SUFFICES ASSUME <<a, b>> \notin R PROVE FALSE
    BY <1>3, <1>4, RatiosInOrder
  <2> HIDE DEF R
  <2>1. UpTo(list, b, R) \subseteq Below(list, a, R)
    <3> SUFFICES ASSUME NEW n \in UpTo(list, b, R) PROVE n \in Below(list, a, R)
      OBVIOUS
    <3>1. n \in DOMAIN list /\ list[n] \in Ratios /\ <<list[n], b>> \in R
      BY DEF UpTo
    <3>2. <<a, list[n]>> \notin R
      BY <1>3, <1>4, <3>1, RatiosInOrder DEF Orders, R
    <3> QED
      BY <3>1, <3>2 DEF Below
  <2>2. Cardinality(UpTo(list, b, R)) <= Cardinality(Below(list, a, R))
    BY <2>1, CountsOfPlaces, FS_Subset
  <2>3. Cardinality(UpTo(list, b, R)) \in Nat /\ Cardinality(Below(list, a, R)) \in Nat
    BY CountsOfPlaces
  <2> QED
    BY <1>1, <1>3, <1>4, <2>2, <2>3
<1> HIDE DEF a, b
<1> QED
  BY <1>2, <1>3, <1>4, <1>5

\* For any number of pairs and resamples: a run of the analysis ends without
\* intervals only for lack of an F1 to take a percentile of, and the ends of an
\* interval are what some resample gave, in order.
THEOREM IntervalsAreSound == EvalSpec => []IntervalSound
<1>1. EvalInv => IntervalSound
  <2> SUFFICES ASSUME EvalInv PROVE IntervalSound
    OBVIOUS
  <2>1. f1s \in [Names -> Seq(Ratios)] /\ gaps \in [Local -> Seq(Ratios)]
    BY DEF EvalInv, Scored
  <2>2. phase = "raised" => (\E d \in Names : f1s[d] = <<>>) \/ (\E d \in Local : gaps[d] = <<>>)
    <3>1. phase = "raised" => <<>> \in Range(f1s) \cup Range(gaps)
      BY DEF EvalInv, Scored
    <3> QED
      BY <2>1, <3>1 DEF Range
  <2>3. ASSUME phase = "done"
        PROVE  /\ \A d \in Names : /\ {intervals[d][1], intervals[d][2]} \subseteq Range(f1s[d])
                                   /\ AtMostRatio(intervals[d][1], intervals[d][2])
               /\ \A d \in Local : /\ {gapIntervals[d][1], gapIntervals[d][2]} \subseteq Range(gaps[d])
                                   /\ AtMostRatio(gapIntervals[d][1], gapIntervals[d][2])
    <3>1. /\ <<>> \notin Range(f1s) \cup Range(gaps)
          /\ intervals = [d \in Names |-> BootstrapInterval(f1s[d])]
          /\ gapIntervals = [d \in Local |-> BootstrapInterval(gaps[d])]
      BY <2>3 DEF EvalInv, Scored
    <3>2. (\A d \in Names : f1s[d] # <<>>) /\ (\A d \in Local : gaps[d] # <<>>)
      BY <2>1, <3>1 DEF Range
    <3>3. ASSUME NEW d \in Names
          PROVE  /\ {intervals[d][1], intervals[d][2]} \subseteq Range(f1s[d])
                 /\ AtMostRatio(intervals[d][1], intervals[d][2])
      <4>1. f1s[d] \in Seq(Ratios) /\ f1s[d] # <<>> /\ intervals[d] = BootstrapInterval(f1s[d])
        BY <2>1, <3>1, <3>2
      <4> QED
        BY <4>1, IntervalOf
    <3>4. ASSUME NEW d \in Local
          PROVE  /\ {gapIntervals[d][1], gapIntervals[d][2]} \subseteq Range(gaps[d])
                 /\ AtMostRatio(gapIntervals[d][1], gapIntervals[d][2])
      <4>1. gaps[d] \in Seq(Ratios) /\ gaps[d] # <<>> /\ gapIntervals[d] = BootstrapInterval(gaps[d])
        BY <2>1, <3>1, <3>2
      <4> QED
        BY <4>1, IntervalOf
    <3> QED
      BY <3>3, <3>4
  <2>4. ASSUME phase = "done"
        PROVE  \A x \in {<<intervals[d], f1s[d]>> : d \in Names}
                            \cup {<<gapIntervals[d], gaps[d]>> : d \in Local} :
                   /\ {x[1][1], x[1][2]} \subseteq Range(x[2])
                   /\ AtMostRatio(x[1][1], x[1][2])
    BY <2>3, <2>4
  <2> QED
    BY <2>2, <2>4 DEF IntervalSound
<1> QED
  BY <1>1, EvaluationIsSound, PTL

-----------------------------------------------------------------------------
(* Counting.                                                                *)

\* Induction over the parts of a finite set, by the least part that is not in G.
LEMMA PartByPart ==
    ASSUME NEW D, IsFiniteSet(D), NEW G, {} \in G,
           \A S \in SUBSET D : S # {} /\ (\A x \in S : S \ {x} \in G) => S \in G
    PROVE  \A S \in SUBSET D : S \in G
<1> DEFINE Bad == {S \in SUBSET D : S \notin G}
           T == {Cardinality(S) : S \in Bad}
<1> SUFFICES ASSUME Bad # {} PROVE FALSE
  OBVIOUS
<1>1. \A S \in SUBSET D : IsFiniteSet(S) /\ Cardinality(S) \in Nat
  BY FS_Subset, FS_CardinalityType
<1>2. T \in SUBSET Nat /\ T # {}
  BY <1>1
<1>3. PICK t \in T : \A u \in T : t <= u
  <2> HIDE DEF T
  <2> QED
    BY <1>2, LeastNumber
<1>4. PICK S \in Bad : t = Cardinality(S)
  BY <1>3
<1>5. S \in SUBSET D /\ S # {} /\ S \notin G
  BY <1>4
<1>6. ASSUME NEW x \in S PROVE S \ {x} \in G
  <2>1. IsFiniteSet(S) /\ Cardinality(S) \in Nat
    BY <1>1, <1>5
  <2>2. Cardinality(S \ {x}) = IF x \in S THEN Cardinality(S) - 1 ELSE Cardinality(S)
    BY <2>1, FS_RemoveElement
  <2>3. S \ {x} \in Bad => Cardinality(S) <= Cardinality(S \ {x})
    BY <1>3, <1>4
  <2>4. S \ {x} \notin Bad
    BY <2>1, <2>2, <2>3
  <2> QED
    BY <1>5, <2>4
<1> QED
  BY <1>5, <1>6

\* Of a set of pairs, those that do not begin with x, and what follows it.
NotFirst(A, x) == {y \in A : y[1] # x}
After(A, x, T) == {m \in T : <<x, m>> \in A}

LEMMA RowByRow ==
    ASSUME NEW S, NEW T, IsFiniteSet(S), IsFiniteSet(T), NEW x \in S, NEW A \in SUBSET (S \X T),
           IsFiniteSet(NotFirst(A, x))
    PROVE  /\ IsFiniteSet(A)
           /\ Cardinality(A) = Cardinality(NotFirst(A, x)) + Cardinality(After(A, x, T))
<1> DEFINE Row == {y \in A : y[1] = x}
           Rest == NotFirst(A, x)
           M == After(A, x, T)
           f == [m \in M |-> <<x, m>>]
<1>1. IsFiniteSet(M)
  BY FS_Subset DEF After
<1>2. f \in Bijection(M, Row)
  <2>1. f \in [M -> Row] /\ \A m, n \in M : f[m] = f[n] => m = n
    BY DEF After
  <2>2. \A y \in Row : \E m \in M : f[m] = y
    <3> SUFFICES ASSUME NEW y \in Row PROVE \E m \in M : f[m] = y
      OBVIOUS
    <3>1. y = <<x, y[2]>> /\ y[2] \in T
      OBVIOUS
    <3>2. y[2] \in M
      BY <3>1 DEF After
    <3> QED
      BY <3>1, <3>2
  <2> HIDE DEF f
  <2> QED
    BY <2>1, <2>2 DEF Bijection, Injection, Surjection, IsInjective
<1>3. IsFiniteSet(Row) /\ Cardinality(Row) = Cardinality(M)
  <2> HIDE DEF M, Row, f
  <2>1. ExistsBijection(M, Row)
    BY <1>2 DEF ExistsBijection
  <2> QED
    BY <1>1, <2>1, FS_Bijection
<1>4. A = Rest \cup Row /\ Rest \cap Row = {}
  BY DEF NotFirst
<1> HIDE DEF Row, M
<1>5. IsFiniteSet(Rest \cup Row) /\ Cardinality(Rest \cup Row) = Cardinality(Rest) + Cardinality(Row)
  <2> HIDE DEF Rest
  <2>1. IsFiniteSet(Rest)
    BY DEF Rest
  <2> QED
    BY <1>3, <1>4, <2>1, CountTwo
<1> QED
  BY <1>3, <1>4, <1>5 DEF M

LEMMA ProductCount ==
    ASSUME NEW S, NEW T, IsFiniteSet(S), IsFiniteSet(T)
    PROVE  IsFiniteSet(S \X T) /\ Cardinality(S \X T) = Cardinality(S) * Cardinality(T)
<1> DEFINE G == {U \in SUBSET S : IsFiniteSet(U \X T) /\ Cardinality(U \X T) = Cardinality(U) * Cardinality(T)}
<1>1. Cardinality(T) \in Nat
  BY FS_CardinalityType
<1>2. {} \in G
  <2>1. {} \X T = {}
    OBVIOUS
  <2>2. IsFiniteSet({}) /\ Cardinality({}) = 0
    BY FS_EmptySet
  <2> QED
    BY <1>1, <2>1, <2>2
<1>3. ASSUME NEW U \in SUBSET S, NEW x \in U, U \ {x} \in G PROVE U \in G
  <2>1. IsFiniteSet(U) /\ Cardinality(U) \in Nat
    BY FS_Subset, FS_CardinalityType
  <2>2. IsFiniteSet(U \ {x}) /\ Cardinality(U \ {x}) = Cardinality(U) - 1
    BY <2>1, FS_RemoveElement
  <2>3. NotFirst(U \X T, x) = (U \ {x}) \X T /\ After(U \X T, x, T) = T
    BY DEF NotFirst, After
  <2>4. IsFiniteSet(NotFirst(U \X T, x)) /\ U \X T \in SUBSET (U \X T)
    BY <1>3, <2>3
  <2>5. /\ IsFiniteSet(U \X T)
        /\ Cardinality(U \X T) = Cardinality(NotFirst(U \X T, x)) + Cardinality(After(U \X T, x, T))
    <3>1. IsFiniteSet(U) /\ IsFiniteSet(T) /\ x \in U
      BY <2>1
    <3> QED
      BY ONLY <2>4, <3>1, RowByRow
  <2>6. Cardinality((U \ {x}) \X T) = (Cardinality(U) - 1) * Cardinality(T)
    BY <1>3, <2>2
  <2>7. Cardinality(U \X T) = (Cardinality(U) - 1) * Cardinality(T) + Cardinality(T)
    BY <2>3, <2>5, <2>6
  <2>8. (Cardinality(U) - 1) * Cardinality(T) + Cardinality(T) = Cardinality(U) * Cardinality(T)
    BY <1>1, <2>1
  <2> QED
    BY <2>5, <2>7, <2>8
<1> HIDE DEF G
<1>4. S \in G
  <2>1. \A U \in SUBSET S : U # {} /\ (\A x \in U : U \ {x} \in G) => U \in G
    BY <1>3
  <2>2. IsFiniteSet(S)
    OBVIOUS
  <2>3. \A U \in SUBSET S : U \in G
    BY ONLY <1>2, <2>1, <2>2, PartByPart
  <2> QED
    BY <2>3
<1> QED
  BY <1>4 DEF G

-----------------------------------------------------------------------------
(* Ranks.                                                                   *)

NumberOrder == {x \in Int \X Int : x[1] <= x[2]}

LEMMA NumbersInOrder == Orders(NumberOrder, Int)
BY DEF Orders, NumberOrder

\* The places of the scores that are lower than s, and of those not higher.
Lower(list, s) == {n \in DOMAIN list : list[n] < s}
NotHigher(list, s) == {n \in DOMAIN list : list[n] <= s}

LEMMA LowerCounts ==
    ASSUME NEW list \in Seq(Int), NEW s \in Int
    PROVE  /\ Lower(list, s) = Below(list, s, NumberOrder)
           /\ NotHigher(list, s) = UpTo(list, s, NumberOrder)
           /\ IsFiniteSet(Lower(list, s)) /\ IsFiniteSet(NotHigher(list, s))
           /\ Cardinality(Lower(list, s)) \in 0..Len(list)
           /\ Cardinality(NotHigher(list, s)) \in 0..Len(list)
<1>1. \A n \in DOMAIN list : list[n] \in Int
  OBVIOUS
<1>2. /\ Lower(list, s) = Below(list, s, NumberOrder)
      /\ NotHigher(list, s) = UpTo(list, s, NumberOrder)
  BY <1>1 DEF Lower, NotHigher, Below, UpTo, NumberOrder
<1> QED
  BY <1>2, CountsOfPlaces

LEMMA SortedScoreAt ==
    ASSUME NEW list \in Seq(Int), NEW place \in 1..Len(list), NEW s, s = ScoreAt(list, place)
    PROVE  /\ s \in Range(list) /\ s \in Int
           /\ Cardinality(Lower(list, s)) < place
           /\ place <= Cardinality(NotHigher(list, s))
<1> DEFINE B(y) == {n \in DOMAIN list : ~(y <= list[n])}
           U(y) == {n \in DOMAIN list : list[n] <= y}
<1>1. \A n \in DOMAIN list : list[n] \in Int
  OBVIOUS
<1>2. \A y \in Int : Lower(list, y) = B(y) /\ NotHigher(list, y) = U(y)
  BY <1>1 DEF Lower, NotHigher
<1>3. s = CHOOSE y \in Range(list) : Cardinality(B(y)) < place /\ place <= Cardinality(U(y))
  BY DEF ScoreAt, SortedAt
<1> HIDE DEF B, U
<1>4. PICK y \in Range(list) : /\ y \in Int
                               /\ Cardinality(Below(list, y, NumberOrder)) < place
                               /\ place <= Cardinality(UpTo(list, y, NumberOrder))
  BY NumbersInOrder, MemberAt
<1>5. Cardinality(B(y)) < place /\ place <= Cardinality(U(y))
  BY <1>2, <1>4, LowerCounts
<1>6. s \in Range(list) /\ Cardinality(B(s)) < place /\ place <= Cardinality(U(s))
  BY <1>3, <1>5
<1>7. s \in Int
  BY <1>1, <1>6 DEF Range
<1> QED
  BY <1>2, <1>6, <1>7

\* Lower scores end before higher ones begin.
LEMMA ScoresApart ==
    ASSUME NEW list \in Seq(Int), NEW s \in Int, NEW u \in Int, u < s
    PROVE  Cardinality(NotHigher(list, u)) <= Cardinality(Lower(list, s))
<1>1. \A n \in DOMAIN list : list[n] \in Int
  OBVIOUS
<1>2. NotHigher(list, u) \in SUBSET Lower(list, s)
  BY <1>1 DEF Lower, NotHigher
<1> QED
  BY <1>2, LowerCounts, FS_Subset

\* The places of a score in the sorted list follow those of the lower ones.
LEMMA GroupPlaces ==
    ASSUME NEW list \in Seq(Int), NEW s \in Range(list)
    PROVE  /\ s \in Int /\ Cardinality(Lower(list, s)) < Cardinality(NotHigher(list, s))
           /\ {k \in DOMAIN list : ScoreAt(list, k) = s}
                  = (Cardinality(Lower(list, s)) + 1)..Cardinality(NotHigher(list, s))
<1> DEFINE l == Cardinality(Lower(list, s))
           h == Cardinality(NotHigher(list, s))
           t(k) == ScoreAt(list, k)
<1>1. PICK n \in DOMAIN list : s = list[n]
  BY DEF Range
<1>2. s \in Int
  BY <1>1
<1>3. l \in 0..Len(list) /\ h \in 0..Len(list) /\ Len(list) \in Nat /\ DOMAIN list = 1..Len(list)
  BY <1>2, LowerCounts
<1>4. l < h
  <2>1. \A m \in DOMAIN list : list[m] \in Int
    OBVIOUS
  <2>2. Lower(list, s) \in SUBSET NotHigher(list, s) /\ n \in NotHigher(list, s) /\ n \notin Lower(list, s)
    BY <1>1, <1>2, <2>1 DEF Lower, NotHigher
  <2>3. IsFiniteSet(NotHigher(list, s))
    BY <1>2, LowerCounts
  <2> QED
    BY ONLY <2>2, <2>3, FewerIn
<1>5. \A k \in 1..Len(list) : /\ t(k) \in Int
                              /\ Cardinality(Lower(list, t(k))) < k
                              /\ k <= Cardinality(NotHigher(list, t(k)))
  BY SortedScoreAt
<1> HIDE DEF t
<1>6. ASSUME NEW k \in 1..Len(list), k \in (l + 1)..h, t(k) # s PROVE FALSE
  <2> DEFINE u == t(k)
  <2>1. u \in Int /\ u # s /\ Cardinality(Lower(list, u)) < k /\ k <= Cardinality(NotHigher(list, u))
    BY <1>5, <1>6
  <2> HIDE DEF u
  <2>2. l < k /\ k <= h
    BY <1>3, <1>6
  <2>3. Cardinality(Lower(list, u)) \in Nat /\ Cardinality(NotHigher(list, u)) \in Nat
    BY <2>1, LowerCounts
  <2>4. CASE u < s
    <3>1. Cardinality(NotHigher(list, u)) <= l
      BY <1>2, <2>1, <2>4, ScoresApart
    <3> QED
      BY <1>3, <2>1, <2>2, <2>3, <3>1
  <2>5. CASE s < u
    <3>1. h <= Cardinality(Lower(list, u))
      BY <1>2, <2>1, <2>5, ScoresApart
    <3> QED
      BY <1>3, <2>1, <2>2, <2>3, <3>1
  <2> QED
    BY <1>2, <2>1, <2>4, <2>5
<1>7. ASSUME NEW k \in 1..Len(list), t(k) = s PROVE k \in (l + 1)..h
  BY <1>3, <1>5, <1>7
<1>8. \A k \in (l + 1)..h : k \in 1..Len(list)
  BY <1>3
<1>9. {k \in DOMAIN list : t(k) = s} = (l + 1)..h
  <2> HIDE DEF l, h
  <2> QED
    BY <1>3, <1>6, <1>7, <1>8
<1> QED
  BY <1>2, <1>4, <1>9 DEF t

LEMMA EndsOf ==
    ASSUME NEW a \in Int, NEW b \in Int, a <= b
    PROVE  Min(a..b) = a /\ Max(a..b) = b
<1>1. Min(a..b) \in a..b /\ \A y \in a..b : Min(a..b) <= y
  <2>1. \E x \in a..b : \A y \in a..b : x <= y
    <3>1. a \in a..b /\ \A y \in a..b : a <= y
      OBVIOUS
    <3> QED
      BY <3>1
  <2> QED
    BY <2>1 DEF Min
<1>2. Max(a..b) \in a..b /\ \A y \in a..b : Max(a..b) >= y
  <2>1. \E x \in a..b : \A y \in a..b : x >= y
    <3>1. b \in a..b /\ \A y \in a..b : b >= y
      OBVIOUS
    <3> QED
      BY <3>1
  <2> QED
    BY <2>1 DEF Max
<1>3. a \in a..b /\ b \in a..b
  OBVIOUS
<1> QED
  BY <1>1, <1>2, <1>3

\* The walk over the sorted scores gives every score the number of scores below
\* it and of those not above it, and one.
LEMMA RankOf ==
    ASSUME NEW list \in Seq(Int), NEW s \in Range(list)
    PROVE  Ranks(list)[s] = Cardinality(Lower(list, s)) + 1 + Cardinality(NotHigher(list, s))
<1> DEFINE all_scores == [k \in DOMAIN list |-> ScoreAt(list, k)]
           Group(u) == {k \in DOMAIN list : all_scores[k] = u}
           l == Cardinality(Lower(list, s))
           h == Cardinality(NotHigher(list, s))
<1>1. Ranks(list)[s] = Min(Group(s)) + Max(Group(s))
  BY DEF Ranks
<1>2. Group(s) = {k \in DOMAIN list : ScoreAt(list, k) = s}
  OBVIOUS
<1>3. s \in Int /\ l < h /\ Group(s) = (l + 1)..h
  BY <1>2, GroupPlaces
<1>4. l \in Nat /\ h \in Nat
  BY <1>3, LowerCounts
<1> HIDE DEF Group, l, h
<1>5. Min(Group(s)) = l + 1 /\ Max(Group(s)) = h
  BY <1>3, <1>4, EndsOf
<1> QED
  BY <1>1, <1>4, <1>5 DEF l, h

\* The places in S and in T whose scores are such that the first is higher, or
\* that they are equal.
Wins(list, S, T) == {x \in S \X T : list[x[2]] < list[x[1]]}
Ties(list, S, T) == {x \in S \X T : list[x[2]] = list[x[1]]}

LEMMA PairsFinite ==
    ASSUME NEW list, NEW S, NEW T, IsFiniteSet(S), IsFiniteSet(T)
    PROVE  /\ IsFiniteSet(Wins(list, S, T)) /\ Cardinality(Wins(list, S, T)) \in Nat
           /\ IsFiniteSet(Ties(list, S, T)) /\ Cardinality(Ties(list, S, T)) \in Nat
<1>1. IsFiniteSet(S \X T)
  BY ProductCount
<1>2. Wins(list, S, T) \in SUBSET (S \X T) /\ Ties(list, S, T) \in SUBSET (S \X T)
  BY DEF Wins, Ties
<1>3. IsFiniteSet(Wins(list, S, T)) /\ IsFiniteSet(Ties(list, S, T))
  BY ONLY <1>1, <1>2, FS_Subset
<1> QED
  BY <1>3, FS_CardinalityType

\* What the ranks of the places in S should add up to.
RankSum(list, S) ==
    2 * Cardinality(Wins(list, S, DOMAIN list)) + Cardinality(Ties(list, S, DOMAIN list)) + Cardinality(S)

LEMMA RankSums ==
    ASSUME NEW list \in Seq(Int)
    PROVE  /\ RankSum(list, {}) = 0
           /\ \A S \in SUBSET DOMAIN list : \A x \in S :
                  RankSum(list, S) = RankSum(list, S \ {x}) + Ranks(list)[list[x]]
<1> DEFINE D == DOMAIN list
<1>1. IsFiniteSet(D) /\ \A n \in D : list[n] \in Int
  <2>1. Len(list) \in Int /\ 1 \in Int /\ D = 1..Len(list)
    OBVIOUS
  <2> QED
    BY <2>1, FS_Interval
<1>2. RankSum(list, {}) = 0
  <2>1. Wins(list, {}, D) = {} /\ Ties(list, {}, D) = {}
    BY DEF Wins, Ties
  <2> HIDE DEF D
  <2>2. Cardinality({}) = 0
    BY FS_EmptySet
  <2>3. Cardinality(Wins(list, {}, D)) = 0 /\ Cardinality(Ties(list, {}, D)) = 0
    BY ONLY <2>1, <2>2, Zenon
  <2>4. RankSum(list, {}) = 2 * 0 + 0 + 0
    BY ONLY <2>2, <2>3, Zenon DEF RankSum, D
  <2> QED
    BY ONLY <2>4
<1>3. ASSUME NEW S \in SUBSET D, NEW x \in S
      PROVE  RankSum(list, S) = RankSum(list, S \ {x}) + Ranks(list)[list[x]]
  <2> DEFINE s == list[x]
             E == {m \in D : list[m] = s}
             W == Wins(list, S, D)
             Q == Ties(list, S, D)
             w == Cardinality(Wins(list, S \ {x}, D))
             q == Cardinality(Ties(list, S \ {x}, D))
             l == Cardinality(Lower(list, s))
             e == Cardinality(E)
  <2>1. IsFiniteSet(S) /\ Cardinality(S) \in Nat /\ IsFiniteSet(S \ {x})
        /\ Cardinality(S \ {x}) = Cardinality(S) - 1
    <3>1. IsFiniteSet(S)
      BY <1>1, FS_Subset
    <3> QED
      BY <3>1, FS_CardinalityType, FS_RemoveElement
  <2>2. s \in Range(list) /\ s \in Int /\ IsFiniteSet(E)
    <3>1. E \in SUBSET D
      OBVIOUS
    <3> HIDE DEF E
    <3> QED
      BY <1>1, <3>1, FS_Subset DEF Range
  <2>3. /\ NotFirst(W, x) = Wins(list, S \ {x}, D) /\ After(W, x, D) = Lower(list, s)
        /\ W \in SUBSET (S \X D)
    BY DEF NotFirst, After, Wins, Lower
  <2>4. /\ NotFirst(Q, x) = Ties(list, S \ {x}, D) /\ After(Q, x, D) = E
        /\ Q \in SUBSET (S \X D)
    BY DEF NotFirst, After, Ties
  <2>5. w \in Nat /\ q \in Nat /\ IsFiniteSet(Wins(list, S \ {x}, D)) /\ IsFiniteSet(Ties(list, S \ {x}, D))
    <3> HIDE DEF D
    <3> QED
      BY <1>1, <2>1, PairsFinite
  <2> HIDE DEF D, W, Q, E, s
  <2>6. Cardinality(W) = w + l
    <3>1. IsFiniteSet(S) /\ IsFiniteSet(D) /\ x \in S /\ W \in SUBSET (S \X D) /\ IsFiniteSet(NotFirst(W, x))
      BY <1>1, <2>1, <2>3, <2>5
    <3>2. Cardinality(W) = Cardinality(NotFirst(W, x)) + Cardinality(After(W, x, D))
      BY ONLY <3>1, RowByRow
    <3> QED
      BY <2>3, <3>2
  <2>7. Cardinality(Q) = q + e
    <3>1. IsFiniteSet(S) /\ IsFiniteSet(D) /\ x \in S /\ Q \in SUBSET (S \X D) /\ IsFiniteSet(NotFirst(Q, x))
      BY <1>1, <2>1, <2>4, <2>5
    <3>2. Cardinality(Q) = Cardinality(NotFirst(Q, x)) + Cardinality(After(Q, x, D))
      BY ONLY <3>1, RowByRow
    <3> QED
      BY <2>4, <3>2
  <2>8. l \in Nat /\ e \in Nat /\ Cardinality(NotHigher(list, s)) = l + e
    <3>1. NotHigher(list, s) = Lower(list, s) \cup E /\ Lower(list, s) \cap E = {}
      BY <1>1, <2>2 DEF NotHigher, Lower, E, D
    <3>2. IsFiniteSet(Lower(list, s))
      BY <2>2, LowerCounts
    <3> QED
      BY ONLY <2>2, <3>1, <3>2, CountTwo
  <2>9. Ranks(list)[s] = l + 1 + (l + e)
    BY <2>2, <2>8, RankOf
  <2>10. RankSum(list, S) = 2 * (w + l) + (q + e) + Cardinality(S)
    BY <2>6, <2>7 DEF RankSum, W, Q, D
  <2>11. RankSum(list, S \ {x}) = 2 * w + q + (Cardinality(S) - 1)
    BY <2>1 DEF RankSum, D
  <2> HIDE DEF w, q, l, e
  <2>12. RankSum(list, S) = RankSum(list, S \ {x}) + Ranks(list)[s]
    BY <2>1, <2>5, <2>8, <2>9, <2>10, <2>11
  <2> QED
    BY <2>12 DEF s
<1> QED
  BY <1>2, <1>3

\* rank_sum_pos, the sum of the ranks of the places in P.
RankFold(list, P) == FoldSet(LAMBDA n, sum : sum + Ranks(list)[list[n]], 0, P)

LEMMA RankTotal ==
    ASSUME NEW list \in Seq(Int), NEW P \in SUBSET DOMAIN list
    PROVE  RankFold(list, P) = RankSum(list, P)
<1> DEFINE r(x) == Ranks(list)[list[x]]
           pick(S) == CHOOSE x \in S : TRUE
           Body(g) == [S \in SUBSET P |-> IF S = {} THEN 0 ELSE g[S \ {pick(S)}] + r(pick(S))]
           iter == CHOOSE g : g = Body(g)
           closed == [S \in SUBSET P |-> RankSum(list, S)]
           G == {S \in SUBSET P : iter[S] = RankSum(list, S)}
<1>1. RankFold(list, P) = iter[P]
  BY DEF RankFold, FoldSet, MapThenFoldSet
<1>2. \A S \in SUBSET P : S # {} => pick(S) \in S
  OBVIOUS
<1> HIDE DEF pick
<1>3. \A S \in SUBSET P : S # {} =>
          S \ {pick(S)} \in SUBSET P /\ RankSum(list, S) = RankSum(list, S \ {pick(S)}) + r(pick(S))
  BY <1>2, RankSums
<1>4. RankSum(list, {}) = 0
  BY RankSums
<1> HIDE DEF r
<1>5. closed = Body(closed)
  BY <1>3, <1>4
<1>6. iter = Body(iter)
  <2> HIDE DEF Body, closed
  <2> QED
    BY <1>5
<1> HIDE DEF iter, closed
<1>7. \A S \in SUBSET P : iter[S] = IF S = {} THEN 0 ELSE iter[S \ {pick(S)}] + r(pick(S))
  BY <1>6
<1> HIDE DEF Body
<1>8. {} \in G
  BY <1>4, <1>7
<1>9. \A S \in SUBSET P : S # {} /\ (\A x \in S : S \ {x} \in G) => S \in G
  BY <1>2, <1>3, <1>7
<1>10. IsFiniteSet(P)
  <2>1. Len(list) \in Int /\ 1 \in Int /\ DOMAIN list = 1..Len(list)
    OBVIOUS
  <2>2. IsFiniteSet(DOMAIN list)
    BY <2>1, FS_Interval
  <2> QED
    BY ONLY <2>2, FS_Subset, P \in SUBSET DOMAIN list
<1>11. P \in G
  <2> HIDE DEF G
  <2>1. \A S \in SUBSET P : S \in G
    BY ONLY <1>8, <1>9, <1>10, PartByPart
  <2> QED
    BY <2>1
<1> QED
  BY <1>1, <1>11

-----------------------------------------------------------------------------
(* AUROC.                                                                   *)

\* Pairs of two different classes and pairs within a class.
LEMMA TwoClasses ==
    ASSUME NEW list, NEW S, NEW T, NEW U, IsFiniteSet(S), IsFiniteSet(T), IsFiniteSet(U), T \cap U = {}
    PROVE  /\ Cardinality(Wins(list, S, T \cup U))
                  = Cardinality(Wins(list, S, T)) + Cardinality(Wins(list, S, U))
           /\ Cardinality(Ties(list, S, T \cup U))
                  = Cardinality(Ties(list, S, T)) + Cardinality(Ties(list, S, U))
<1>1. /\ Wins(list, S, T \cup U) = Wins(list, S, T) \cup Wins(list, S, U)
      /\ Wins(list, S, T) \cap Wins(list, S, U) = {}
  BY DEF Wins
<1>2. /\ Ties(list, S, T \cup U) = Ties(list, S, T) \cup Ties(list, S, U)
      /\ Ties(list, S, T) \cap Ties(list, S, U) = {}
  BY DEF Ties
<1>3. /\ IsFiniteSet(Wins(list, S, T)) /\ IsFiniteSet(Wins(list, S, U))
      /\ IsFiniteSet(Ties(list, S, T)) /\ IsFiniteSet(Ties(list, S, U))
  BY PairsFinite
<1>4. Cardinality(Wins(list, S, T) \cup Wins(list, S, U))
          = Cardinality(Wins(list, S, T)) + Cardinality(Wins(list, S, U))
  BY ONLY <1>1, <1>3, CountTwo
<1>5. Cardinality(Ties(list, S, T) \cup Ties(list, S, U))
          = Cardinality(Ties(list, S, T)) + Cardinality(Ties(list, S, U))
  BY ONLY <1>2, <1>3, CountTwo
<1> QED
  BY ONLY <1>1, <1>2, <1>4, <1>5

\* Within a class every win is also a loss.
LEMMA WithinAClass ==
    ASSUME NEW list, NEW S, IsFiniteSet(S), \A n \in S : list[n] \in Int
    PROVE  2 * Cardinality(Wins(list, S, S)) + Cardinality(Ties(list, S, S))
               = Cardinality(S) * Cardinality(S)
<1> DEFINE W == Wins(list, S, S)
           Q == Ties(list, S, S)
           L == {x \in S \X S : list[x[1]] < list[x[2]]}
           f == [x \in W |-> <<x[2], x[1]>>]
<1>1. IsFiniteSet(W) /\ Cardinality(W) \in Nat /\ IsFiniteSet(Q) /\ Cardinality(Q) \in Nat
  BY PairsFinite
<1>2. f \in Bijection(W, L)
  <2>1. \A x \in S \X S : x = <<x[1], x[2]>> /\ x[1] \in S /\ x[2] \in S
    OBVIOUS
  <2>2. f \in [W -> L] /\ \A x, y \in W : f[x] = f[y] => x = y
    <3>1. \A x \in W : x \in S \X S /\ <<x[2], x[1]>> \in L
      BY <2>1 DEF Wins
    <3>2. ASSUME NEW x \in W, NEW y \in W, f[x] = f[y] PROVE x = y
      <4>1. f[x] = <<x[2], x[1]>> /\ f[y] = <<y[2], y[1]>>
        OBVIOUS
      <4>2. x[1] = y[1] /\ x[2] = y[2]
        BY <3>2, <4>1
      <4> QED
        BY <2>1, <3>1, <4>2
    <3> HIDE DEF W, L
    <3> QED
      BY <3>1, <3>2
  <2>3. ASSUME NEW y \in L PROVE \E x \in W : f[x] = y
    <3>1. y = <<y[1], y[2]>> /\ y[1] \in S /\ y[2] \in S /\ list[y[1]] < list[y[2]]
      BY <2>1
    <3>2. <<y[2], y[1]>> \in W
      BY <3>1 DEF Wins
    <3>3. f[<<y[2], y[1]>>] = <<y[1], y[2]>>
      BY <3>2
    <3> QED
      BY <3>1, <3>2, <3>3
  <2> HIDE DEF f, W, L
  <2> QED
    BY <2>2, <2>3 DEF Bijection, Injection, Surjection, IsInjective
<1>3. IsFiniteSet(L) /\ Cardinality(L) = Cardinality(W)
  <2> HIDE DEF W, L, f
  <2>1. ExistsBijection(W, L)
    BY <1>2 DEF ExistsBijection
  <2> QED
    BY <1>1, <2>1, FS_Bijection
<1>4. S \X S = (W \cup L) \cup Q /\ W \cap L = {} /\ (W \cup L) \cap Q = {}
  <2>1. \A x \in S \X S : list[x[1]] \in Int /\ list[x[2]] \in Int
    OBVIOUS
  <2> QED
    BY <2>1 DEF Wins, Ties
<1> HIDE DEF W, Q, L
<1>5. IsFiniteSet(W \cup L) /\ Cardinality(W \cup L) = Cardinality(W) + Cardinality(L)
  BY <1>1, <1>3, <1>4, CountTwo
<1>6. Cardinality((W \cup L) \cup Q) = Cardinality(W \cup L) + Cardinality(Q)
  BY ONLY <1>1, <1>4, <1>5, CountTwo
<1>7. Cardinality(S \X S) = Cardinality(S) * Cardinality(S)
  BY ProductCount
<1>8. Cardinality(S) * Cardinality(S) = (Cardinality(W) + Cardinality(W)) + Cardinality(Q)
  BY ONLY <1>3, <1>4, <1>5, <1>6, <1>7, Zenon
<1>9. 2 * Cardinality(W) + Cardinality(Q) = Cardinality(S) * Cardinality(S)
  BY ONLY <1>1, <1>8
<1> QED
  BY ONLY <1>9 DEF W, Q

\* The AUROC of _auroc, from the wins and ties of conflicts against the others.
LEMMA AurocOf ==
    ASSUME NEW list \in Seq(Int), NEW labels, DOMAIN labels = DOMAIN list,
           NEW P, P = {n \in DOMAIN labels : labels[n]}, NEW N, N = DOMAIN labels \ P
    PROVE  Auroc(labels, list)
               = Ratio(2 * Cardinality(Wins(list, P, N)) + Cardinality(Ties(list, P, N)),
                       2 * Cardinality(P) * Cardinality(N))
<1> DEFINE D == DOMAIN list
           p == Cardinality(P)
           total == RankFold(list, P)
           w == Cardinality(Wins(list, P, N))
           q == Cardinality(Ties(list, P, N))
           w1 == Cardinality(Wins(list, P, P))
           q1 == Cardinality(Ties(list, P, P))
<1>1. Auroc(labels, list) = Ratio(total - p * (p + 1), 2 * p * Cardinality(N))
  BY DEF Auroc, RankFold
<1>2. P \in SUBSET D /\ N \in SUBSET D /\ D = P \cup N /\ P \cap N = {}
  OBVIOUS
<1>3. IsFiniteSet(D) /\ \A n \in D : list[n] \in Int
  <2>1. Len(list) \in Int /\ 1 \in Int /\ D = 1..Len(list)
    OBVIOUS
  <2> QED
    BY <2>1, FS_Interval
<1> HIDE DEF D
<1>4. IsFiniteSet(P) /\ IsFiniteSet(N) /\ p \in Nat
  <2>1. IsFiniteSet(P) /\ IsFiniteSet(N)
    BY ONLY <1>2, <1>3, FS_Subset
  <2> QED
    BY <2>1, FS_CardinalityType
<1>5. w \in Nat /\ q \in Nat /\ w1 \in Nat /\ q1 \in Nat
  BY <1>4, PairsFinite
<1>6. total = 2 * Cardinality(Wins(list, P, D)) + Cardinality(Ties(list, P, D)) + p
  <2>1. P \in SUBSET DOMAIN list
    BY <1>2 DEF D
  <2>2. total = RankSum(list, P)
    BY <2>1, RankTotal
  <2> QED
    BY <2>2 DEF RankSum, D
<1>7. Cardinality(Wins(list, P, D)) = w1 + w /\ Cardinality(Ties(list, P, D)) = q1 + q
  <2>1. /\ Cardinality(Wins(list, P, P \cup N)) = w1 + w
        /\ Cardinality(Ties(list, P, P \cup N)) = q1 + q
    BY ONLY <1>2, <1>4, TwoClasses
  <2> QED
    BY ONLY <1>2, <2>1, Zenon
<1>8. 2 * w1 + q1 = p * p
  <2>1. \A n \in P : list[n] \in Int
    BY <1>2, <1>3
  <2> QED
    BY ONLY <1>4, <2>1, WithinAClass
<1> HIDE DEF p, total, w, q, w1, q1
<1>9. total - p * (p + 1) = 2 * w + q
  <2>1. p * (p + 1) = p * p + p
    BY <1>4
  <2>2. p * p \in Nat
    BY <1>4, Product
  <2> DEFINE z == p * p
  <2>3. total = 2 * (w1 + w) + (q1 + q) + p
    BY ONLY <1>6, <1>7, Zenon
  <2> HIDE DEF z
  <2>4. z \in Nat /\ 2 * w1 + q1 = z /\ p * (p + 1) = z + p
    BY <1>8, <2>1, <2>2 DEF z
  <2> QED
    BY ONLY <1>4, <1>5, <2>3, <2>4
<1>10. Auroc(labels, list) = Ratio(2 * w + q, 2 * p * Cardinality(N))
  BY ONLY <1>1, <1>9, Zenon
<1> QED
  BY ONLY <1>10 DEF w, q, p

\* For any number of pairs and any scores: the AUROC taken from ranks is the
\* share of the pairs of a conflict and another pair in which the conflict has
\* the higher score.
THEOREM AurocFromPairs == EvalSpec => []AurocCountsPairs
<1>1. EvalInv => AurocCountsPairs
  <2> SUFFICES ASSUME EvalInv, phase # "judging", NEW d \in Names
               PROVE  LET Label(n) == all_pairs[n].is_conflict
                          S(n) == judgments[d][n].score
                          opposed == {x \in (DOMAIN all_pairs) \X (DOMAIN all_pairs) :
                                          Label(x[1]) /\ ~Label(x[2])}
                          wins == Cardinality({x \in opposed : S(x[1]) > S(x[2])})
                          ties == Cardinality({x \in opposed : S(x[1]) = S(x[2])})
                      IN SameRatio(scores[d].auroc, Ratio(2 * wins + ties, 2 * Cardinality(opposed)))
    BY DEF AurocCountsPairs
  <2> DEFINE D == DOMAIN all_pairs
             J == judgments[d]
             labels == [n \in D |-> all_pairs[n].is_conflict]
             list == [n \in D |-> J[n].score]
             P == {n \in DOMAIN labels : labels[n]}
             N == DOMAIN labels \ P
             opposed == {x \in D \X D : all_pairs[x[1]].is_conflict /\ ~all_pairs[x[2]].is_conflict}
             wins == {x \in opposed : J[x[1]].score > J[x[2]].score}
             ties == {x \in opposed : J[x[1]].score = J[x[2]].score}
  <2>1. /\ all_pairs \in Seq(ConflictPairs) /\ J \in Seq(JudgmentSet) /\ Len(J) = Len(all_pairs)
    BY AllJudged, LastWalked DEF EvalInv
  <2>2. D = 1..Len(all_pairs) /\ DOMAIN J = D /\ Len(all_pairs) \in Nat
    BY <2>1
  <2>3. \A n \in D : J[n].score \in Int
    <3>1. \A n \in D : J[n] \in JudgmentSet
      BY <2>1, <2>2
    <3> QED
      BY <3>1 DEF JudgmentSet
  <2>4. list \in Seq(Int) /\ DOMAIN list = D /\ DOMAIN labels = D
    BY <2>2, <2>3
  <2>5. scores[d].auroc = Auroc(labels, list)
    <3>1. scores[d] = FullMetrics(all_pairs, J)
      BY DEF EvalInv, Scored
    <3> QED
      BY <3>1 DEF FullMetrics
  <2>6. /\ P \in SUBSET D /\ N \in SUBSET D
        /\ opposed = P \X N
        /\ wins = Wins(list, P, N)
        /\ ties = Ties(list, P, N)
    <3>1. P = {n \in D : all_pairs[n].is_conflict} /\ N = {n \in D : ~all_pairs[n].is_conflict}
      OBVIOUS
    <3> HIDE DEF P, N, J
    <3>2. opposed = P \X N
      BY <3>1
    <3>3. \A x \in P \X N : list[x[1]] = J[x[1]].score /\ list[x[2]] = J[x[2]].score
                                /\ J[x[1]].score \in Int /\ J[x[2]].score \in Int
      BY <2>3, <3>1
    <3> HIDE DEF list, opposed
    <3>4. wins = Wins(list, P, N) /\ ties = Ties(list, P, N)
      BY <3>2, <3>3 DEF Wins, Ties
    <3> QED
      BY <3>1, <3>2, <3>4
  <2> HIDE DEF D, J, labels, list, wins, ties, opposed
  <2>7. Auroc(labels, list) = Ratio(2 * Cardinality(Wins(list, P, N)) + Cardinality(Ties(list, P, N)),
                                    2 * Cardinality(P) * Cardinality(N))
    <3>1. DOMAIN labels = DOMAIN list
      BY <2>4
    <3> HIDE DEF P, N
    <3>2. P = {n \in DOMAIN labels : labels[n]} /\ N = DOMAIN labels \ P
      BY DEF P, N
    <3> QED
      BY ONLY <2>4, <3>1, <3>2, AurocOf
  <2>8. Cardinality(opposed) = Cardinality(P) * Cardinality(N)
        /\ Cardinality(P) \in Nat /\ Cardinality(N) \in Nat
    <3>1. IsFiniteSet(D)
      <4>1. 1 \in Int /\ Len(all_pairs) \in Int
        BY <2>2
      <4> QED
        BY <2>2, <4>1, FS_Interval
    <3> HIDE DEF P, N
    <3>2. IsFiniteSet(P) /\ IsFiniteSet(N)
      BY ONLY <2>6, <3>1, FS_Subset
    <3>3. Cardinality(P \X N) = Cardinality(P) * Cardinality(N)
      BY ONLY <3>2, ProductCount
    <3> QED
      BY <2>6, <3>2, <3>3, FS_CardinalityType
  <2> HIDE DEF P, N
  <2>9. 2 * Cardinality(P) * Cardinality(N) = 2 * Cardinality(opposed)
    BY ONLY <2>8
  <2>10. scores[d].auroc = Ratio(2 * Cardinality(wins) + Cardinality(ties), 2 * Cardinality(opposed))
    BY ONLY <2>5, <2>6, <2>7, <2>9, Zenon
  <2>11. SameRatio(scores[d].auroc, Ratio(2 * Cardinality(wins) + Cardinality(ties), 2 * Cardinality(opposed)))
    BY ONLY <2>10, SameAsItself, Zenon
  <2> QED
    BY ONLY <2>11, Zenon DEF wins, ties, opposed, D, J
<1> QED
  BY <1>1, EvaluationIsSound, PTL
=============================================================================
