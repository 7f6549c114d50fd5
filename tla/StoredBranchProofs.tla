------------------------ MODULE StoredBranchProofs ------------------------
(* The store and its reader, for branches of any length, any number of      *)
(* saves and any crashes: the loop of current_facts_by_key returns what     *)
(* max() over the matches would, no stored fact is lost, and a branch       *)
(* loaded from the tables is in the order and has the current facts it had. *)
EXTENDS StoredBranch, MemoryLemmas, FiniteSetTheorems

-----------------------------------------------------------------------------
(* ORDER BY timestamp.  A row's rank is the number of rows that come before *)
(* it; ranks are distinct and there are as many as rows, so each number     *)
(* below the number of rows is the rank of one.                             *)

Rank(table, P, n) == Cardinality({m \in P : Sooner(table, m, n)})
Place(table, P, n) == CHOOSE p \in P : Rank(table, P, p) = n - 1

Timed(table, P) == IsFiniteSet(P) /\ P \subseteq Nat /\ \A n \in P : table[n].ts \in Nat

\* Of two rows one comes first.
LEMMA SoonerIsOrder ==
    ASSUME NEW table, NEW P, Timed(table, P), NEW m \in P, NEW n \in P
    PROVE  /\ m # n => Sooner(table, m, n) \/ Sooner(table, n, m)
           /\ ~(Sooner(table, m, n) /\ Sooner(table, n, m))
           /\ ~Sooner(table, n, n)
           /\ \A p \in P : Sooner(table, p, m) /\ Sooner(table, m, n) => Sooner(table, p, n)
BY DEF Timed, Sooner

\* A row that comes later has a higher rank.
LEMMA RankGrows ==
    ASSUME NEW table, NEW P, Timed(table, P), NEW n \in P
    PROVE  /\ Rank(table, P, n) \in 0..(Cardinality(P) - 1)
           /\ Cardinality(P) \in Nat
           /\ \A m \in P : Sooner(table, m, n) => Rank(table, P, m) < Rank(table, P, n)
<1> DEFINE Before(p) == {q \in P : Sooner(table, q, p)}
<1>1. IsFiniteSet(P) /\ Cardinality(P) \in Nat
  BY FS_CardinalityType DEF Timed
<1>2. \A p \in P : IsFiniteSet(Before(p)) /\ Cardinality(Before(p)) \in Nat
  <2> SUFFICES ASSUME NEW p \in P
               PROVE  IsFiniteSet(Before(p)) /\ Cardinality(Before(p)) \in Nat
    OBVIOUS
  <2>1. Before(p) \in SUBSET P
    OBVIOUS
  <2> HIDE DEF Before
  <2>2. IsFiniteSet(Before(p))
    BY <1>1, <2>1, FS_Subset
  <2> QED
    BY <2>2, FS_CardinalityType
<1>3. ASSUME NEW S \in SUBSET P, NEW T \in SUBSET S, NEW x \in S, x \notin T
      PROVE  Cardinality(T) < Cardinality(S)
  <2>1. IsFiniteSet(S) /\ IsFiniteSet(T)
    BY <1>1, FS_Subset
  <2>2. Cardinality(T) <= Cardinality(S) /\ Cardinality(S) # Cardinality(T)
    BY <1>3, <2>1, FS_Subset
  <2>3. Cardinality(S) \in Nat /\ Cardinality(T) \in Nat
    BY <2>1, FS_CardinalityType
  <2> QED
    BY <2>2, <2>3
<1>4. Cardinality(Before(n)) < Cardinality(P)
  <2>1. Before(n) \in SUBSET P /\ n \notin Before(n)
    BY SoonerIsOrder
  <2> HIDE DEF Before
  <2> QED
    BY <1>3, <2>1
<1>5. ASSUME NEW m \in P, Sooner(table, m, n)
      PROVE  Cardinality(Before(m)) < Cardinality(Before(n))
  <2>1. m \in Before(n) /\ m \notin Before(m) /\ Before(n) \in SUBSET P
    BY <1>5, SoonerIsOrder
  <2>2. Before(m) \in SUBSET Before(n)
    BY <1>5, SoonerIsOrder
  <2> HIDE DEF Before
  <2> QED
    BY <1>3, <2>1, <2>2
<1>6. \A p : Rank(table, P, p) = Cardinality(Before(p))
  BY DEF Rank
<1> HIDE DEF Before
<1> QED
  BY <1>1, <1>2, <1>4, <1>5, <1>6

\* Every place of the result is taken by one row, and the rows are in order.
LEMMA PlacesRanked ==
    ASSUME NEW table, NEW P, Timed(table, P)
    PROVE  /\ Cardinality(P) \in Nat
           /\ \A n \in 1..Cardinality(P) :
                  Place(table, P, n) \in P /\ Rank(table, P, Place(table, P, n)) = n - 1
           /\ \A p \in P : /\ Rank(table, P, p) + 1 \in 1..Cardinality(P)
                           /\ Place(table, P, Rank(table, P, p) + 1) = p
           /\ \A m, n \in 1..Cardinality(P) :
                  m < n <=> Sooner(table, Place(table, P, m), Place(table, P, n))
<1> DEFINE N == Cardinality(P)
           r == [p \in P |-> Rank(table, P, p)]
           T == 0..(N - 1)
<1>1. IsFiniteSet(P) /\ N \in Nat
  BY FS_CardinalityType DEF Timed
<1>2. r \in [P -> T]
  BY RankGrows
<1>3. \A p, q \in P : p # q => Rank(table, P, p) # Rank(table, P, q)
  <2> SUFFICES ASSUME NEW p \in P, NEW q \in P, p # q
               PROVE  Rank(table, P, p) # Rank(table, P, q)
    OBVIOUS
  <2>1. Rank(table, P, p) < Rank(table, P, q) \/ Rank(table, P, q) < Rank(table, P, p)
    BY SoonerIsOrder, RankGrows
  <2>2. Rank(table, P, p) \in T /\ Rank(table, P, q) \in T
    BY RankGrows
  <2> QED
    BY <1>1, <2>1, <2>2
<1>4. r \in Injection(P, T)
  BY <1>2, <1>3 DEF Injection, IsInjective
<1>5. IsFiniteSet(T) /\ Cardinality(T) = N
  BY <1>1, FS_Interval
<1>6. r \in Surjection(P, T)
  BY <1>4, <1>5, FS_Injection
<1>7. \A t \in T : \E p \in P : Rank(table, P, p) = t
  BY <1>6 DEF Surjection
<1>8. ASSUME NEW n \in 1..N
      PROVE  Place(table, P, n) \in P /\ Rank(table, P, Place(table, P, n)) = n - 1
  <2>1. n - 1 \in T
    BY <1>1
  <2> QED
    BY <1>7, <2>1 DEF Place
<1>9. ASSUME NEW p \in P
      PROVE  Rank(table, P, p) + 1 \in 1..N /\ Place(table, P, Rank(table, P, p) + 1) = p
  <2> DEFINE n == Rank(table, P, p) + 1
  <2>1. n \in 1..N /\ n - 1 = Rank(table, P, p)
    BY <1>1, RankGrows
  <2> HIDE DEF n
  <2>2. Place(table, P, n) \in P /\ Rank(table, P, Place(table, P, n)) = Rank(table, P, p)
    BY <1>8, <2>1
  <2>3. Place(table, P, n) = p
    BY <1>3, <2>2
  <2> QED
    BY <2>1, <2>3 DEF n
<1>10. ASSUME NEW m \in 1..N, NEW n \in 1..N
       PROVE  m < n <=> Sooner(table, Place(table, P, m), Place(table, P, n))
  <2> DEFINE p == Place(table, P, m)
             q == Place(table, P, n)
  <2>1. p \in P /\ q \in P /\ Rank(table, P, p) = m - 1 /\ Rank(table, P, q) = n - 1
    BY <1>8
  <2> HIDE DEF p, q
  <2>2. Sooner(table, p, q) => m - 1 < n - 1
    BY <2>1, RankGrows
  <2>3. Sooner(table, q, p) => n - 1 < m - 1
    BY <2>1, RankGrows
  <2>4. p # q => Sooner(table, p, q) \/ Sooner(table, q, p)
    BY <2>1, SoonerIsOrder
  <2>5. m \in Nat /\ n \in Nat
    BY <1>1
  <2>6. m < n <=> Sooner(table, p, q)
    BY <2>1, <2>2, <2>3, <2>4, <2>5
  <2> QED
    BY <2>6 DEF p, q
<1> QED
  BY <1>1, <1>8, <1>9, <1>10

\* The result is a list of the rows asked for.
LEMMA OrderedList ==
    ASSUME NEW table, NEW P, Timed(table, P), \A n \in P : table[n] \in Fact
    PROVE  LET list == OrderByTimestamp(table, P) IN
           /\ list \in Seq(Fact)
           /\ DOMAIN list = 1..Cardinality(P)
           /\ \A n \in DOMAIN list : list[n] = table[Place(table, P, n)]
           /\ Range(list) = {table[n] : n \in P}
           /\ KeysOf(list) = {table[n].key : n \in P}
<1> DEFINE N == Cardinality(P)
           list == OrderByTimestamp(table, P)
           at(n) == Place(table, P, n)
<1>1. N \in Nat /\ \A n \in 1..N : at(n) \in P
  BY PlacesRanked
<1>2. \A p \in P : \E n \in 1..N : at(n) = p
  BY PlacesRanked
<1>3. list = [n \in 1..N |-> table[at(n)]]
  BY DEF OrderByTimestamp, Place, Rank
<1> HIDE DEF N, at, list
<1>4. list \in Seq(Fact) /\ DOMAIN list = 1..N /\ \A n \in DOMAIN list : list[n] = table[at(n)]
  BY <1>1, <1>3
<1>5. Range(list) = {table[n] : n \in P}
  BY <1>1, <1>2, <1>4 DEF Range
<1>6. KeysOf(list) = {table[n].key : n \in P}
  BY <1>1, <1>2, <1>4 DEF KeysOf
<1> QED
  BY <1>4, <1>5, <1>6 DEF list, N, at

\* The current fact of a key in the result is the latest row of the key, and
\* the first one of those that tie.
LEMMA OrderedLatest ==
    ASSUME NEW table, NEW P, Timed(table, P), \A n \in P : table[n] \in Fact,
           NEW k \in {table[n].key : n \in P}
    PROVE  \E p \in P : /\ IsLatest(table, k, P, p)
                        /\ CurrentFact(OrderByTimestamp(table, P), k) = table[p]
<1> DEFINE list == OrderByTimestamp(table, P)
           at(n) == Place(table, P, n)
<1>1. /\ list \in Seq(Fact) /\ k \in KeysOf(list) /\ DOMAIN list = 1..Cardinality(P)
      /\ \A n \in DOMAIN list : list[n] = table[at(n)]
  BY OrderedList
<1>2. /\ \A n \in DOMAIN list : at(n) \in P
      /\ \A p \in P : \E n \in DOMAIN list : at(n) = p
      /\ \A m, n \in DOMAIN list : m < n <=> Sooner(table, at(m), at(n))
      /\ DOMAIN list \subseteq Nat
  BY <1>1, PlacesRanked
<1> HIDE DEF list, at
<1>3. PICK n \in DOMAIN list : IsLatest(list, k, DOMAIN list, n)
  BY <1>1, LatestExists
<1>4. CurrentFact(list, k) = table[at(n)]
  BY <1>1, <1>3, CurrentIsLatest
<1>5. IsLatest(table, k, P, at(n))
  <2>1. at(n) \in P /\ table[at(n)].key = k
    BY <1>1, <1>2, <1>3 DEF IsLatest
  <2>2. ASSUME NEW q \in P, table[q].key = k
        PROVE  \/ table[q].ts < table[at(n)].ts
               \/ table[q].ts = table[at(n)].ts /\ at(n) <= q
    <3>1. PICK m \in DOMAIN list : at(m) = q
      BY <1>2
    <3>2. \/ list[m].ts < list[n].ts
          \/ list[m].ts = list[n].ts /\ n <= m
      BY <1>1, <1>3, <2>2, <3>1 DEF IsLatest
    <3>3. n <= m => ~Sooner(table, q, at(n))
      BY <1>2, <3>1
    <3>4. q \in Nat /\ at(n) \in Nat
      BY <2>1 DEF Timed
    <3> QED
      BY <1>1, <3>1, <3>2, <3>3, <3>4 DEF Sooner
  <2> QED
    BY <2>1, <2>2 DEF IsLatest
<1> QED
  BY <1>4, <1>5, <1>2 DEF list

\* Two tables of the same rows, in places of the same order, give one result.
LEMMA SameOrder ==
    ASSUME NEW tableA, NEW P, Timed(tableA, P),
           NEW tableB, NEW Q, Timed(tableB, Q),
           NEW b \in Bijection(P, Q),
           \A p \in P : tableB[b[p]] = tableA[p],
           \A p, q \in P : Sooner(tableA, p, q) <=> Sooner(tableB, b[p], b[q])
    PROVE  OrderByTimestamp(tableA, P) = OrderByTimestamp(tableB, Q)
<1> DEFINE N == Cardinality(P)
<1>1. /\ b \in [P -> Q]
      /\ \A p, q \in P : b[p] = b[q] => p = q
      /\ \A q \in Q : \E p \in P : b[p] = q
  BY DEF Bijection, Injection, Surjection, IsInjective
<1>2. Cardinality(Q) = N
  <2>1. ExistsBijection(P, Q)
    BY DEF ExistsBijection
  <2> QED
    BY <2>1, FS_Bijection DEF Timed
<1>3. ASSUME NEW p \in P
      PROVE  Rank(tableB, Q, b[p]) = Rank(tableA, P, p)
  <2> DEFINE S == {q \in P : Sooner(tableA, q, p)}
             T == {q \in Q : Sooner(tableB, q, b[p])}
             c == [q \in S |-> b[q]]
  <2>1. IsFiniteSet(S)
    <3>1. S \in SUBSET P
      OBVIOUS
    <3> HIDE DEF S
    <3> QED
      BY <3>1, FS_Subset DEF Timed
  <2>2. \A q \in S : b[q] \in T
    BY <1>1, <1>3
  <2>3. \A t \in T : \E q \in S : b[q] = t
    BY <1>1, <1>3
  <2>4. S \subseteq P
    OBVIOUS
  <2> HIDE DEF S, T
  <2>5. c \in Bijection(S, T)
    BY <1>1, <2>2, <2>3, <2>4 DEF Bijection, Injection, Surjection, IsInjective
  <2>6. ExistsBijection(S, T)
    BY <2>5 DEF ExistsBijection
  <2>7. Cardinality(T) = Cardinality(S)
    BY <2>1, <2>6, FS_Bijection
  <2> QED
    BY <2>7 DEF Rank, S, T
<1>4. ASSUME NEW n \in 1..N
      PROVE  tableA[Place(tableA, P, n)] = tableB[Place(tableB, Q, n)]
  <2> DEFINE p == Place(tableA, P, n)
  <2>1. p \in P /\ Rank(tableA, P, p) = n - 1 /\ n \in Nat
    BY PlacesRanked
  <2> HIDE DEF p
  <2>2. b[p] \in Q /\ Rank(tableB, Q, b[p]) = n - 1
    BY <1>1, <1>3, <2>1
  <2>3. Place(tableB, Q, n) = b[p]
    <3>1. Place(tableB, Q, Rank(tableB, Q, b[p]) + 1) = b[p]
      BY <2>2, PlacesRanked
    <3>2. Rank(tableB, Q, b[p]) + 1 = n
      BY <2>1, <2>2
    <3> QED
      BY <3>1, <3>2
  <2> QED
    BY <2>1, <2>3 DEF p
<1>5. OrderByTimestamp(tableA, P) = [n \in 1..N |-> tableA[Place(tableA, P, n)]]
  BY DEF OrderByTimestamp, Place, Rank
<1>6. OrderByTimestamp(tableB, Q) = [n \in 1..Cardinality(Q) |-> tableB[Place(tableB, Q, n)]]
  BY DEF OrderByTimestamp, Place, Rank
<1> QED
  BY <1>2, <1>4, <1>5, <1>6

-----------------------------------------------------------------------------
(* What holds of the tables and of the branches in memory.                  *)

\* Row f is somewhere before row g.
Precedes(table, f, g) ==
    \E m, n \in DOMAIN table : m < n /\ table[m] = f /\ table[n] = g

OneToOne(list) == \A m, n \in DOMAIN list : list[m] = list[n] => m = n

\* The facts there are, in the tables rs and in the branches h in memory.
Known(rs, h) == Range(rs) \cup UNION {Range(h[s]) : s \in {x \in Sides : h[x] # None}}

StoreTypeOK ==
    /\ branchRows \subseteq Sides
    /\ rows \in Seq(Fact)
    /\ held \in [Sides -> Seq(Fact) \cup {None}]
    /\ saving \in [side : Sides \cup {None}, left : Seq(Fact)]
    /\ disturbed \subseteq Sides
    /\ made \in Nat

\* An id is made once: it tells the fact, wherever the fact is.
Identified(rs, h, n) ==
    /\ \A f \in Known(rs, h) : f.id[2] <= n
    /\ \A f, g \in Known(rs, h) : f.id = g.id => f = g

\* No fact is twice in the table or in a branch; a branch holds its own facts.
EachOnce ==
    /\ OneToOne(rows)
    /\ \A s \in Sides : held[s] # None =>
           OneToOne(held[s]) /\ \A n \in DOMAIN held[s] : held[s][n].branch = s

\* The first c facts of the list are stored, in its order.
Written(rs, list, c) ==
    \A n \in 1..c : list[n] \in Range(rs) /\ \A m \in 1..(n - 1) : Precedes(rs, list[m], list[n])

\* What a create_branch that is under way has done.
HalfSaved(rs, list, left) ==
    /\ Len(left) <= Len(list)
    /\ left = SubSeq(list, Len(list) - Len(left) + 1, Len(list))
    /\ Written(rs, list, Len(list) - Len(left))

\* Rows of one timestamp are in the order of the list.
InOrder(rs, list) ==
    \A m, n \in DOMAIN list :
        (m < n /\ list[m].ts = list[n].ts /\ list[m] \in Range(rs) /\ list[n] \in Range(rs)) =>
            Precedes(rs, list[m], list[n])

SaveOK ==
    IF saving.side \in Sides
    THEN held[saving.side] # None /\ HalfSaved(rows, held[saving.side], saving.left)
    ELSE Idle

\* A branch without inserts of its own outside a create_branch that ended is
\* stored in its order.
StoredInOrder ==
    \A s \in Sides \ disturbed :
        held[s] # None /\ saving.side # s => InOrder(rows, held[s])

StoreInv ==
    /\ StoreTypeOK
    /\ Identified(rows, held, made)
    /\ EachOnce
    /\ SaveOK
    /\ StoredInOrder

-----------------------------------------------------------------------------
(* INSERT OR REPLACE.                                                       *)

\* The rows that are not replaced move up, in their order, and the row that is
\* written comes last.
LEMMA InsertShape ==
    ASSUME NEW table \in Seq(Fact), OneToOne(table), NEW f \in Fact,
           \A n \in DOMAIN table : table[n].id = f.id => table[n] = f
    PROVE  LET result == InsertOrReplace(table, f)
               others == {n \in DOMAIN table : table[n] # f}
           IN  /\ result \in Seq(Fact) /\ Len(result) # 0
               /\ result[Len(result)] = f
               /\ \E e \in [others -> 1..(Len(result) - 1)] :
                      /\ \A n \in others : result[e[n]] = table[n]
                      /\ \A m, n \in others : m < n => e[m] < e[n]
                      /\ \A m \in 1..(Len(result) - 1) : \E n \in others : e[n] = m
<1> DEFINE result == InsertOrReplace(table, f)
           others == {n \in DOMAIN table : table[n] # f}
           old == {n \in DOMAIN table : table[n].id = f.id}
           L == Len(table)
<1>1. L \in Nat /\ DOMAIN table = 1..L /\ \A n \in 1..L : table[n] \in Fact
  OBVIOUS
<1>2. CASE old = {}
  <2>1. result = Append(table, f)
    BY <1>2 DEF InsertOrReplace
  <2>2. others = 1..L
    BY <1>1, <1>2
  <2>3. Len(result) = L + 1 /\ result \in Seq(Fact) /\ result[L + 1] = f
    BY <2>1
  <2>4. \A n \in 1..L : result[n] = table[n]
    BY <2>1
  <2> DEFINE e == [n \in others |-> n]
  <2> HIDE DEF result, others, old, L
  <2>5. /\ e \in [others -> 1..(Len(result) - 1)]
        /\ \A n \in others : result[e[n]] = table[n]
        /\ \A m, n \in others : m < n => e[m] < e[n]
        /\ \A m \in 1..(Len(result) - 1) : \E n \in others : e[n] = m
    BY <1>1, <2>2, <2>3, <2>4
  <2>6. Len(result) # 0 /\ result[Len(result)] = f
    BY <1>1, <2>3
  <2> HIDE DEF e
  <2> QED
    BY <2>3, <2>5, <2>6 DEF result, others
<1>3. CASE old # {}
  <2> DEFINE p == CHOOSE n \in old : TRUE
             rest == RemoveAt(table, p)
             e == [n \in others |-> IF n < p THEN n ELSE n - 1]
  <2>1. p \in old
    BY <1>3
  <2>2. result = Append(rest, f)
    BY <1>3 DEF InsertOrReplace
  <2>3. p \in 1..L /\ table[p] = f
    BY <1>1, <2>1
  <2>4. others = (1..L) \ {p}
    BY <1>1, <2>3 DEF OneToOne
  <2> HIDE DEF p, others, old, result
  <2>5. /\ rest \in Seq(Fact) /\ Len(rest) = L - 1
        /\ \A n \in 1..(L - 1) : rest[n] = IF n < p THEN table[n] ELSE table[n + 1]
    <3> DEFINE front == SubSeq(table, 1, p - 1)
               back == SubSeq(table, p + 1, L)
    <3>1. /\ front \in Seq(Fact) /\ Len(front) = p - 1
          /\ \A n \in 1..(p - 1) : front[n] = table[n]
      BY <1>1, <2>3
    <3>2. /\ back \in Seq(Fact) /\ Len(back) = L - p
          /\ \A n \in 1..(L - p) : back[n] = table[p + n]
      <4>1. p \in Nat /\ L \in Nat /\ p <= L
        BY <1>1, <2>3
      <4>2. back \in Seq(Fact)
        BY <4>1
      <4>3. Len(back) = L - p
        BY <4>1
      <4>4. ASSUME NEW n \in 1..(L - p) PROVE back[n] = table[p + n]
        <5>1. back[n] = table[p + 1 + n - 1]
          BY <4>1
        <5>2. p + 1 + n - 1 = p + n
          BY <4>1
        <5> QED
          BY <5>1, <5>2
      <4> QED
        BY <4>2, <4>3, <4>4
    <3>3. rest = front \o back
      BY DEF RemoveAt
    <3> HIDE DEF front, back, rest, L
    <3>4. /\ rest \in Seq(Fact) /\ Len(rest) = Len(front) + Len(back)
          /\ \A n \in 1..(Len(front) + Len(back)) :
                 rest[n] = IF n <= Len(front) THEN front[n] ELSE back[n - Len(front)]
      <4>1. front \in Seq(Fact) /\ back \in Seq(Fact) /\ Len(front) \in Nat /\ Len(back) \in Nat
        BY <3>1, <3>2
      <4>2. rest \in Seq(Fact) /\ Len(rest) = Len(front) + Len(back)
        BY <3>3, <4>1
      <4>3. ASSUME NEW n \in 1..(Len(front) + Len(back))
            PROVE  rest[n] = IF n <= Len(front) THEN front[n] ELSE back[n - Len(front)]
        BY <3>3, <4>1
      <4> QED
        BY <4>2, <4>3
    <3>5. p \in Nat /\ L \in Nat
      BY <1>1, <2>3
    <3>6. Len(rest) = L - 1
      BY <3>1, <3>2, <3>4, <3>5
    <3>7. ASSUME NEW n \in 1..(L - 1)
          PROVE  rest[n] = IF n < p THEN table[n] ELSE table[n + 1]
      <4>1. n \in 1..(Len(front) + Len(back))
        BY <3>1, <3>2, <3>5
      <4>2. CASE n < p
        <5>1. n <= Len(front) /\ n \in 1..(p - 1)
          BY <3>1, <3>5, <4>2
        <5> QED
          BY <3>1, <3>4, <4>1, <4>2, <5>1
      <4>3. CASE ~(n < p)
        <5>1. ~(n <= Len(front)) /\ n - Len(front) = n - p + 1 /\ n - p + 1 \in 1..(L - p)
          BY <3>1, <3>5, <4>3
        <5>2. p + (n - p + 1) = n + 1
          BY <3>5
        <5>3. rest[n] = back[n - p + 1]
          BY <3>4, <4>1, <5>1
        <5>4. back[n - p + 1] = table[p + (n - p + 1)]
          BY <3>2, <5>1
        <5> QED
          BY <4>3, <5>2, <5>3, <5>4
      <4> QED
        BY <4>2, <4>3
    <3> QED
      BY <3>4, <3>6, <3>7
  <2> HIDE DEF rest, L
  <2>6. /\ result \in Seq(Fact) /\ Len(result) = L /\ result[L] = f
        /\ \A n \in 1..(L - 1) : result[n] = IF n < p THEN table[n] ELSE table[n + 1]
    BY <1>1, <2>2, <2>3, <2>5
  <2>7. /\ e \in [others -> 1..(L - 1)]
        /\ \A n \in others : result[e[n]] = table[n]
        /\ \A m, n \in others : m < n => e[m] < e[n]
        /\ \A m \in 1..(L - 1) : \E n \in others : e[n] = m
    <3>1. e \in [others -> 1..(L - 1)]
      BY <1>1, <2>3, <2>4
    <3>2. \A m, n \in others : m < n => e[m] < e[n]
      BY <1>1, <2>3, <2>4
    <3>3. \A n \in others : result[e[n]] = table[n]
      BY <1>1, <2>3, <2>4, <2>6
    <3>4. ASSUME NEW m \in 1..(L - 1) PROVE \E n \in others : e[n] = m
      <4> DEFINE n == IF m < p THEN m ELSE m + 1
      <4>1. n \in others /\ e[n] = m
        BY <1>1, <2>3, <2>4
      <4> QED
        BY <4>1
    <3> QED
      BY <3>1, <3>2, <3>3, <3>4
  <2>8. Len(result) # 0
    BY <1>1, <2>3, <2>6
  <2> HIDE DEF e
  <2> QED
    BY <2>6, <2>7, <2>8 DEF result, others
<1> QED
  BY <1>2, <1>3

\* What an insert does to the table, in terms of its rows and their order.
LEMMA Inserted ==
    ASSUME NEW table \in Seq(Fact), OneToOne(table), NEW f \in Fact,
           \A n \in DOMAIN table : table[n].id = f.id => table[n] = f
    PROVE  LET result == InsertOrReplace(table, f)
           IN  /\ result \in Seq(Fact)
               /\ OneToOne(result)
               /\ Range(result) = Range(table) \cup {f}
               /\ \A g, h : g # f /\ h # f /\ Precedes(table, g, h) => Precedes(result, g, h)
               /\ \A g \in Range(table) : g # f => Precedes(result, g, f)
<1> DEFINE result == InsertOrReplace(table, f)
           others == {n \in DOMAIN table : table[n] # f}
           L == Len(result) - 1
<1>1. /\ result \in Seq(Fact) /\ Len(result) # 0 /\ result[Len(result)] = f
      /\ \E e \in [others -> 1..L] :
             /\ \A n \in others : result[e[n]] = table[n]
             /\ \A m, n \in others : m < n => e[m] < e[n]
             /\ \A m \in 1..L : \E n \in others : e[n] = m
  BY InsertShape
<1> HIDE DEF result
<1>2. L \in Nat /\ DOMAIN result = 1..(L + 1) /\ result[L + 1] = f
  BY <1>1
<1>3. /\ DOMAIN table \subseteq Nat /\ others \subseteq DOMAIN table
      /\ \A n \in others : table[n] # f
      /\ \A n \in DOMAIN table : n \in others \/ table[n] = f
  OBVIOUS
<1> HIDE DEF others, L
<1>4. PICK e \in [others -> 1..L] :
             /\ \A n \in others : result[e[n]] = table[n]
             /\ \A m, n \in others : m < n => e[m] < e[n]
             /\ \A m \in 1..L : \E n \in others : e[n] = m
  BY <1>1
<1>5. \A n \in others : e[n] \in DOMAIN result /\ e[n] < L + 1 /\ result[e[n]] # f
  BY <1>2, <1>3, <1>4
<1>6. \A m \in DOMAIN result : m = L + 1 \/ \E n \in others : e[n] = m
  BY <1>2, <1>4
<1>7. OneToOne(result)
  <2> SUFFICES ASSUME NEW m \in DOMAIN result, NEW n \in DOMAIN result, result[m] = result[n]
               PROVE  m = n
    BY DEF OneToOne
  <2>1. CASE m = L + 1
    BY <1>2, <1>5, <1>6, <2>1
  <2>2. CASE n = L + 1
    BY <1>2, <1>5, <1>6, <2>2
  <2>3. CASE m # L + 1 /\ n # L + 1
    <3>1. PICK x \in others : e[x] = m
      BY <1>6, <2>3
    <3>2. PICK y \in others : e[y] = n
      BY <1>6, <2>3
    <3>3. table[x] = table[y]
      BY <1>4, <3>1, <3>2
    <3>4. x = y
      BY <1>3, <3>3 DEF OneToOne
    <3> QED
      BY <3>1, <3>2, <3>4
  <2> QED
    BY <2>1, <2>2, <2>3
<1>8. Range(result) = Range(table) \cup {f}
  <2>1. Range(result) \subseteq Range(table) \cup {f}
    BY <1>2, <1>3, <1>4, <1>6 DEF Range
  <2>2. Range(table) \cup {f} \subseteq Range(result)
    BY <1>2, <1>3, <1>4, <1>5 DEF Range
  <2> QED
    BY <2>1, <2>2
<1>9. ASSUME NEW g, NEW h, g # f, h # f, Precedes(table, g, h)
      PROVE  Precedes(result, g, h)
  <2>1. PICK m, n \in DOMAIN table : m < n /\ table[m] = g /\ table[n] = h
    BY <1>9 DEF Precedes
  <2>2. m \in others /\ n \in others
    BY <1>3, <1>9, <2>1
  <2>3. e[m] < e[n] /\ result[e[m]] = g /\ result[e[n]] = h
    BY <1>4, <2>1, <2>2
  <2> QED
    BY <1>5, <2>2, <2>3 DEF Precedes
<1>10. ASSUME NEW g \in Range(table), g # f
       PROVE  Precedes(result, g, f)
  <2>1. PICK n \in others : table[n] = g
    BY <1>3, <1>10 DEF Range
  <2>2. e[n] < L + 1 /\ result[e[n]] = g /\ e[n] \in DOMAIN result
    BY <1>4, <1>5, <2>1
  <2>3. L + 1 \in DOMAIN result
    BY <1>2
  <2> QED
    BY <1>2, <2>2, <2>3 DEF Precedes
<1> QED
  BY <1>1, <1>7, <1>8, <1>9, <1>10 DEF result


-----------------------------------------------------------------------------
(* What each operation of the program does to them.                         *)

\* Where a known fact is.
LEMMA WhereKnown ==
    ASSUME NEW rs, NEW h, NEW f
    PROVE  f \in Known(rs, h) <=>
               \/ f \in Range(rs)
               \/ \E s \in Sides : h[s] # None /\ f \in Range(h[s])
BY DEF Known

\* The second part of an id is a number.
LEMMA IdNumber ==
    ASSUME NEW f \in Fact
    PROVE  f.id \in Ids /\ f.id[2] \in Nat
<1>1. f.id \in Branches \X Nat
  BY DEF Fact, Ids
<1> QED
  BY <1>1 DEF Ids

\* What is known is a fact.
LEMMA KnownAreFacts ==
    ASSUME StoreTypeOK
    PROVE  Known(rows, held) \subseteq Fact
<1> SUFFICES ASSUME NEW f \in Known(rows, held) PROVE f \in Fact
  OBVIOUS
<1>1. CASE f \in Range(rows)
  BY <1>1 DEF Range, StoreTypeOK
<1>2. ASSUME NEW s \in Sides, held[s] # None, f \in Range(held[s])
      PROVE  f \in Fact
  <2>1. held[s] \in Seq(Fact)
    BY <1>2 DEF StoreTypeOK
  <2> QED
    BY <1>2, <2>1 DEF Range
<1> QED
  BY <1>1, <1>2, WhereKnown

\* A branch in memory that is replaced by one with new facts, of new ids,
\* beside some it had, in the places they had.
LEMMA FactsMade ==
    ASSUME StoreInv, Idle, NEW s \in Sides, NEW list \in Seq(Fact),
           NEW top \in Nat, made <= top,
           \A n \in DOMAIN list :
               /\ list[n].branch = s /\ list[n].id[2] <= top
               /\ \/ list[n].id[2] > made
                  \/ held[s] # None /\ n \in DOMAIN held[s] /\ list[n] = held[s][n],
           \A m, n \in DOMAIN list : list[m].id = list[n].id => m = n,
           held' = [held EXCEPT ![s] = list], made' = top,
           UNCHANGED <<branchRows, rows, saving, disturbed>>
    PROVE  StoreInv'
<1>1. StoreTypeOK'
  BY DEF StoreInv, StoreTypeOK
<1>2. /\ held'[s] = list /\ \A t \in Sides : t # s => held'[t] = held[t]
      /\ list # None => list \in Seq(Fact)
  BY DEF StoreInv, StoreTypeOK
<1>3. \A f \in Known(rows, held) : f \in Fact /\ f.id[2] \in Nat /\ f.id[2] <= made
  BY KnownAreFacts, IdNumber DEF StoreInv, Identified
<1>4. \A n \in DOMAIN list : list[n].id[2] \in Nat
  BY IdNumber
<1>5. \A n \in DOMAIN list : list[n] \in Known(rows, held) \/ list[n].id[2] > made
  <2> SUFFICES ASSUME NEW n \in DOMAIN list, held[s] # None, n \in DOMAIN held[s],
                      list[n] = held[s][n]
               PROVE  list[n] \in Known(rows, held)
    OBVIOUS
  <2>1. list[n] \in Range(held[s])
    BY DEF Range
  <2> QED
    BY <2>1, WhereKnown
<1>6. \A f \in Known(rows', held') : f \in Known(rows, held) \/ \E n \in DOMAIN list : f = list[n]
  <2> SUFFICES ASSUME NEW f \in Known(rows', held')
               PROVE  f \in Known(rows, held) \/ \E n \in DOMAIN list : f = list[n]
    OBVIOUS
  <2>1. CASE f \in Range(rows')
    BY <2>1, WhereKnown
  <2>2. ASSUME NEW t \in Sides, held'[t] # None, f \in Range(held'[t])
        PROVE  f \in Known(rows, held) \/ \E n \in DOMAIN list : f = list[n]
    <3>1. CASE t = s
      BY <1>2, <2>2, <3>1 DEF Range
    <3>2. CASE t # s
      BY <1>2, <2>2, <3>2, WhereKnown
    <3> QED
      BY <3>1, <3>2
  <2>3. f \in Range(rows') \/ \E t \in Sides : held'[t] # None /\ f \in Range(held'[t])
    BY WhereKnown
  <2> QED
    BY <2>1, <2>2, <2>3
<1>7. Identified(rows', held', made')
  <2>1. ASSUME NEW f \in Known(rows', held') PROVE f.id[2] <= top
    <3>1. CASE f \in Known(rows, held)
      BY <1>3, <3>1 DEF StoreInv, StoreTypeOK
    <3> QED
      BY <1>6, <3>1
  <2>2. ASSUME NEW f \in Known(rows', held'), NEW g \in Known(rows', held'), f.id = g.id
        PROVE  f = g
    <3>1. CASE f \in Known(rows, held) /\ g \in Known(rows, held)
      BY <2>2, <3>1 DEF StoreInv, Identified
    <3>2. CASE f \notin Known(rows, held)
      <4>0. PICK n \in DOMAIN list : f = list[n]
        BY <1>6, <3>2
      <4>1. f = list[n] /\ list[n].id[2] > made
        BY <1>5, <3>2, <4>0
      <4>2. g.id[2] > made
        BY <2>2, <4>1
      <4>3. g \notin Known(rows, held)
        BY <1>3, <4>2 DEF StoreInv, StoreTypeOK
      <4>4. PICK m \in DOMAIN list : g = list[m]
        BY <1>6, <4>3
      <4> QED
        BY <2>2, <4>1, <4>4
    <3>3. CASE g \notin Known(rows, held)
      <4>0. PICK n \in DOMAIN list : g = list[n]
        BY <1>6, <3>3
      <4>1. g = list[n] /\ list[n].id[2] > made
        BY <1>5, <3>3, <4>0
      <4>2. f.id[2] > made
        BY <2>2, <4>1
      <4>3. f \notin Known(rows, held)
        BY <1>3, <4>2 DEF StoreInv, StoreTypeOK
      <4>4. PICK m \in DOMAIN list : f = list[m]
        BY <1>6, <4>3
      <4> QED
        BY <2>2, <4>1, <4>4
    <3> QED
      BY <3>1, <3>2, <3>3
  <2> QED
    BY <2>1, <2>2 DEF Identified
<1>8. EachOnce'
  <2>1. OneToOne(rows')
    BY DEF StoreInv, EachOnce
  <2>2. ASSUME NEW t \in Sides, held'[t] # None
        PROVE  OneToOne(held'[t]) /\ \A n \in DOMAIN held'[t] : held'[t][n].branch = t
    <3>1. CASE t = s
      BY <1>2, <3>1 DEF OneToOne
    <3>2. CASE t # s
      BY <1>2, <2>2, <3>2 DEF StoreInv, EachOnce
    <3> QED
      BY <3>1, <3>2
  <2> QED
    BY <2>1, <2>2 DEF EachOnce
<1>9. SaveOK'
  <2>1. Idle'
    BY DEF Idle
  <2>2. None \notin Sides
    BY NoneAssumption DEF Branches
  <2> QED
    BY <2>1, <2>2 DEF SaveOK, Idle, NotSaving
<1>10. StoredInOrder'
  <2> SUFFICES ASSUME NEW t \in Sides \ disturbed, held'[t] # None, saving.side # t
               PROVE  InOrder(rows, held'[t])
    BY DEF StoredInOrder
  <2>1. CASE t = s
    <3> SUFFICES ASSUME NEW m \in DOMAIN list, NEW n \in DOMAIN list,
                        m < n, list[m].ts = list[n].ts,
                        list[m] \in Range(rows), list[n] \in Range(rows)
                 PROVE  Precedes(rows, list[m], list[n])
      BY <1>2, <2>1 DEF InOrder
    <3>1. list[m] \in Known(rows, held) /\ list[n] \in Known(rows, held)
      BY WhereKnown
    <3>2. ~(list[m].id[2] > made) /\ ~(list[n].id[2] > made)
      BY <1>3, <3>1 DEF StoreInv, StoreTypeOK
    <3>3. /\ held[s] # None /\ m \in DOMAIN held[s] /\ n \in DOMAIN held[s]
          /\ list[m] = held[s][m] /\ list[n] = held[s][n]
      BY <3>2
    <3>4. InOrder(rows, held[s])
      BY <2>1, <3>3 DEF StoreInv, StoredInOrder
    <3> QED
      BY <3>3, <3>4 DEF InOrder
  <2>2. CASE t # s
    BY <1>2, <2>2 DEF StoreInv, StoredInOrder
  <2> QED
    BY <2>1, <2>2
<1> QED
  BY <1>1, <1>7, <1>8, <1>9, <1>10 DEF StoreInv

\* fork makes as many new facts as the ancestor has.
LEMMA ForkKeeps ==
    ASSUME StoreInv, NEW s \in Sides, ForkBranch(s)
    PROVE  StoreInv'
<1> DEFINE copy == ForkedFacts(AncestorFacts(AncestorPairs, 0), s)
           size == Len(AncestorPairs)
           list == [n \in DOMAIN copy |-> [copy[n] EXCEPT !.id = <<s, made + n>>]]
<1>1. AncestorPairs \in Seq([key : Keys, value : Values]) /\ size \in Nat /\ made \in Nat
  BY StoreAssumption DEF StoreInv, StoreTypeOK
<1>2. AncestorFacts(AncestorPairs, 0) \in Seq(Fact) /\ Len(AncestorFacts(AncestorPairs, 0)) = size
  BY <1>1, AncestorOK
<1>3. copy \in Seq(Fact) /\ DOMAIN copy = 1..size /\ \A n \in 1..size : copy[n].branch = s
  <2>1. /\ copy \in Seq(Fact) /\ Len(copy) = size
        /\ DOMAIN copy = DOMAIN AncestorFacts(AncestorPairs, 0)
        /\ \A n \in DOMAIN AncestorFacts(AncestorPairs, 0) : copy[n].branch = s
    BY <1>2, ForkedOK
  <2> HIDE DEF copy
  <2> QED
    BY <2>1
<1>4. /\ Idle /\ held' = [held EXCEPT ![s] = list] /\ made' = made + size
      /\ UNCHANGED <<branchRows, rows, saving, disturbed>>
  BY DEF ForkBranch
<1> HIDE DEF copy
<1>5. ASSUME NEW n \in 1..size
      PROVE  /\ list[n] \in Fact /\ list[n].branch = s /\ list[n].id = <<s, made + n>>
             /\ list[n].id[2] > made /\ list[n].id[2] <= made + size
  <2>1. <<s, made + n>> \in Ids
    BY <1>1 DEF Ids, Branches
  <2>2. list[n] = [copy[n] EXCEPT !.id = <<s, made + n>>] /\ copy[n] \in Fact /\ copy[n].branch = s
    BY <1>3
  <2>3. list[n] \in Fact /\ list[n].branch = s /\ list[n].id = <<s, made + n>>
    BY <2>1, <2>2 DEF Fact
  <2> HIDE DEF list
  <2> QED
    BY <1>1, <2>3
<1>6. list \in Seq(Fact) /\ DOMAIN list = 1..size
  <2>1. list = [n \in 1..size |-> list[n]] /\ DOMAIN list = 1..size
    BY <1>3
  <2> HIDE DEF list
  <2> QED
    BY <1>1, <1>5, <2>1
<1> HIDE DEF list, size
<1>7. \A m, n \in DOMAIN list : list[m].id = list[n].id => m = n
  <2> SUFFICES ASSUME NEW m \in DOMAIN list, NEW n \in DOMAIN list, list[m].id = list[n].id
               PROVE  m = n
    OBVIOUS
  <2>1. made + m = made + n
    BY <1>5, <1>6
  <2> QED
    BY <1>1, <1>6, <2>1
<1>8. made + size \in Nat /\ made <= made + size
  BY <1>1
<1>9. \A n \in DOMAIN list :
          /\ list[n].branch = s /\ list[n].id[2] <= made + size
          /\ list[n].id[2] > made
  BY <1>5, <1>6
<1> QED
  BY <1>4, <1>6, <1>7, <1>8, <1>9, FactsMade

\* The last of a list, replaced.
LEMMA AppendReplaced ==
    ASSUME NEW S, NEW list \in Seq(S), NEW x \in S, NEW y \in S
    PROVE  [Append(list, x) EXCEPT ![Len(list) + 1] = y] = Append(list, y)
<1> DEFINE a == Append(list, x)
           b == Append(list, y)
           L == Len(list)
<1>1. L \in Nat /\ a \in Seq(S) /\ Len(a) = L + 1 /\ \A n \in 1..L : a[n] = list[n]
  OBVIOUS
<1>2. b \in Seq(S) /\ Len(b) = L + 1 /\ b[L + 1] = y /\ \A n \in 1..L : b[n] = list[n]
  OBVIOUS
<1> HIDE DEF a, b, L
<1>3. a \in [1..(L + 1) -> S] /\ b \in [1..(L + 1) -> S]
  BY <1>1, <1>2
<1>4. \A n \in 1..(L + 1) : n \in 1..L \/ n = L + 1
  BY <1>1
<1>5. \A n \in 1..(L + 1) : [a EXCEPT ![L + 1] = y][n] = b[n]
  BY <1>1, <1>2, <1>3, <1>4
<1>6. [a EXCEPT ![L + 1] = y] \in [1..(L + 1) -> S]
  BY <1>3
<1>7. [a EXCEPT ![L + 1] = y] = b
  BY <1>3, <1>5, <1>6
<1> QED
  BY <1>7 DEF a, b, L

\* An update makes one new fact, at the end.
LEMMA MakeKeeps ==
    ASSUME StoreInv, NEW s \in Sides, NEW u \in NewFacts, MakeFact(s, u)
    PROVE  StoreInv'
<1> DEFINE branch == held[s]
           size == Len(branch)
           anc == IF u.key \in KeysOf(branch) THEN CurrentFact(branch, u.key).id ELSE None
           f == [id |-> <<s, made + 1>>, key |-> u.key, value |-> u.value,
                 branch |-> s, ts |-> u.ts, conf |-> u.conf, anc |-> anc]
           list == Append(branch, f)
<1>1. /\ Idle /\ branch \in Seq(Fact) /\ held[s] # None /\ made \in Nat /\ size \in Nat
      /\ u.key \in Keys /\ u.value \in Values /\ u.ts \in Nat /\ u.conf \in Nat
  BY StoreAssumption DEF MakeFact, StoreInv, StoreTypeOK
<1>2. anc \in Ids \cup {None} /\ f \in Fact /\ f.id = <<s, made + 1>> /\ f.branch = s
  <2>1. anc \in Ids \cup {None}
    <3>1. u.key \in KeysOf(branch) => CurrentFact(branch, u.key) \in Fact
      BY <1>1, CurrentFactKey
    <3> QED
      BY <3>1 DEF Fact
  <2>2. <<s, made + 1>> \in Ids /\ s \in Branches
    BY <1>1 DEF Ids, Branches
  <2> HIDE DEF anc
  <2> QED
    BY <1>1, <2>1, <2>2 DEF Fact
<1>3. /\ held' = [held EXCEPT ![s] = list] /\ made' = made + 1
      /\ UNCHANGED <<branchRows, rows, saving, disturbed>>
  <2> DEFINE longer == Updated(branch, s, u)
             g == [id |-> <<s, size + 1>>, key |-> u.key, value |-> u.value,
                   branch |-> s, ts |-> u.ts, conf |-> u.conf, anc |-> anc]
  <2>1. longer = Append(branch, g)
    BY DEF Updated
  <2>2. f = [g EXCEPT !.id = <<s, made + 1>>]
    OBVIOUS
  <2>0. g \in Fact
    <3>1. <<s, size + 1>> \in Ids /\ s \in Branches
      BY <1>1 DEF Ids, Branches
    <3> HIDE DEF anc
    <3> QED
      BY <1>1, <1>2, <3>1 DEF Fact
  <2> HIDE DEF g, f
  <2>3. Len(longer) = size + 1 /\ longer[size + 1] = g
    BY <1>1, <2>0, <2>1
  <2>4. [longer EXCEPT ![Len(longer)].id = <<s, made + 1>>] = Append(branch, f)
    <3>1. [longer EXCEPT ![Len(longer)].id = <<s, made + 1>>] = [longer EXCEPT ![size + 1] = f]
      <4>1. [longer EXCEPT ![size + 1].id = <<s, made + 1>>]
                = [longer EXCEPT ![size + 1] = [longer[size + 1] EXCEPT !.id = <<s, made + 1>>]]
        OBVIOUS
      <4>2. [longer[size + 1] EXCEPT !.id = <<s, made + 1>>] = f
        BY <2>2, <2>3
      <4>3. Len(longer) = size + 1
        BY <2>3
      <4> HIDE DEF longer, size
      <4> QED
        BY <4>1, <4>2, <4>3, Zenon
    <3>2. [Append(branch, g) EXCEPT ![size + 1] = f] = Append(branch, f)
      <4>1. branch \in Seq(Fact) /\ f \in Fact /\ g \in Fact
        BY <1>1, <1>2, <2>0
      <4> HIDE DEF branch
      <4> QED
        BY <4>1, AppendReplaced
    <3> QED
      BY <2>1, <3>1, <3>2
  <2> QED
    BY <2>4 DEF MakeFact
<1> HIDE DEF f
<1>4. /\ list \in Seq(Fact) /\ DOMAIN list = 1..(size + 1) /\ list[size + 1] = f
      /\ \A n \in 1..size : n \in DOMAIN held[s] /\ list[n] = held[s][n]
  BY <1>1, <1>2
<1>5. \A n \in 1..size : /\ list[n].branch = s /\ list[n].id[2] \in Nat /\ list[n].id[2] <= made
                         /\ list[n] \in Known(rows, held)
  <2> SUFFICES ASSUME NEW n \in 1..size
               PROVE  /\ list[n].branch = s /\ list[n].id[2] \in Nat /\ list[n].id[2] <= made
                      /\ list[n] \in Known(rows, held)
    OBVIOUS
  <2>1. list[n] \in Range(held[s])
    BY <1>4 DEF Range
  <2>2. list[n] \in Known(rows, held)
    BY <1>1, <2>1, WhereKnown
  <2>3. list[n].id[2] <= made /\ list[n].branch = s
    BY <1>1, <1>4, <2>2 DEF StoreInv, Identified, EachOnce
  <2>4. list[n] \in Fact
    BY <2>2, KnownAreFacts DEF StoreInv
  <2> QED
    BY <2>2, <2>3, <2>4, IdNumber
<1>6. f.id[2] = made + 1
  BY <1>2
<1> HIDE DEF list, size, branch
<1>7. \A n \in DOMAIN list : n \in 1..size \/ n = size + 1
  BY <1>1, <1>4
<1>8. \A n \in DOMAIN list :
          /\ list[n].branch = s /\ list[n].id[2] <= made + 1
          /\ \/ list[n].id[2] > made
             \/ held[s] # None /\ n \in DOMAIN held[s] /\ list[n] = held[s][n]
  BY <1>1, <1>2, <1>4, <1>5, <1>6, <1>7
<1>9. \A m, n \in DOMAIN list : list[m].id = list[n].id => m = n
  <2> SUFFICES ASSUME NEW m \in DOMAIN list, NEW n \in DOMAIN list, list[m].id = list[n].id
               PROVE  m = n
    OBVIOUS
  <2>1. CASE m \in 1..size /\ n \in 1..size
    <3>1. list[m] = list[n]
      BY <1>5, <2>1 DEF StoreInv, Identified
    <3>2. OneToOne(held[s])
      BY <1>1 DEF StoreInv, EachOnce
    <3> QED
      BY <1>4, <2>1, <3>1, <3>2 DEF OneToOne
  <2>2. \A x \in 1..size : list[x].id # f.id
    <3> SUFFICES ASSUME NEW x \in 1..size, list[x].id = f.id PROVE FALSE
      OBVIOUS
    <3>1. list[x].id[2] = made + 1 /\ list[x].id[2] <= made
      BY <1>5, <1>6
    <3> QED
      BY <1>1, <3>1
  <2> QED
    BY <1>4, <1>7, <2>1, <2>2
<1>10. made + 1 \in Nat /\ made <= made + 1
  BY <1>1
<1> QED
  BY <1>1, <1>3, <1>4, <1>8, <1>9, <1>10, FactsMade

\* Facts known before and after are told apart by their ids.
LEMMA FewerKnown ==
    ASSUME NEW rs, NEW h, NEW n, Identified(rs, h, n),
           NEW rs2, NEW h2, Known(rs2, h2) \subseteq Known(rs, h)
    PROVE  Identified(rs2, h2, n)
BY DEF Identified

\* An insert of a fact in memory adds at most that fact to the table, and does
\* not disturb the order of another branch.
LEMMA InsertKeeps ==
    ASSUME StoreInv, NEW s \in Sides, held[s] # None, NEW x \in DOMAIN held[s]
    PROVE  LET f == held[s][x]
               result == InsertOrReplace(rows, f)
           IN  /\ result \in Seq(Fact) /\ OneToOne(result)
               /\ f \in Fact /\ Range(result) = Range(rows) \cup {f}
               /\ Identified(result, held, made)
               /\ \A g, h : g # f /\ h # f /\ Precedes(rows, g, h) => Precedes(result, g, h)
               /\ \A g \in Range(rows) : g # f => Precedes(result, g, f)
               /\ \A t \in Sides :
                      t # s /\ held[t] # None /\ InOrder(rows, held[t]) => InOrder(result, held[t])
<1> DEFINE f == held[s][x]
           result == InsertOrReplace(rows, f)
<1>1. /\ rows \in Seq(Fact) /\ held[s] \in Seq(Fact) /\ OneToOne(rows) /\ f.branch = s
      /\ Identified(rows, held, made)
  BY DEF StoreInv, StoreTypeOK, EachOnce
<1>2. f \in Fact /\ f \in Range(held[s])
  BY <1>1 DEF Range
<1>3. f \in Known(rows, held)
  BY <1>2, WhereKnown
<1>4. \A n \in DOMAIN rows : rows[n].id = f.id => rows[n] = f
  <2> SUFFICES ASSUME NEW n \in DOMAIN rows, rows[n].id = f.id PROVE rows[n] = f
    OBVIOUS
  <2>1. rows[n] \in Range(rows)
    BY DEF Range
  <2>2. rows[n] \in Known(rows, held)
    BY <2>1, WhereKnown
  <2> HIDE DEF f
  <2> QED
    BY <1>1, <1>3, <2>2 DEF Identified
<1> HIDE DEF f
<1>5. /\ result \in Seq(Fact) /\ OneToOne(result)
      /\ Range(result) = Range(rows) \cup {f}
      /\ \A g, h : g # f /\ h # f /\ Precedes(rows, g, h) => Precedes(result, g, h)
      /\ \A g \in Range(rows) : g # f => Precedes(result, g, f)
  BY <1>1, <1>2, <1>4, Inserted
<1> HIDE DEF result
<1>6. Identified(result, held, made)
  <2>1. ASSUME NEW g \in Known(result, held) PROVE g \in Known(rows, held)
    <3>1. g \in Range(result) \/ \E t \in Sides : held[t] # None /\ g \in Range(held[t])
      BY <2>1, WhereKnown
    <3>2. g \in Range(result) => g \in Range(rows) \/ g = f
      BY <1>5
    <3> QED
      BY <1>3, <3>1, <3>2, WhereKnown
  <2> QED
    BY <1>1, <2>1, FewerKnown
<1>7. ASSUME NEW t \in Sides, t # s, held[t] # None, InOrder(rows, held[t])
      PROVE  InOrder(result, held[t])
  <2> SUFFICES ASSUME NEW m \in DOMAIN held[t], NEW n \in DOMAIN held[t],
                      m < n, held[t][m].ts = held[t][n].ts,
                      held[t][m] \in Range(result), held[t][n] \in Range(result)
               PROVE  Precedes(result, held[t][m], held[t][n])
    BY DEF InOrder
  <2>1. held[t][m].branch = t /\ held[t][n].branch = t
    BY <1>7 DEF StoreInv, EachOnce
  <2>2. held[t][m] # f /\ held[t][n] # f
    BY <1>1, <1>7, <2>1
  <2>3. held[t][m] \in Range(rows) /\ held[t][n] \in Range(rows)
    BY <1>5, <2>2
  <2>4. Precedes(rows, held[t][m], held[t][n])
    BY <1>7, <2>3 DEF InOrder
  <2> QED
    BY <1>5, <2>2, <2>4
<1> QED
  BY <1>2, <1>5, <1>6, <1>7 DEF f, result

\* What a part of a list holds.
LEMMA SubSeqAt ==
    ASSUME NEW S, NEW list \in Seq(S), NEW a \in Nat, NEW b \in Nat, NEW n \in 1..(b - a + 1)
    PROVE  SubSeq(list, a, b)[n] = list[a + n - 1]
OBVIOUS

\* The rest of a list, one fact later.
LEMMA Suffix ==
    ASSUME NEW S, NEW list \in Seq(S), NEW left \in Seq(S), left # <<>>,
           Len(left) <= Len(list),
           left = SubSeq(list, Len(list) - Len(left) + 1, Len(list))
    PROVE  /\ Len(list) - Len(left) + 1 \in DOMAIN list
           /\ Head(left) = list[Len(list) - Len(left) + 1]
           /\ Tail(left) \in Seq(S) /\ Len(Tail(left)) = Len(left) - 1
           /\ Tail(left) = SubSeq(list, Len(list) - Len(Tail(left)) + 1, Len(list))
<1> DEFINE c == Len(list) - Len(left)
           rest == Tail(left)
           back == SubSeq(list, c + 2, Len(list))
<1>1. /\ Len(list) \in Nat /\ Len(left) \in Nat /\ Len(left) # 0
      /\ c \in Nat /\ c + 1 \in 1..Len(list)
  OBVIOUS
<1>2. \A n \in 1..Len(left) : left[n] = list[c + n]
  <2> SUFFICES ASSUME NEW n \in 1..Len(left) PROVE left[n] = list[c + n]
    OBVIOUS
  <2>1. left[n] = list[c + 1 + n - 1]
    <3>1. Len(list) - (c + 1) + 1 = Len(left)
      BY <1>1
    <3> HIDE DEF c
    <3>2. left = SubSeq(list, c + 1, Len(list))
      BY DEF c
    <3>3. c + 1 \in Nat /\ Len(list) \in Nat /\ n \in 1..(Len(list) - (c + 1) + 1)
      BY <1>1, <3>1
    <3>4. SubSeq(list, c + 1, Len(list))[n] = list[c + 1 + n - 1]
      BY <3>3, SubSeqAt
    <3> QED
      BY <3>2, <3>4
  <2>2. c + 1 + n - 1 = c + n
    BY <1>1
  <2> QED
    BY <2>1, <2>2
<1>3. Head(left) = list[c + 1]
  <2>1. Head(left) = left[1] /\ 1 \in 1..Len(left)
    BY <1>1
  <2> HIDE DEF c
  <2> QED
    BY <1>2, <2>1
<1>4. rest \in Seq(S) /\ Len(rest) = Len(left) - 1 /\ \A n \in 1..(Len(left) - 1) : rest[n] = left[n + 1]
  OBVIOUS
<1>5. back \in Seq(S) /\ Len(back) = Len(left) - 1 /\ \A n \in 1..(Len(left) - 1) : back[n] = list[c + 1 + n]
  <2>1. Len(list) - (c + 2) + 1 = Len(left) - 1
    BY <1>1
  <2> HIDE DEF c
  <2>2. back \in Seq(S) /\ Len(back) = Len(left) - 1
    BY <1>1, <2>1
  <2>3. ASSUME NEW n \in 1..(Len(left) - 1) PROVE back[n] = list[c + 1 + n]
    <3>1. back[n] = list[c + 2 + n - 1]
      <4> DEFINE low == c + 2
      <4>1. low \in Nat /\ Len(list) \in Nat /\ n \in 1..(Len(list) - low + 1)
        BY <1>1, <2>1
      <4>2. back = SubSeq(list, low, Len(list))
        OBVIOUS
      <4> HIDE DEF low, back
      <4>3. back[n] = list[low + n - 1]
        BY <4>1, <4>2, SubSeqAt
      <4> QED
        BY <4>3 DEF low
    <3>2. c + 2 + n - 1 = c + 1 + n
      BY <1>1
    <3> QED
      BY <3>1, <3>2
  <2> QED
    BY <2>2, <2>3
<1>6. c + 2 = Len(list) - Len(rest) + 1
  BY <1>1, <1>4
<1>7. rest = back
  <2> HIDE DEF rest, back, c
  <2>1. \A n \in 1..(Len(left) - 1) : rest[n] = back[n]
    <3> SUFFICES ASSUME NEW n \in 1..(Len(left) - 1) PROVE rest[n] = back[n]
      OBVIOUS
    <3>1. n + 1 \in 1..Len(left) /\ c + (n + 1) = c + 1 + n
      BY <1>1
    <3> QED
      BY <1>2, <1>4, <1>5, <3>1
  <2> QED
    BY <1>1, <1>4, <1>5, <2>1
<1> HIDE DEF rest
<1> QED
  BY <1>1, <1>3, <1>4, <1>6, <1>7 DEF rest

LEMMA SavingSides ==
    ASSUME StoreInv
    PROVE  /\ None \notin Sides
           /\ saving.side \in Sides <=> ~Idle
           /\ saving.side \in Sides =>
                  /\ held[saving.side] # None /\ held[saving.side] \in Seq(Fact)
                  /\ HalfSaved(rows, held[saving.side], saving.left)
           /\ saving.side \notin Sides => saving.left = <<>> /\ saving.side = None
<1>1. None \notin Sides
  BY NoneAssumption DEF Branches
<1> QED
  BY <1>1 DEF StoreInv, SaveOK, Idle, NotSaving, StoreTypeOK

LEMMA CreateKeeps ==
    ASSUME StoreInv, NEW s \in Sides, CreateBranch(s)
    PROVE  StoreInv'
<1>1. /\ held[s] # None /\ held[s] \in Seq(Fact)
      /\ branchRows' = branchRows \cup {s} /\ saving' = [side |-> s, left |-> held[s]]
      /\ UNCHANGED <<rows, held, disturbed, made>>
  BY DEF CreateBranch, StoreInv, StoreTypeOK
<1>2. StoreTypeOK'
  BY <1>1 DEF StoreInv, StoreTypeOK
<1>3. SaveOK'
  <2> DEFINE list == held[s]
  <2>1. /\ Len(list) - Len(list) = 0 /\ Len(list) <= Len(list)
        /\ list = SubSeq(list, 0 + 1, Len(list))
    BY <1>1
  <2>2. HalfSaved(rows, list, list)
    <3> HIDE DEF list
    <3>1. Written(rows, list, 0)
      BY DEF Written
    <3> QED
      BY <2>1, <3>1 DEF HalfSaved
  <2> QED
    BY <1>1, <2>2 DEF SaveOK
<1>4. Identified(rows', held', made') /\ EachOnce'
  BY <1>1 DEF StoreInv, EachOnce
<1>5. StoredInOrder'
  <2> SUFFICES ASSUME NEW t \in Sides \ disturbed, held[t] # None
               PROVE  InOrder(rows, held[t])
    BY <1>1 DEF StoredInOrder
  <2>1. saving.side # t
    BY SavingSides DEF CreateBranch
  <2> QED
    BY <2>1 DEF StoreInv, StoredInOrder
<1> QED
  BY <1>2, <1>3, <1>4, <1>5 DEF StoreInv

LEMMA SaveNextKeeps ==
    ASSUME StoreInv, SaveNextFact
    PROVE  StoreInv' /\ Range(rows) \subseteq Range(rows') /\ branchRows' = branchRows
<1> DEFINE s == saving.side
           list == held[s]
           left == saving.left
           c == Len(list) - Len(left)
           f == list[c + 1]
<1>1. /\ left # <<>> /\ rows' = InsertOrReplace(rows, Head(left))
      /\ saving' = [saving EXCEPT !.left = Tail(left)]
      /\ UNCHANGED <<branchRows, held, disturbed, made>>
  BY DEF SaveNextFact
<1>2. s \in Sides /\ held[s] # None /\ list \in Seq(Fact) /\ HalfSaved(rows, list, left)
  BY <1>1, SavingSides
<1>3. left \in Seq(Fact) /\ saving \in [side : Sides \cup {None}, left : Seq(Fact)]
  BY DEF StoreInv, StoreTypeOK
<1>4. Len(left) <= Len(list) /\ left = SubSeq(list, Len(list) - Len(left) + 1, Len(list)) /\ Written(rows, list, c)
  BY <1>2 DEF HalfSaved
<1> HIDE DEF s, list, left
<1>5. /\ c + 1 \in DOMAIN list /\ Head(left) = f
      /\ Tail(left) \in Seq(Fact) /\ Len(Tail(left)) = Len(left) - 1
      /\ Tail(left) = SubSeq(list, Len(list) - Len(Tail(left)) + 1, Len(list))
  BY <1>1, <1>2, <1>3, <1>4, Suffix
<1>6. rows' = InsertOrReplace(rows, f)
  BY <1>1, <1>5
<1>7. /\ rows' \in Seq(Fact) /\ OneToOne(rows')
      /\ f \in Fact /\ Range(rows') = Range(rows) \cup {f}
      /\ Identified(rows', held, made)
      /\ \A g, h : g # f /\ h # f /\ Precedes(rows, g, h) => Precedes(rows', g, h)
      /\ \A g \in Range(rows) : g # f => Precedes(rows', g, f)
      /\ \A t \in Sides :
             t # s /\ held[t] # None /\ InOrder(rows, held[t]) => InOrder(rows', held[t])
  <2>1. StoreInv /\ s \in Sides /\ held[s] # None /\ c + 1 \in DOMAIN held[s] /\ f = held[s][c + 1]
    BY <1>2, <1>5 DEF list
  <2> HIDE DEF f, c
  <2> QED
    BY <1>6, <2>1, InsertKeeps
<1>8. saving' = [side |-> s, left |-> Tail(left)]
  BY <1>1, <1>3 DEF s, left
<1>9. StoreTypeOK'
  BY <1>1, <1>2, <1>5, <1>7, <1>8 DEF StoreInv, StoreTypeOK
<1>10. Identified(rows', held', made') /\ EachOnce'
  BY <1>1, <1>7 DEF StoreInv, EachOnce
<1>11. SaveOK'
  <2>1. Len(list) \in Nat /\ Len(left) \in Nat /\ c \in Nat /\ DOMAIN list = 1..Len(list)
    BY <1>2, <1>3, <1>4
  <2>2. OneToOne(list)
    BY <1>2 DEF StoreInv, EachOnce, list
  <2>3. Written(rows', list, c + 1)
    <3> SUFFICES ASSUME NEW n \in 1..(c + 1)
                 PROVE  /\ list[n] \in Range(rows')
                        /\ \A m \in 1..(n - 1) : Precedes(rows', list[m], list[n])
      BY DEF Written
    <3>1. CASE n \in 1..c
      <4>1. list[n] \in Range(rows) /\ \A m \in 1..(n - 1) : Precedes(rows, list[m], list[n])
        BY <1>4, <3>1 DEF Written
      <4>2. \A m \in 1..n : list[m] # f
        BY <1>5, <2>1, <2>2, <3>1 DEF OneToOne
      <4>3. ASSUME NEW m \in 1..(n - 1) PROVE Precedes(rows', list[m], list[n])
        <5>1. list[m] # f /\ list[n] # f
          BY <2>1, <3>1, <4>2
        <5> HIDE DEF f
        <5> QED
          BY <1>7, <4>1, <5>1
      <4> QED
        BY <1>7, <4>1, <4>3
    <3>2. CASE n = c + 1
      <4>1. ASSUME NEW m \in 1..(n - 1) PROVE Precedes(rows', list[m], f)
        <5>1. m \in 1..c /\ m \in DOMAIN list /\ m # c + 1
          BY <1>5, <2>1, <3>2
        <5>2. list[m] \in Range(rows)
          BY <1>4, <5>1 DEF Written
        <5>3. list[m] # f
          BY <1>5, <2>2, <5>1 DEF OneToOne
        <5> HIDE DEF f
        <5> QED
          BY <1>7, <5>2, <5>3
      <4> QED
        BY <1>7, <3>2, <4>1
    <3> QED
      BY <2>1, <3>1, <3>2
  <2>4. Len(list) - Len(Tail(left)) = c + 1 /\ Len(Tail(left)) <= Len(list)
    BY <1>5, <2>1
  <2>5. HalfSaved(rows', list, Tail(left))
    BY <1>5, <2>3, <2>4 DEF HalfSaved
  <2> QED
    BY <1>1, <1>2, <1>8, <2>5 DEF SaveOK, list
<1>12. StoredInOrder'
  <2> SUFFICES ASSUME NEW t \in Sides \ disturbed, held[t] # None, s # t
               PROVE  InOrder(rows', held[t])
    BY <1>1, <1>8 DEF StoredInOrder
  <2>1. InOrder(rows, held[t])
    BY DEF StoreInv, StoredInOrder, s
  <2> QED
    BY <1>7, <2>1
<1> QED
  BY <1>1, <1>7, <1>9, <1>10, <1>11, <1>12 DEF StoreInv

LEMMA ReturnKeeps ==
    ASSUME StoreInv, CreateBranchReturns
    PROVE  StoreInv'
<1> DEFINE s == saving.side
           list == held[s]
<1>1. /\ s # None /\ saving.left = <<>> /\ saving' = NotSaving /\ disturbed' = disturbed \ {s}
      /\ UNCHANGED <<branchRows, rows, held, made>>
  BY DEF CreateBranchReturns
<1>2. /\ s \in Sides /\ None \notin Sides /\ held[s] # None
      /\ list \in Seq(Fact) /\ HalfSaved(rows, list, <<>>)
  BY <1>1, SavingSides
<1>3. StoreTypeOK' /\ SaveOK'
  BY <1>1, <1>2 DEF StoreInv, StoreTypeOK, NotSaving, SaveOK, Idle
<1>4. Identified(rows', held', made') /\ EachOnce'
  BY <1>1 DEF StoreInv, EachOnce
<1>5. InOrder(rows, list)
  <2>1. Len(list) \in Nat /\ DOMAIN list = 1..Len(list) /\ Len(list) - 0 = Len(list)
    BY <1>2
  <2>2. Written(rows, list, Len(list))
    <3>1. Len(<<>>) = 0
      OBVIOUS
    <3> HIDE DEF list
    <3> QED
      BY <1>2, <2>1, <3>1 DEF HalfSaved
  <2> HIDE DEF list
  <2> SUFFICES ASSUME NEW m \in DOMAIN list, NEW n \in DOMAIN list, m < n
               PROVE  Precedes(rows, list[m], list[n])
    BY DEF InOrder
  <2>3. n \in 1..Len(list) /\ m \in 1..(n - 1)
    BY <2>1
  <2> QED
    BY <2>2, <2>3 DEF Written
<1>6. StoredInOrder'
  <2> SUFFICES ASSUME NEW t \in Sides \ (disturbed \ {s}), held[t] # None
               PROVE  InOrder(rows, held[t])
    BY <1>1 DEF StoredInOrder
  <2>1. CASE t = s
    BY <1>5, <2>1
  <2>2. CASE t # s
    BY <2>2 DEF StoreInv, StoredInOrder
  <2> QED
    BY <2>1, <2>2
<1> QED
  BY <1>3, <1>4, <1>6 DEF StoreInv

LEMMA AddKeeps ==
    ASSUME StoreInv, NEW s \in Sides, held[s] # None, NEW x \in DOMAIN held[s], AddFact(s, x)
    PROVE  StoreInv' /\ Range(rows) \subseteq Range(rows') /\ branchRows' = branchRows
<1> DEFINE f == held[s][x]
<1>1. /\ Idle /\ rows' = InsertOrReplace(rows, f) /\ disturbed' = disturbed \cup {s}
      /\ UNCHANGED <<branchRows, held, saving, made>>
  BY DEF AddFact
<1>2. /\ rows' \in Seq(Fact) /\ OneToOne(rows')
      /\ Range(rows') = Range(rows) \cup {f}
      /\ Identified(rows', held, made)
      /\ \A t \in Sides :
             t # s /\ held[t] # None /\ InOrder(rows, held[t]) => InOrder(rows', held[t])
  BY <1>1, InsertKeeps
<1> HIDE DEF f
<1>3. StoreTypeOK'
  BY <1>1, <1>2 DEF StoreInv, StoreTypeOK
<1>4. Identified(rows', held', made') /\ EachOnce'
  BY <1>1, <1>2 DEF StoreInv, EachOnce
<1>5. saving.side \notin Sides
  BY <1>1, SavingSides
<1>6. SaveOK'
  BY <1>1, <1>5 DEF SaveOK, Idle
<1>7. StoredInOrder'
  <2> SUFFICES ASSUME NEW t \in Sides, t \notin disturbed, t # s, held[t] # None
               PROVE  InOrder(rows', held[t])
    BY <1>1 DEF StoredInOrder
  <2>1. InOrder(rows, held[t])
    BY <1>5 DEF StoreInv, StoredInOrder
  <2> QED
    BY <1>2, <2>1
<1> QED
  BY <1>1, <1>2, <1>3, <1>4, <1>6, <1>7 DEF StoreInv

LEMMA CrashKeeps ==
    ASSUME StoreInv, StoreCrash
    PROVE  StoreInv'
<1>1. /\ held' = [s \in Sides |-> None] /\ disturbed' = disturbed \cup ({saving.side} \cap Sides)
      /\ saving' = NotSaving /\ UNCHANGED <<branchRows, rows, made>>
  BY DEF StoreCrash
<1>2. None \notin Sides /\ \A s \in Sides : held'[s] = None
  BY <1>1, SavingSides
<1>3. StoreTypeOK' /\ SaveOK'
  BY <1>1, <1>2 DEF StoreInv, StoreTypeOK, NotSaving, SaveOK, Idle
<1>4. Identified(rows', held', made')
  <2>1. ASSUME NEW f \in Known(rows', held') PROVE f \in Known(rows, held)
    <3>1. f \in Range(rows') \/ \E t \in Sides : held'[t] # None /\ f \in Range(held'[t])
      BY <2>1, WhereKnown
    <3>2. f \in Range(rows)
      BY <1>1, <1>2, <3>1
    <3> QED
      BY <3>2, WhereKnown
  <2> QED
    BY <1>1, <2>1, FewerKnown DEF StoreInv
<1>5. EachOnce' /\ StoredInOrder'
  BY <1>1, <1>2 DEF StoreInv, EachOnce, StoredInOrder
<1> QED
  BY <1>3, <1>4, <1>5 DEF StoreInv

\* The rows of a side can be put in order.
LEMMA BranchRowsOK ==
    ASSUME StoreTypeOK, NEW P \in SUBSET (DOMAIN rows)
    PROVE  Timed(rows, P) /\ \A n \in P : rows[n] \in Fact
<1>1. DOMAIN rows = 1..Len(rows) /\ Len(rows) \in Nat /\ rows \in Seq(Fact)
  BY DEF StoreTypeOK
<1>2. IsFiniteSet(1..Len(rows))
  BY <1>1, FS_Interval
<1>3. IsFiniteSet(P)
  BY <1>1, <1>2, FS_Subset
<1> QED
  BY <1>1, <1>3, FactFields DEF Timed

\* What is loaded of a side is its rows, each once, in the order of the table
\* where timestamps tie.
LEMMA Loaded ==
    ASSUME StoreInv, NEW s \in Sides
    PROVE  LET list == BranchFacts(s) IN
           /\ list \in Seq(Fact) /\ Range(list) = {rows[n] : n \in BranchRowsOf(s)}
           /\ OneToOne(list) /\ InOrder(rows, list)
           /\ \A n \in DOMAIN list : list[n].branch = s
<1> DEFINE list == BranchFacts(s)
           P == BranchRowsOf(s)
           at(n) == Place(rows, P, n)
<1>1. P \in SUBSET (DOMAIN rows) /\ \A p \in P : rows[p].branch = s
  BY DEF BranchRowsOf
<1> HIDE DEF P
<1>2. Timed(rows, P) /\ \A n \in P : rows[n] \in Fact
  BY <1>1, BranchRowsOK DEF StoreInv
<1>3. /\ list \in Seq(Fact) /\ Range(list) = {rows[n] : n \in P} /\ DOMAIN list = 1..Cardinality(P)
      /\ \A n \in DOMAIN list : list[n] = rows[at(n)]
  <2>1. list = OrderByTimestamp(rows, P)
    BY DEF BranchFacts, P
  <2> HIDE DEF list
  <2> QED
    BY <1>2, <2>1, OrderedList
<1>4. /\ \A n \in DOMAIN list : at(n) \in P /\ Rank(rows, P, at(n)) = n - 1
      /\ \A m, n \in DOMAIN list : m < n <=> Sooner(rows, at(m), at(n))
      /\ DOMAIN list \subseteq Nat
  BY <1>2, <1>3, PlacesRanked
<1> HIDE DEF list, at
<1>5. OneToOne(list)
  <2> SUFFICES ASSUME NEW m \in DOMAIN list, NEW n \in DOMAIN list, list[m] = list[n]
               PROVE  m = n
    BY DEF OneToOne
  <2>1. at(m) \in DOMAIN rows /\ at(n) \in DOMAIN rows /\ rows[at(m)] = rows[at(n)]
    BY <1>1, <1>3, <1>4
  <2>2. at(m) = at(n)
    BY <2>1 DEF StoreInv, EachOnce, OneToOne
  <2>3. m - 1 = n - 1 /\ m \in Nat /\ n \in Nat
    BY <1>4, <2>2
  <2> QED
    BY <2>3
<1>6. InOrder(rows, list)
  <2> SUFFICES ASSUME NEW m \in DOMAIN list, NEW n \in DOMAIN list, m < n, list[m].ts = list[n].ts
               PROVE  Precedes(rows, list[m], list[n])
    BY DEF InOrder
  <2>1. Sooner(rows, at(m), at(n)) /\ rows[at(m)].ts = rows[at(n)].ts
    BY <1>3, <1>4
  <2>2. rows[at(m)].ts \in Nat /\ at(m) \in DOMAIN rows /\ at(n) \in DOMAIN rows
    BY <1>1, <1>2, <1>4 DEF Timed
  <2>3. at(m) < at(n)
    BY <2>1, <2>2 DEF Sooner
  <2> QED
    BY <1>3, <2>2, <2>3 DEF Precedes
<1> QED
  BY <1>1, <1>3, <1>4, <1>5, <1>6 DEF list, P

LEMMA LoadKeeps ==
    ASSUME StoreInv, NEW s \in Sides, LoadBranch(s)
    PROVE  StoreInv' /\ held'[s] \in Seq(Fact)
<1> DEFINE list == BranchFacts(s)
<1>1. /\ list \in Seq(Fact) /\ Range(list) = {rows[n] : n \in BranchRowsOf(s)}
      /\ OneToOne(list) /\ InOrder(rows, list)
      /\ \A n \in DOMAIN list : list[n].branch = s
  BY Loaded
<1>2. /\ Idle /\ held' = [held EXCEPT ![s] = list]
      /\ UNCHANGED <<branchRows, rows, saving, disturbed, made>>
  BY DEF LoadBranch
<1> HIDE DEF list
<1>3. StoreTypeOK'
  BY <1>1, <1>2 DEF StoreInv, StoreTypeOK
<1>4. held'[s] = list /\ \A t \in Sides : t # s => held'[t] = held[t]
  BY <1>2 DEF StoreInv, StoreTypeOK
<1>5. Identified(rows', held', made')
  <2>1. ASSUME NEW f \in Known(rows', held') PROVE f \in Known(rows, held)
    <3>1. f \in Range(rows') \/ \E t \in Sides : held'[t] # None /\ f \in Range(held'[t])
      BY <2>1, WhereKnown
    <3>2. CASE f \in Range(rows')
      BY <1>2, <3>2, WhereKnown
    <3>3. ASSUME NEW t \in Sides, held'[t] # None, f \in Range(held'[t])
          PROVE  f \in Known(rows, held)
      <4>1. CASE t = s
        <5>1. f \in Range(rows)
          BY <1>1, <1>4, <3>3, <4>1 DEF Range, BranchRowsOf
        <5> QED
          BY <5>1, WhereKnown
      <4>2. CASE t # s
        BY <1>4, <3>3, <4>2, WhereKnown
      <4> QED
        BY <4>1, <4>2
    <3> QED
      BY <3>1, <3>2, <3>3
  <2> QED
    BY <1>2, <2>1, FewerKnown DEF StoreInv
<1>6. EachOnce'
  <2>1. ASSUME NEW t \in Sides, held'[t] # None
        PROVE  OneToOne(held'[t]) /\ \A n \in DOMAIN held'[t] : held'[t][n].branch = t
    BY <1>1, <1>4, <2>1 DEF StoreInv, EachOnce
  <2>2. OneToOne(rows')
    BY <1>2 DEF StoreInv, EachOnce
  <2> QED
    BY <2>1, <2>2 DEF EachOnce
<1>7. SaveOK'
  <2>1. saving.side \notin Sides
    BY <1>2, SavingSides
  <2> QED
    BY <1>2, <2>1 DEF SaveOK, Idle
<1>8. StoredInOrder'
  <2> SUFFICES ASSUME NEW t \in Sides \ disturbed, held'[t] # None, saving.side # t
               PROVE  InOrder(rows, held'[t])
    BY <1>2 DEF StoredInOrder
  <2> QED
    BY <1>1, <1>4 DEF StoreInv, StoredInOrder
<1> QED
  BY <1>1, <1>3, <1>4, <1>5, <1>6, <1>7, <1>8 DEF StoreInv

\* Every step keeps the invariant and takes no stored fact away.
LEMMA StoreStep ==
    ASSUME StoreInv, [StoredNext]_storedVars
    PROVE  /\ StoreInv'
           /\ Range(rows) \subseteq Range(rows') /\ branchRows \subseteq branchRows'
<1>1. CASE UNCHANGED storeVars
  <2>1. UNCHANGED <<branchRows, rows, held, saving, disturbed, made>>
    BY <1>1 DEF storeVars
  <2>2. StoreTypeOK' /\ EachOnce' /\ SaveOK' /\ StoredInOrder'
    BY <2>1 DEF StoreInv, StoreTypeOK, EachOnce, SaveOK, StoredInOrder, Idle
  <2>3. Identified(rows', held', made')
    BY <2>1 DEF StoreInv
  <2> QED
    BY <2>1, <2>2, <2>3 DEF StoreInv
<1>2. CASE UseStore
  <2>1. ASSUME NEW s \in Sides, ForkBranch(s)
        PROVE  StoreInv' /\ rows' = rows /\ branchRows' = branchRows
    BY <2>1, ForkKeeps DEF ForkBranch
  <2>2. ASSUME NEW s \in Sides, CreateBranch(s)
        PROVE  StoreInv' /\ rows' = rows /\ branchRows' = branchRows \cup {s}
    BY <2>2, CreateKeeps DEF CreateBranch
  <2>3. ASSUME NEW s \in Sides, NEW u \in NewFacts, MakeFact(s, u)
        PROVE  StoreInv' /\ rows' = rows /\ branchRows' = branchRows
    BY <2>3, MakeKeeps DEF MakeFact
  <2>4. ASSUME NEW s \in Sides, held[s] # None, NEW n \in DOMAIN held[s], AddFact(s, n)
        PROVE  StoreInv' /\ Range(rows) \subseteq Range(rows') /\ branchRows' = branchRows
    BY <2>4, AddKeeps
  <2>5. ASSUME SaveNextFact
        PROVE  StoreInv' /\ Range(rows) \subseteq Range(rows') /\ branchRows' = branchRows
    BY <2>5, SaveNextKeeps
  <2>6. ASSUME CreateBranchReturns
        PROVE  StoreInv' /\ rows' = rows /\ branchRows' = branchRows
    BY <2>6, ReturnKeeps DEF CreateBranchReturns
  <2>7. ASSUME StoreCrash
        PROVE  StoreInv' /\ rows' = rows /\ branchRows' = branchRows
    BY <2>7, CrashKeeps DEF StoreCrash
  <2> QED
    BY <1>2, <2>1, <2>2, <2>3, <2>4, <2>5, <2>6, <2>7 DEF UseStore
<1>3. ASSUME NEW s \in Sides, LoadBranch(s)
      PROVE  StoreInv' /\ rows' = rows /\ branchRows' = branchRows
  BY <1>3, LoadKeeps DEF LoadBranch
<1> QED
  BY <1>1, <1>2, <1>3 DEF StoredNext, Scan, LoadAndScan, storedVars

LEMMA StoreStart == StoreInit => StoreInv
<1> SUFFICES ASSUME StoreInit PROVE StoreInv
  OBVIOUS
<1>1. /\ branchRows = {} /\ rows = <<>> /\ held = [s \in Sides |-> None] /\ saving = NotSaving
      /\ disturbed = {} /\ made = 0
  BY DEF StoreInit
<1>2. None \notin Sides
  BY NoneAssumption DEF Branches
<1>3. StoreTypeOK /\ SaveOK /\ StoredInOrder /\ EachOnce
  BY <1>1, <1>2 DEF StoreTypeOK, SaveOK, StoredInOrder, EachOnce, OneToOne, NotSaving, Idle
<1>4. \A f : f \notin Known(rows, held)
  <2>1. \A f : f \notin Range(rows)
    BY <1>1 DEF Range
  <2> QED
    BY <1>1, <2>1, WhereKnown
<1> QED
  BY <1>3, <1>4 DEF StoreInv, Identified

\* The invariant of the tables and of the branches in memory.
LEMMA StoreInductive == StoredSpec => []StoreInv
<1>1. StoredInit => StoreInv
  BY StoreStart DEF StoredInit
<1>2. StoreInv /\ [StoredNext]_storedVars => StoreInv'
  BY StoreStep
<1> QED
  BY <1>1, <1>2, PTL DEF StoredSpec

\* No call of the store, and no crash in the middle of one, takes a stored fact
\* or a stored branch away or changes it.
THEOREM NothingIsLost == StoredSpec => NothingStoredIsLost
<1>1. StoreInv /\ [StoredNext]_storedVars =>
          [Range(rows) \subseteq Range(rows') /\ branchRows \subseteq branchRows']_storeVars
  BY StoreStep
<1> QED
  BY <1>1, StoreInductive, PTL DEF StoredSpec, NothingStoredIsLost

-----------------------------------------------------------------------------
(* The loop that reads a branch.                                            *)

\* A call of current_facts_by_key on a list of facts.
ScanStarted ==
    facts \in Seq(Fact) /\ i = 0 /\ current = [k \in Keys |-> 0] /\ done = FALSE

ScanInv == TypeOK /\ PrefixCurrent /\ (done => i = Len(facts))

LEMMA ScanStart == ScanStarted => ScanInv
<1> SUFFICES ASSUME ScanStarted PROVE ScanInv
  OBVIOUS
<1>1. facts \in Seq(Fact) /\ i = 0 /\ ~done /\ done \in BOOLEAN
  BY DEF ScanStarted
<1>2. i \in 0..Len(facts)
  BY <1>1
<1>3. current \in [Keys -> 0..i]
  BY <1>2 DEF ScanStarted
<1>4. TypeOK
  BY <1>1, <1>2, <1>3 DEF TypeOK
<1>5. PrefixCurrent
  <2> SUFFICES ASSUME NEW k \in Keys
               PROVE  current[k] = 0 /\ \A j \in 1..i : facts[j].key # k
    BY DEF PrefixCurrent
  <2>1. current = [x \in Keys |-> 0]
    BY DEF ScanStarted
  <2> QED
    BY <1>1, <2>1
<1> QED
  BY <1>1, <1>4, <1>5 DEF ScanInv

LEMMA StepTyped ==
    ASSUME TypeOK, [Next]_vars
    PROVE  TypeOK'
<1> USE DEF TypeOK
<1>1. CASE Keep
  <2>1. i + 1 \in DOMAIN facts /\ i + 1 \in 0..Len(facts)
    BY <1>1 DEF Keep
  <2>2. facts[i + 1].key \in Keys
    BY <2>1, FactFields
  <2> QED
    BY <1>1, <2>1, <2>2 DEF Keep
<1>2. CASE Skip
  BY <1>2 DEF Skip
<1>3. CASE Return
  BY <1>3 DEF Return
<1>4. CASE UNCHANGED vars
  BY <1>4 DEF vars
<1> QED
  BY <1>1, <1>2, <1>3, <1>4 DEF Next

\* The loop's invariant: after i iterations the dict holds the latest fact of
\* every key seen so far.
LEMMA StepPrefix ==
    ASSUME TypeOK, PrefixCurrent, [Next]_vars
    PROVE  PrefixCurrent'
<1> SUFFICES ASSUME NEW k \in Keys
             PROVE  IF current'[k] = 0
                    THEN \A j \in 1..i' : facts'[j].key # k
                    ELSE IsLatest(facts', k, 1..i', current'[k])
  BY DEF PrefixCurrent
<1> DEFINE f == facts[i + 1]
<1>1. /\ i \in Nat /\ Len(facts) \in Nat
      /\ DOMAIN facts = 1..Len(facts)
      /\ \A j \in 1..Len(facts) : facts[j].key \in Keys /\ facts[j].ts \in Nat
  BY FactFields DEF TypeOK
<1>2. current[k] \in 0..i
  BY DEF TypeOK
<1>3. IF current[k] = 0 THEN \A j \in 1..i : facts[j].key # k
      ELSE IsLatest(facts, k, 1..i, current[k])
  BY DEF PrefixCurrent
<1>4. CASE Keep
  <2>1. /\ facts' = facts /\ i' = i + 1 /\ i + 1 \in 1..Len(facts)
        /\ current' = [current EXCEPT ![f.key] = i + 1]
        /\ current[f.key] # 0 => f.ts > facts[current[f.key]].ts
    BY <1>1, <1>4 DEF Keep, Supersedes, TypeOK
  <2>2. CASE k = f.key
    <3>1. current'[k] = i + 1
      BY <2>1, <2>2 DEF TypeOK
    <3>2. IsLatest(facts, k, 1..(i + 1), i + 1)
      BY <1>1, <1>2, <1>3, <2>1, <2>2 DEF IsLatest
    <3> QED
      BY <1>1, <2>1, <3>1, <3>2
  <2>3. CASE k # f.key
    <3>1. current'[k] = current[k]
      BY <2>1, <2>3 DEF TypeOK
    <3> QED
      BY <1>1, <1>2, <1>3, <2>1, <2>3, <3>1 DEF IsLatest
  <2> QED
    BY <2>2, <2>3
<1>5. CASE Skip
  <2>1. /\ facts' = facts /\ i' = i + 1 /\ i + 1 \in 1..Len(facts) /\ current' = current
        /\ current[f.key] # 0 /\ ~(f.ts > facts[current[f.key]].ts)
    BY <1>1, <1>5 DEF Skip, Supersedes, TypeOK
  <2> QED
    BY <1>1, <1>2, <1>3, <2>1 DEF IsLatest
<1>6. CASE Return
  BY <1>3, <1>6 DEF Return
<1>7. CASE UNCHANGED vars
  BY <1>3, <1>7 DEF vars
<1> QED
  BY <1>4, <1>5, <1>6, <1>7 DEF Next

\* done is set only when the whole list has been visited.
LEMMA ScanStep ==
    ASSUME ScanInv, [Next]_vars
    PROVE  ScanInv'
<1>1. TypeOK' /\ PrefixCurrent'
  BY StepTyped, StepPrefix DEF ScanInv
<1>2. i < Len(facts) => i # Len(facts)
  BY DEF ScanInv, TypeOK
<1>3. (done => i = Len(facts))'
  <2>1. CASE Keep
    BY <1>2, <2>1 DEF Keep, ScanInv
  <2>2. CASE Skip
    BY <1>2, <2>2 DEF Skip, ScanInv
  <2>3. CASE Return
    BY <2>3 DEF Return
  <2>4. CASE UNCHANGED vars
    BY <2>4 DEF vars, ScanInv
  <2> QED
    BY <2>1, <2>2, <2>3, <2>4 DEF Next
<1> QED
  BY <1>1, <1>3 DEF ScanInv

\* Once the prefix is the whole list, uniqueness of the latest fact makes the
\* loop's result that of max().
LEMMA ScanEnd == ScanInv => ReturnsCurrent
<1> SUFFICES ASSUME ScanInv, done
             PROVE  /\ KeysOf(facts) = {k \in Keys : current[k] # 0}
                    /\ \A k \in KeysOf(facts) : facts[current[k]] = CurrentFact(facts, k)
  BY DEF ReturnsCurrent
<1>1. DOMAIN facts = 1..i /\ facts \in Seq(Fact) /\ PrefixCurrent
  BY DEF ScanInv, TypeOK
<1>2. KeysOf(facts) \subseteq Keys
  BY <1>1, FactFields DEF KeysOf
<1>3. \A k \in Keys : current[k] # 0 <=> k \in KeysOf(facts)
  BY <1>1 DEF PrefixCurrent, KeysOf, IsLatest
<1>4. ASSUME NEW k \in KeysOf(facts)
      PROVE  facts[current[k]] = CurrentFact(facts, k)
  <2>1. IsLatest(facts, k, DOMAIN facts, current[k]) /\ current[k] \in DOMAIN facts
    BY <1>1, <1>2, <1>3 DEF PrefixCurrent, IsLatest
  <2> QED
    BY <1>1, <2>1, CurrentIsLatest
<1> QED
  BY <1>2, <1>3, <1>4

\* The loop's invariant holds in every call, on any list of facts.
THEOREM ScanInductive == Spec => []ScanInv
<1>1. Init => ScanStarted
  BY InputsAssumption DEF Init, ScanStarted
<1>2. ScanInv /\ [Next]_vars => ScanInv'
  BY ScanStep
<1> QED
  BY <1>1, <1>2, ScanStart, PTL DEF Spec

\* And in every call on a branch that was loaded from the store.
LEMMA StoredScanInductive == StoredSpec => []ScanInv
<1>1. StoredInit => ScanStarted
  BY InputsAssumption DEF StoredInit, Init, ScanStarted
<1>2. StoreInv /\ ScanInv /\ [StoredNext]_storedVars => ScanInv' \/ ScanStarted'
  <2> SUFFICES ASSUME StoreInv, ScanInv, [StoredNext]_storedVars
               PROVE  ScanInv' \/ ScanStarted'
    OBVIOUS
  <2>1. CASE [Next]_vars
    BY <2>1, ScanStep
  <2>2. ASSUME NEW s \in Sides, LoadBranch(s),
               facts' = held'[s], i' = 0, current' = [k \in Keys |-> 0], done' = FALSE
        PROVE  ScanStarted'
    BY <2>2, LoadKeeps DEF ScanStarted
  <2> QED
    BY <2>1, <2>2 DEF StoredNext, Scan, LoadAndScan, storedVars, vars
<1> QED
  BY <1>1, <1>2, ScanStart, StoreInductive, PTL DEF StoredSpec

\* The two ways the code has to find a current fact, the merges' loop and the
\* simulator's max(), agree on every list there can be, and so on every branch
\* that is loaded.
THEOREM ScanReturnsCurrent == /\ Spec => []ReturnsCurrent
                              /\ StoredSpec => []ReturnsCurrent
<1>1. Spec => []ReturnsCurrent
  BY ScanInductive, ScanEnd, PTL
<1>2. StoredSpec => []ReturnsCurrent
  BY StoredScanInductive, ScanEnd, PTL
<1> QED
  BY <1>1, <1>2

-----------------------------------------------------------------------------
(* What a branch that is loaded again says.                                 *)

\* The rows and the list of a branch with the same facts are in bijection.
LEMMA SameRows ==
    ASSUME StoreInv, NEW s \in Sides, SameFacts(s)
    PROVE  /\ held[s] \in Seq(Fact) /\ OneToOne(held[s])
           /\ Timed(rows, BranchRowsOf(s)) /\ Timed(held[s], DOMAIN held[s])
           /\ \A p \in BranchRowsOf(s) : rows[p] \in Fact
           /\ \A n \in DOMAIN held[s] : held[s][n] \in Fact
           /\ \A p \in BranchRowsOf(s) : \E n \in DOMAIN held[s] : held[s][n] = rows[p]
           /\ \A n \in DOMAIN held[s] : \E p \in BranchRowsOf(s) : held[s][n] = rows[p]
<1> DEFINE P == BranchRowsOf(s)
           list == held[s]
<1>1. /\ list # None /\ list \in Seq(Fact) /\ OneToOne(list)
      /\ Range(list) = {rows[n] : n \in P}
  BY DEF SameFacts, StoreInv, StoreTypeOK, EachOnce
<1>2. Timed(rows, P) /\ \A p \in P : rows[p] \in Fact
  <2>1. P \in SUBSET (DOMAIN rows)
    BY DEF BranchRowsOf
  <2> HIDE DEF P
  <2> QED
    BY <2>1, BranchRowsOK DEF StoreInv
<1> HIDE DEF P, list
<1>3. Timed(list, DOMAIN list) /\ \A n \in DOMAIN list : list[n] \in Fact
  <2>1. DOMAIN list = 1..Len(list) /\ Len(list) \in Nat
    BY <1>1
  <2>2. IsFiniteSet(DOMAIN list)
    BY <2>1, FS_Interval
  <2> QED
    BY <1>1, <2>1, <2>2, FactFields DEF Timed
<1>4. \A p \in P : \E n \in DOMAIN list : list[n] = rows[p]
  BY <1>1 DEF Range
<1>5. \A n \in DOMAIN list : \E p \in P : list[n] = rows[p]
  BY <1>1 DEF Range
<1> QED
  BY <1>1, <1>2, <1>3, <1>4, <1>5 DEF P, list

\* After a create_branch that ended, the branch that is loaded next is the list
\* that was saved, sorted by its timestamps: crashes, partial saves and single
\* inserts before it leave no trace.
THEOREM SavesRepair == StoredSpec => []SaveRepairs
<1>1. StoreInv => SaveRepairs
  <2> SUFFICES ASSUME StoreInv, NEW s \in Sides, Idle, SameFacts(s), s \notin disturbed
               PROVE  BranchFacts(s) = OrderByTimestamp(held[s], DOMAIN held[s])
    BY DEF SaveRepairs
  <2> DEFINE P == BranchRowsOf(s)
             list == held[s]
             Q == DOMAIN list
             b == [p \in P |-> CHOOSE n \in Q : list[n] = rows[p]]
  <2>1. /\ list \in Seq(Fact) /\ OneToOne(list)
        /\ Timed(rows, P) /\ Timed(list, Q)
        /\ \A p \in P : \E n \in Q : list[n] = rows[p]
        /\ \A n \in Q : \E p \in P : list[n] = rows[p]
    BY SameRows
  <2>2. InOrder(rows, list)
    <3>1. saving.side # s
      BY SavingSides
    <3> QED
      BY <3>1 DEF StoreInv, StoredInOrder, SameFacts
  <2>3. P \subseteq DOMAIN rows /\ OneToOne(rows) /\ DOMAIN rows \subseteq Nat /\ Q \subseteq Nat
    BY <2>1 DEF BranchRowsOf, StoreInv, EachOnce, StoreTypeOK
  <2>4. BranchFacts(s) = OrderByTimestamp(rows, P)
    BY DEF BranchFacts
  <2> HIDE DEF P, Q, list
  <2>5. \A p \in P : b[p] \in Q /\ list[b[p]] = rows[p]
    BY <2>1
  <2>6. \A p, q \in P : b[p] = b[q] => p = q
    BY <2>3, <2>5 DEF OneToOne
  <2>7. \A n \in Q : \E p \in P : b[p] = n
    <3> SUFFICES ASSUME NEW n \in Q PROVE \E p \in P : b[p] = n
      OBVIOUS
    <3>1. PICK p \in P : list[n] = rows[p]
      BY <2>1
    <3>2. b[p] \in Q /\ list[b[p]] = list[n]
      BY <2>5, <3>1
    <3> HIDE DEF b
    <3>3. b[p] = n
      BY <2>1, <3>2 DEF OneToOne, Q
    <3> QED
      BY <3>3
  <2>8. b \in Bijection(P, Q)
    <3>1. b \in [P -> Q]
      BY <2>5
    <3> HIDE DEF b
    <3> QED
      BY <2>6, <2>7, <3>1 DEF Bijection, Injection, Surjection, IsInjective
  <2> HIDE DEF b
  \* The rows of one timestamp are in the order of the list.
  <2>9. ASSUME NEW p \in P, NEW q \in P, rows[p].ts = rows[q].ts, b[p] < b[q]
        PROVE  p < q
    <3>1. b[p] \in Q /\ b[q] \in Q /\ list[b[p]] = rows[p] /\ list[b[q]] = rows[q]
      BY <2>5
    <3>2. rows[p] \in Range(rows) /\ rows[q] \in Range(rows)
      BY <2>3 DEF Range
    <3>3. Precedes(rows, rows[p], rows[q])
      BY <2>2, <2>9, <3>1, <3>2 DEF InOrder, Q
    <3>4. PICK m, n \in DOMAIN rows : m < n /\ rows[m] = rows[p] /\ rows[n] = rows[q]
      BY <3>3 DEF Precedes
    <3>5. m = p /\ n = q
      BY <2>3, <3>4 DEF OneToOne
    <3> QED
      BY <3>4, <3>5
  <2>10. ASSUME NEW p \in P, NEW q \in P
         PROVE  Sooner(rows, p, q) <=> Sooner(list, b[p], b[q])
    <3>1. /\ list[b[p]].ts = rows[p].ts /\ list[b[q]].ts = rows[q].ts
          /\ p \in Nat /\ q \in Nat /\ b[p] \in Nat /\ b[q] \in Nat
      BY <2>3, <2>5
    <3>2. rows[p].ts = rows[q].ts => (p < q <=> b[p] < b[q])
      <4> SUFFICES ASSUME rows[p].ts = rows[q].ts PROVE p < q <=> b[p] < b[q]
        OBVIOUS
      <4>1. CASE b[p] < b[q]
        BY <2>9, <4>1
      <4>2. CASE b[q] < b[p]
        <5>1. q < p
          BY <2>9, <4>2
        <5> QED
          BY <3>1, <4>2, <5>1
      <4>3. CASE b[p] = b[q]
        BY <2>6, <3>1, <4>3
      <4> QED
        BY <3>1, <4>1, <4>2, <4>3
    <3> QED
      BY <3>1, <3>2 DEF Sooner
  <2>11. OrderByTimestamp(rows, P) = OrderByTimestamp(list, Q)
    BY <2>1, <2>5, <2>8, <2>10, SameOrder
  <2> QED
    BY <2>4, <2>11 DEF list, Q
<1> QED
  BY <1>1, StoreInductive, PTL

\* What the merges read from a branch, with the branch or by key, does not
\* change by storing it and loading it again.
THEOREM CurrentDoesSurvive == StoredSpec => []CurrentSurvives
<1>1. StoreInv /\ SaveRepairs => CurrentSurvives
  <2> SUFFICES ASSUME StoreInv, SaveRepairs, NEW s \in Sides, Idle, SameFacts(s),
                      NEW k \in KeysOf(held[s])
               PROVE  LET reread == CurrentFact(BranchFacts(s), k) IN
                      /\ reread = CurrentFact(FactsByKey(s, k), k)
                      /\ reread.ts = CurrentFact(held[s], k).ts
                      /\ s \notin disturbed => reread = CurrentFact(held[s], k)
    BY DEF CurrentSurvives
  <2> DEFINE P == BranchRowsOf(s)
             R == {n \in P : rows[n].key = k}
             list == held[s]
             reread == CurrentFact(BranchFacts(s), k)
  <2>1. /\ list \in Seq(Fact) /\ Timed(rows, P) /\ Timed(list, DOMAIN list)
        /\ \A p \in P : rows[p] \in Fact
        /\ \A n \in DOMAIN list : list[n] \in Fact
        /\ \A p \in P : \E n \in DOMAIN list : list[n] = rows[p]
        /\ \A n \in DOMAIN list : \E p \in P : list[n] = rows[p]
    BY SameRows
  <2>2. P \in SUBSET (DOMAIN rows) /\ rows \in Seq(Fact)
    BY DEF BranchRowsOf, StoreInv, StoreTypeOK
  <2>3. BranchFacts(s) = OrderByTimestamp(rows, P) /\ FactsByKey(s, k) = OrderByTimestamp(rows, R)
    BY DEF BranchFacts, FactsByKey
  <2>4. \E n \in DOMAIN list : list[n].key = k
    BY DEF KeysOf
  <2> HIDE DEF P, list
  <2>5. k \in {rows[n].key : n \in P}
    BY <2>1, <2>4
  <2>6. PICK p \in P : IsLatest(rows, k, P, p) /\ reread = rows[p]
    BY <2>1, <2>3, <2>5, OrderedLatest
  <2> HIDE DEF reread
  <2>7. reread = CurrentFact(FactsByKey(s, k), k)
    <3>1. Timed(rows, R) /\ \A n \in R : rows[n] \in Fact
      <4>1. R \in SUBSET (DOMAIN rows)
        BY <2>2
      <4> HIDE DEF R
      <4> QED
        BY <4>1, BranchRowsOK DEF StoreInv
    <3>2. k \in {rows[n].key : n \in R}
      BY <2>5
    <3>3. \A n : IsLatest(rows, k, R, n) => IsLatest(rows, k, P, n)
      BY DEF IsLatest
    <3> HIDE DEF R
    <3>4. PICK n \in R : IsLatest(rows, k, R, n) /\ CurrentFact(OrderByTimestamp(rows, R), k) = rows[n]
      BY <3>1, <3>2, OrderedLatest
    <3>5. n = p
      BY <2>2, <2>6, <3>3, <3>4, LatestUnique
    <3> QED
      BY <2>3, <2>6, <3>4, <3>5
  <2>8. PICK n \in DOMAIN list : IsLatest(list, k, DOMAIN list, n) /\ CurrentFact(list, k) = list[n]
    <3>1. k \in KeysOf(list)
      BY DEF list
    <3>2. PICK n \in DOMAIN list : IsLatest(list, k, DOMAIN list, n)
      BY <2>1, <3>1, LatestExists
    <3> QED
      BY <2>1, <3>2, CurrentIsLatest
  <2>9. reread.ts = CurrentFact(list, k).ts
    <3>1. PICK m \in DOMAIN list : list[m] = rows[p]
      BY <2>1
    <3>2. PICK q \in P : list[n] = rows[q]
      BY <2>1
    <3>3. list[m].ts <= list[n].ts
      <4>1. list[m].key = k
        BY <2>6, <3>1 DEF IsLatest
      <4>2. list[m].ts < list[n].ts \/ list[m].ts = list[n].ts
        BY <2>8, <4>1 DEF IsLatest
      <4>3. list[m].ts \in Nat /\ list[n].ts \in Nat
        BY <2>1 DEF Timed
      <4> QED
        BY <4>2, <4>3
    <3>4. rows[q].ts <= rows[p].ts
      <4>1. rows[q].key = k
        BY <2>8, <3>2 DEF IsLatest
      <4>2. rows[q].ts < rows[p].ts \/ rows[q].ts = rows[p].ts
        BY <2>6, <4>1 DEF IsLatest
      <4>3. rows[q].ts \in Nat /\ rows[p].ts \in Nat
        BY <2>1 DEF Timed
      <4> QED
        BY <4>2, <4>3
    <3>5. rows[p].ts \in Nat /\ rows[q].ts \in Nat
      BY <2>1 DEF Timed
    <3> QED
      BY <2>6, <2>8, <3>1, <3>2, <3>3, <3>4, <3>5
  <2>10. ASSUME s \notin disturbed PROVE reread = CurrentFact(list, k)
    <3>1. BranchFacts(s) = OrderByTimestamp(list, DOMAIN list)
      BY <2>10 DEF SaveRepairs, list
    <3>2. k \in {list[m].key : m \in DOMAIN list}
      BY <2>4
    <3>3. PICK m \in DOMAIN list :
              IsLatest(list, k, DOMAIN list, m)
              /\ CurrentFact(OrderByTimestamp(list, DOMAIN list), k) = list[m]
      BY <2>1, <3>2, OrderedLatest
    <3>4. m = n
      BY <2>1, <2>8, <3>3, LatestUnique
    <3> QED
      BY <2>8, <3>1, <3>3, <3>4 DEF reread
  <2> QED
    BY <2>7, <2>9, <2>10 DEF reread, list
<1> QED
  BY <1>1, StoreInductive, SavesRepair, PTL
=============================================================================
