--------------------------- MODULE MemoryLemmas ---------------------------
(* Facts about the current fact of a key, and about what a merge is given,  *)
(* that the proofs about branches and merges rest on.                       *)
EXTENDS MergeBase, TLAPS, WellFoundedInduction

\* The fields of a fact in a list that the code compares.
LEMMA FactFields ==
    ASSUME NEW facts \in Seq(Fact), NEW i \in DOMAIN facts
    PROVE  facts[i] \in Fact /\ facts[i].key \in Keys /\ facts[i].ts \in Nat
<1>1. facts[i] \in Fact
  OBVIOUS
<1> QED
  BY <1>1 DEF Fact

\* A set of numbers that is not empty has a least one.
LEMMA LeastNumber ==
    ASSUME NEW T \in SUBSET Nat, T # {}
    PROVE  \E n \in T : \A m \in T : n <= m
<1>1. IsWellFoundedOn(OpToRel(<, Nat), Nat)
  BY NatLessThanWellFounded
<1>2. PICK n \in T : \A m \in T : ~(<<m, n>> \in OpToRel(<, Nat))
  BY <1>1, WFMin
<1>3. \A m \in T : ~(m < n)
  BY <1>2 DEF OpToRel
<1> QED
  BY <1>3

\* Least picks a member.
LEMMA LeastIn ==
    ASSUME NEW T \in SUBSET Nat, T # {}
    PROVE  Least(T) \in T
<1>1. \E n \in T : \A m \in T : n <= m
  BY LeastNumber
<1> QED
  BY <1>1 DEF Least

\* A set of positions of a sequence that is not empty has a last one.
LEMMA LastPosition ==
    ASSUME NEW n \in Nat, NEW T \in SUBSET (1..n), T # {}
    PROVE  \E i \in T : \A j \in T : j <= i
<1> DEFINE D == {d \in Nat : \E i \in T : d = n - i}
<1>1. D \in SUBSET Nat /\ D # {}
  <2>1. PICK i \in T : TRUE
    OBVIOUS
  <2>2. n - i \in Nat
    BY <2>1
  <2> QED
    BY <2>1, <2>2
<1>2. PICK d \in D : \A e \in D : d <= e
  <2> HIDE DEF D
  <2> QED
    BY <1>1, LeastNumber
<1>3. PICK i \in T : d = n - i
  BY <1>2
<1>4. ASSUME NEW j \in T PROVE j <= i
  <2>1. i \in Nat /\ j \in Nat /\ n - j \in D
    BY <1>4
  <2>2. n - i <= n - j
    BY <1>2, <1>3, <2>1
  <2> QED
    BY <2>1, <2>2
<1> QED
  BY <1>3, <1>4

\* Every key of a list has a latest fact, for any list.  The proof takes the
\* shortest prefix that would be a counterexample.
LEMMA LatestExists ==
    ASSUME NEW facts \in Seq(Fact), NEW k \in KeysOf(facts)
    PROVE  \E i \in DOMAIN facts : IsLatest(facts, k, DOMAIN facts, i)
<1> DEFINE Has(n) == \E i \in 1..n : facts[i].key = k
           Latest(n) == \E i \in 1..n : IsLatest(facts, k, 1..n, i)
           Bad == {n \in 0..Len(facts) : Has(n) /\ ~Latest(n)}
<1>1. \A i \in 1..Len(facts) : facts[i].ts \in Nat
  BY FactFields
<1>2. Bad = {}
  <2> SUFFICES ASSUME Bad # {} PROVE FALSE
    OBVIOUS
  <2>1. PICK n \in Bad : \A m \in Bad : n <= m
    <3>1. Bad \in SUBSET Nat
      OBVIOUS
    <3> HIDE DEF Bad
    <3> QED
      BY <3>1, LeastNumber
  <2>2. n \in Nat /\ n # 0 /\ n <= Len(facts) /\ Has(n) /\ ~Latest(n)
    OBVIOUS
  <2>3. ~(Has(n - 1) /\ ~Latest(n - 1))
    BY <2>1, <2>2
  <2>4. CASE ~Has(n - 1)
    <3>1. facts[n].key = k /\ \A j \in 1..n : facts[j].key = k => j = n
      BY <2>2, <2>4
    <3>2. IsLatest(facts, k, 1..n, n)
      BY <1>1, <2>2, <3>1 DEF IsLatest
    <3> QED
      BY <2>2, <3>2
  <2>5. CASE Has(n - 1)
    <3>1. PICK i \in 1..(n - 1) : IsLatest(facts, k, 1..(n - 1), i)
      BY <2>2, <2>3, <2>5
    <3>2. /\ facts[i].key = k /\ i \in 1..n /\ facts[i].ts \in Nat /\ facts[n].ts \in Nat
          /\ \A j \in 1..(n - 1) : facts[j].key = k =>
                 \/ facts[j].ts < facts[i].ts
                 \/ facts[j].ts = facts[i].ts /\ i <= j
      BY <1>1, <2>2, <3>1 DEF IsLatest
    <3>3. \A j \in 1..n : j \in 1..(n - 1) \/ j = n
      BY <2>2
    <3>4. CASE facts[n].key = k /\ facts[n].ts > facts[i].ts
      <4>1. ASSUME NEW j \in 1..(n - 1), facts[j].key = k
            PROVE  facts[j].ts < facts[n].ts
        <5>1. facts[j].ts \in Nat
          BY <1>1, <2>2
        <5>2. facts[j].ts <= facts[i].ts
          BY <3>2, <4>1, <5>1
        <5> QED
          BY <3>2, <3>4, <5>1, <5>2
      <4>2. IsLatest(facts, k, 1..n, n)
        <5>1. n \in 1..n
          BY <2>2
        <5>2. \A j \in 1..n : j \in 1..(n - 1) \/ (j = n /\ n <= j)
          BY <2>2
        <5>3. \A j \in 1..n : facts[j].key = k =>
                  \/ facts[j].ts < facts[n].ts
                  \/ facts[j].ts = facts[n].ts /\ n <= j
          BY <4>1, <5>2
        <5> QED
          BY <3>4, <5>1, <5>3 DEF IsLatest
      <4> QED
        BY <2>2, <4>2
    <3>5. CASE ~(facts[n].key = k /\ facts[n].ts > facts[i].ts)
      <4>1. \A j \in 1..n : facts[j].key = k =>
                \/ facts[j].ts < facts[i].ts
                \/ facts[j].ts = facts[i].ts /\ i <= j
        BY <2>2, <3>2, <3>3, <3>5
      <4> QED
        BY <2>2, <3>2, <4>1 DEF IsLatest
    <3> QED
      BY <3>4, <3>5
  <2> QED
    BY <2>4, <2>5
<1>3. DOMAIN facts = 1..Len(facts) /\ Len(facts) \in Nat
  OBVIOUS
<1>4. Has(Len(facts))
  BY <1>3 DEF KeysOf
<1>5. Latest(Len(facts))
  BY <1>2, <1>3, <1>4
<1> QED
  BY <1>3, <1>5

\* Two positions cannot both hold the latest fact of a key.
LEMMA LatestUnique ==
    ASSUME NEW facts \in Seq(Fact), NEW k, NEW I \in SUBSET (DOMAIN facts),
           NEW i, NEW j, IsLatest(facts, k, I, i), IsLatest(facts, k, I, j)
    PROVE  i = j
<1>1. i \in DOMAIN facts /\ j \in DOMAIN facts
  BY DEF IsLatest
<1>2. i \in Nat /\ j \in Nat /\ facts[i].ts \in Nat /\ facts[j].ts \in Nat
  BY <1>1, FactFields
<1> QED
  BY <1>2 DEF IsLatest

\* What max() or the loop over a branch finds for a key is a fact of that key.
LEMMA CurrentFactKey ==
    ASSUME NEW facts \in Seq(Fact), NEW k \in KeysOf(facts)
    PROVE  CurrentFact(facts, k) \in Fact /\ CurrentFact(facts, k).key = k
<1>1. PICK i \in DOMAIN facts : IsLatest(facts, k, DOMAIN facts, i)
  BY LatestExists
<1>2. CurrentFact(facts, k) = facts[CHOOSE n \in DOMAIN facts : IsLatest(facts, k, DOMAIN facts, n)]
  BY DEF CurrentFact
<1>3. PICK n \in DOMAIN facts : CurrentFact(facts, k) = facts[n] /\ IsLatest(facts, k, DOMAIN facts, n)
  BY <1>1, <1>2
<1> QED
  BY <1>3, FactFields DEF IsLatest

\* The current fact of a key is one of the list.
LEMMA CurrentFactListed ==
    ASSUME NEW facts \in Seq(Fact), NEW k \in KeysOf(facts)
    PROVE  \E i \in DOMAIN facts : CurrentFact(facts, k) = facts[i]
<1>1. PICK i \in DOMAIN facts : IsLatest(facts, k, DOMAIN facts, i)
  BY LatestExists
<1> QED
  BY <1>1 DEF CurrentFact

\* The current fact of a list is the latest one, by its position.
LEMMA CurrentIsLatest ==
    ASSUME NEW facts \in Seq(Fact), NEW i \in DOMAIN facts, NEW k,
           IsLatest(facts, k, DOMAIN facts, i)
    PROVE  CurrentFact(facts, k) = facts[i]
<1> DEFINE j == CHOOSE n \in DOMAIN facts : IsLatest(facts, k, DOMAIN facts, n)
<1>1. j \in DOMAIN facts /\ IsLatest(facts, k, DOMAIN facts, j)
  OBVIOUS
<1> HIDE DEF j
<1>2. i = j
  BY <1>1, LatestUnique
<1> QED
  BY <1>2 DEF CurrentFact, j

\* Two lists of the same keys in the same places, of timestamps in the same
\* order, have their current facts in the same places.
LEMMA SameLatest ==
    ASSUME NEW facts \in Seq(Fact), NEW copies, DOMAIN copies = DOMAIN facts,
           \A n \in DOMAIN facts : copies[n].key = facts[n].key,
           \A m, n \in DOMAIN facts :
               /\ copies[m].ts < copies[n].ts <=> facts[m].ts < facts[n].ts
               /\ copies[m].ts = copies[n].ts <=> facts[m].ts = facts[n].ts
    PROVE  /\ KeysOf(copies) = KeysOf(facts)
           /\ \A k \in KeysOf(facts) : \E i \in DOMAIN facts :
                  CurrentFact(facts, k) = facts[i] /\ CurrentFact(copies, k) = copies[i]
<1>1. KeysOf(copies) = KeysOf(facts)
  BY DEF KeysOf
<1>2. ASSUME NEW k \in KeysOf(facts)
      PROVE  \E i \in DOMAIN facts :
                 CurrentFact(facts, k) = facts[i] /\ CurrentFact(copies, k) = copies[i]
  <2> DEFINE D == DOMAIN facts
             j == CHOOSE n \in D : IsLatest(copies, k, D, n)
  <2>1. \A n \in D : IsLatest(copies, k, D, n) <=> IsLatest(facts, k, D, n)
    BY DEF IsLatest
  <2>2. \E n \in D : IsLatest(facts, k, D, n)
    BY LatestExists
  <2>3. j \in D /\ IsLatest(facts, k, D, j)
    BY <2>1, <2>2
  <2>4. CurrentFact(copies, k) = copies[j]
    BY DEF CurrentFact
  <2> HIDE DEF j
  <2>5. CurrentFact(facts, k) = facts[j]
    BY <2>3, CurrentIsLatest
  <2> QED
    BY <2>3, <2>4, <2>5
<1> QED
  BY <1>1, <1>2

\* A fact at the end of a list is current for its key if it is the first one or
\* strictly later than the current one, and changes nothing for other keys.
LEMMA CurrentAppended ==
    ASSUME NEW facts \in Seq(Fact), NEW f \in Fact
    PROVE  /\ Append(facts, f) \in Seq(Fact)
           /\ KeysOf(Append(facts, f)) = KeysOf(facts) \cup {f.key}
           /\ f.key \notin KeysOf(facts) => CurrentFact(Append(facts, f), f.key) = f
           /\ f.key \in KeysOf(facts) =>
                  CurrentFact(Append(facts, f), f.key) =
                      IF f.ts > CurrentFact(facts, f.key).ts THEN f ELSE CurrentFact(facts, f.key)
           /\ \A k \in KeysOf(facts) : k # f.key =>
                  CurrentFact(Append(facts, f), k) = CurrentFact(facts, k)
<1> DEFINE longer == Append(facts, f)
           last == Len(facts) + 1
<1>1. /\ longer \in Seq(Fact) /\ DOMAIN longer = DOMAIN facts \cup {last}
      /\ last \notin DOMAIN facts /\ DOMAIN facts = 1..(last - 1) /\ last \in Nat
      /\ longer[last] = f /\ \A n \in DOMAIN facts : longer[n] = facts[n]
  OBVIOUS
<1> HIDE DEF longer, last
<1>2. f.ts \in Nat /\ \A n \in DOMAIN facts : facts[n].ts \in Nat
  <2>1. f.ts \in Nat
    BY DEF Fact
  <2> QED
    BY <2>1, FactFields
<1>3. KeysOf(longer) = KeysOf(facts) \cup {f.key}
  BY <1>1 DEF KeysOf
<1>4. ASSUME f.key \notin KeysOf(facts) PROVE CurrentFact(longer, f.key) = f
  <2>1. \A n \in DOMAIN facts : facts[n].key # f.key
    BY <1>4 DEF KeysOf
  <2>2. IsLatest(longer, f.key, DOMAIN longer, last)
    BY <1>1, <1>2, <2>1 DEF IsLatest
  <2> QED
    BY <1>1, <2>2, CurrentIsLatest
<1>5. ASSUME NEW k \in KeysOf(facts)
      PROVE  CurrentFact(longer, k) = IF k = f.key /\ f.ts > CurrentFact(facts, k).ts
                                      THEN f ELSE CurrentFact(facts, k)
  <2>1. PICK i \in DOMAIN facts : IsLatest(facts, k, DOMAIN facts, i)
    BY LatestExists
  <2>2. CurrentFact(facts, k) = facts[i]
    BY <2>1, CurrentIsLatest
  <2>3. /\ facts[i].key = k
        /\ \A j \in DOMAIN facts : facts[j].key = k =>
               \/ facts[j].ts < facts[i].ts
               \/ facts[j].ts = facts[i].ts /\ i <= j
    BY <2>1 DEF IsLatest
  <2>4. CASE k = f.key /\ f.ts > facts[i].ts
    <3>1. \A j \in DOMAIN facts : facts[j].key = k => facts[j].ts < f.ts
      BY <1>2, <2>3, <2>4
    <3>2. IsLatest(longer, k, DOMAIN longer, last)
      BY <1>1, <2>4, <3>1 DEF IsLatest
    <3>3. CurrentFact(longer, k) = f
      BY <1>1, <3>2, CurrentIsLatest
    <3> QED
      BY <2>2, <2>4, <3>3
  <2>5. CASE ~(k = f.key /\ f.ts > facts[i].ts)
    <3>1. i <= last
      BY <1>1
    <3>2. f.key = k => f.ts < facts[i].ts \/ f.ts = facts[i].ts
      BY <1>2, <2>5
    <3>3. IsLatest(longer, k, DOMAIN longer, i)
      BY <1>1, <2>3, <3>1, <3>2 DEF IsLatest
    <3>4. CurrentFact(longer, k) = facts[i]
      BY <1>1, <3>3, CurrentIsLatest
    <3> QED
      BY <2>2, <2>5, <3>4
  <2> QED
    BY <2>4, <2>5
<1> QED
  BY <1>1, <1>3, <1>4, <1>5 DEF longer

\* The facts of an ancestor are facts, all of one time.
LEMMA AncestorOK ==
    ASSUME NEW p \in Seq([key : Keys, value : Values]), NEW t \in Nat
    PROVE  /\ AncestorFacts(p, t) \in Seq(Fact)
           /\ Len(AncestorFacts(p, t)) = Len(p)
           /\ \A n \in DOMAIN AncestorFacts(p, t) :
                  AncestorFacts(p, t)[n].ts = t
<1> DEFINE made(i) == [id |-> <<"root", i>>, key |-> p[i].key, value |-> p[i].value,
                       branch |-> "root", ts |-> t, conf |-> Certain, anc |-> None]
<1>1. DOMAIN p = 1..Len(p) /\ Len(p) \in Nat
  OBVIOUS
<1>2. \A i \in DOMAIN p : p[i].key \in Keys /\ p[i].value \in Values
  <2> DEFINE Pair0 == [key : Keys, value : Values]
  <2>1. p \in Seq(Pair0)
    OBVIOUS
  <2>2. \A x \in Pair0 : x.key \in Keys /\ x.value \in Values
    OBVIOUS
  <2> HIDE DEF Pair0
  <2>3. \A i \in DOMAIN p : p[i] \in Pair0
    BY <2>1
  <2> QED
    BY <2>2, <2>3
<1>3. ASSUME NEW i \in DOMAIN p PROVE made(i) \in Fact /\ made(i).ts = t
  <2>1. <<"root", i>> \in Ids /\ "root" \in Branches /\ Certain \in Nat
    BY <1>1 DEF Ids, Branches, Certain
  <2> QED
    BY <1>2, <2>1 DEF Fact
<1>4. AncestorFacts(p, t) = [i \in 1..Len(p) |-> made(i)]
  BY <1>1 DEF AncestorFacts
<1> HIDE DEF made
<1> QED
  BY <1>1, <1>3, <1>4

\* A fork's facts are the root's under other ids.
LEMMA ForkedOK ==
    ASSUME NEW facts0 \in Seq(Fact), NEW s \in Sides
    PROVE  /\ ForkedFacts(facts0, s) \in Seq(Fact)
           /\ DOMAIN ForkedFacts(facts0, s) = DOMAIN facts0
           /\ Len(ForkedFacts(facts0, s)) = Len(facts0)
           /\ \A n \in DOMAIN facts0 :
                  LET f == ForkedFacts(facts0, s)[n] IN
                  /\ f.id = <<s, n>> /\ f.branch = s /\ f.anc = facts0[n].id
                  /\ f.key = facts0[n].key /\ f.value = facts0[n].value /\ f.ts = facts0[n].ts
<1> DEFINE copy(i) == [facts0[i] EXCEPT !.id = <<s, i>>, !.branch = s, !.anc = facts0[i].id]
<1>1. DOMAIN facts0 = 1..Len(facts0) /\ Len(facts0) \in Nat
  OBVIOUS
<1>2. ASSUME NEW i \in DOMAIN facts0
      PROVE  /\ copy(i) \in Fact /\ copy(i).id = <<s, i>> /\ copy(i).branch = s
             /\ copy(i).anc = facts0[i].id /\ copy(i).key = facts0[i].key
             /\ copy(i).value = facts0[i].value /\ copy(i).ts = facts0[i].ts
  <2>1. facts0[i] \in Fact
    OBVIOUS
  <2>2. <<s, i>> \in Ids /\ s \in Branches
    BY <1>1 DEF Ids, Branches
  <2> QED
    BY <2>1, <2>2 DEF Fact
<1>3. ForkedFacts(facts0, s) = [i \in 1..Len(facts0) |-> copy(i)]
  BY <1>1 DEF ForkedFacts
<1> HIDE DEF copy
<1> QED
  BY <1>1, <1>2, <1>3

\* Both branches hold every key in collision, and keys are numbers.
LEMMA CollisionKeys ==
    ASSUME NEW sc, ScenarioOK(sc)
    PROVE  /\ CollisionsOf(sc) \subseteq KeysOf(sc.a) \cap KeysOf(sc.b)
           /\ CollisionsOf(sc) \subseteq AllKeys(sc)
           /\ AllKeys(sc) \subseteq Keys
           /\ AllKeys(sc) \subseteq Nat
<1>1. CollisionsOf(sc) \subseteq KeysOf(sc.a) \cap KeysOf(sc.b)
  BY DEF CollisionsOf, Collisions, CurrentFacts
<1>2. sc.a \in Seq(Fact) /\ sc.b \in Seq(Fact)
  BY DEF ScenarioOK
<1>3. \A i \in DOMAIN sc.a : sc.a[i].key \in Keys
  BY <1>2, FactFields
<1>4. \A i \in DOMAIN sc.b : sc.b[i].key \in Keys
  BY <1>2, FactFields
<1>5. AllKeys(sc) \subseteq Keys
  BY <1>3, <1>4 DEF AllKeys, KeysOf
<1> QED
  BY <1>1, <1>5, KeysAssumption DEF AllKeys

\* An entry for a settled key is well formed and about that key.
LEMMA SettledEntryOK ==
    ASSUME NEW sc, ScenarioOK(sc), NEW k \in AllKeys(sc)
    PROVE  SettledEntry(sc, k) \in ResolvedFact /\ SettledEntry(sc, k).fact.key = k
<1> DEFINE fact == IF k \in KeysOf(sc.a) THEN CurrentFact(sc.a, k) ELSE CurrentFact(sc.b, k)
           sources == IF k \in KeysOf(sc.a) \cap KeysOf(sc.b) THEN Sides ELSE {fact.branch}
<1>1. sc.a \in Seq(Fact) /\ sc.b \in Seq(Fact)
  BY DEF ScenarioOK
<1>2. k \in KeysOf(sc.a) \/ k \in KeysOf(sc.b)
  BY DEF AllKeys
<1>3. fact \in Fact /\ fact.key = k
  BY <1>1, <1>2, CurrentFactKey
<1>4. fact.branch \in Sides
  <2>1. \A i \in DOMAIN sc.a : sc.a[i].branch \in Sides
    BY DEF ScenarioOK, Sides
  <2>2. \A i \in DOMAIN sc.b : sc.b[i].branch \in Sides
    BY DEF ScenarioOK, Sides
  <2> QED
    BY <1>1, <1>2, <2>1, <2>2, CurrentFactListed
<1>5. sources \in SUBSET Sides
  BY <1>4
<1>6. SettledEntry(sc, k) = [fact |-> fact, resolution |-> "kept", sources |-> sources]
  BY DEF SettledEntry, Entry
<1> HIDE DEF fact, sources
<1> QED
  BY <1>3, <1>5, <1>6 DEF ResolvedFact, Resolutions
=============================================================================
