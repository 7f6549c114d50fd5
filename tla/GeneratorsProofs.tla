-------------------------- MODULE GeneratorsProofs --------------------------
(* What the three generators hand to the simulator, for all configurations, *)
(* templates and rows: diverge accepts it, and the scenario that comes out  *)
(* is the one that was meant.                                               *)
EXTENDS Generators, BranchSimProofs

-----------------------------------------------------------------------------
(* What every source keeps to.                                              *)

\* The fields, and that the simulator waits until it is called.
GenTypeOK ==
    /\ TypeOK
    /\ phase \in {"ancestor", "updates", "diverge", "no scenario", "out of keys", "out of values"}
    /\ phase # "diverge" =>
           pc = "fork" /\ applied = [s \in Sides |-> {}] /\ pairs = <<>>
    /\ phase = "ancestor" => root = <<>> /\ updates = [s \in Sides |-> <<>>]
    /\ source \in Sources
    /\ source = "synthetic" => config \in Configs
    /\ source = "semantic_resolvable" => template \in Templates
    /\ source = "mab_extension" => row \in Rows

\* Why the two sides of a conflict may state one value.
MayAgree(k) ==
    CASE source = "synthetic" -> Cardinality(Alternatives(k)) = 1
      [] source = "mab_extension" -> \E i, j \in Edits(k) : i # j /\ row[i].value = row[j].value
      [] OTHER -> FALSE

\* The updates u of side a and w of side b are a conflict as their source means it.
Declared(u, w) ==
    /\ u.type = w.type /\ u.gt = w.gt
    /\ u.type \in {"resolvable_conflict", "ambiguous_conflict"}
    /\ u.type = "resolvable_conflict" => u.gt \in {u.value, w.value}
    /\ u.type = "ambiguous_conflict" => source = "synthetic" /\ u.gt = None /\ u.conf = w.conf
    /\ u.value = w.value => MayAgree(u.key)
    /\ (source = "synthetic" /\ u.type = "resolvable_conflict") =>
           /\ u.conf # w.conf
           /\ config.noise = "never" => u.gt = IF u.conf > w.conf THEN u.value ELSE w.value
    /\ source = "semantic_resolvable" => u.conf = w.conf /\ u.gt = template.branch_b_value
    /\ source = "mab_extension" => u.gt = row[LastOf(Chain(u.key))].value

Conflicts == {x \in UpdateSpec \X UpdateSpec : Declared(x[1], x[2])}

\* A list has one update of a key at most, and none that the ancestor outlives.
OnePerKey(stream) ==
    /\ \A i, j \in DOMAIN stream : stream[i].key = stream[j].key => i = j
    /\ \A i \in DOMAIN stream : stream[i].ts > AncestorTime

\* Two lists that meet only in conflicts, which are in D.
Meet(D, A, B) ==
    /\ OnePerKey(A) /\ OnePerKey(B)
    /\ \A i \in DOMAIN A, j \in DOMAIN B : A[i].key = B[j].key => <<A[i], B[j]>> \in D

\* diverge accepts what is handed to it.
Accepted == Meet(Conflicts, updates["a"], updates["b"]) /\ pc # "raised"

\* A longer list: its places and its keys.
LEMMA Longer ==
    ASSUME NEW A \in Seq(UpdateSpec), NEW u \in UpdateSpec
    PROVE  /\ Append(A, u) \in Seq(UpdateSpec)
           /\ DOMAIN A = 1..Len(A) /\ Len(A) \in Nat /\ Len(Append(A, u)) = Len(A) + 1
           /\ DOMAIN Append(A, u) = DOMAIN A \cup {Len(A) + 1} /\ Len(A) + 1 \notin DOMAIN A
           /\ Append(A, u)[Len(A) + 1] = u
           /\ \A i \in DOMAIN A : Append(A, u)[i] = A[i]
           /\ Touched(Append(A, u)) = Touched(A) \cup {u.key}
<1>1. /\ Append(A, u) \in Seq(UpdateSpec)
      /\ DOMAIN A = 1..Len(A) /\ Len(A) \in Nat /\ Len(Append(A, u)) = Len(A) + 1
      /\ DOMAIN Append(A, u) = DOMAIN A \cup {Len(A) + 1} /\ Len(A) + 1 \notin DOMAIN A
      /\ Append(A, u)[Len(A) + 1] = u
      /\ \A i \in DOMAIN A : Append(A, u)[i] = A[i]
  OBVIOUS
<1> DEFINE longer == Append(A, u)
           last == Len(A) + 1
<1>2. /\ DOMAIN longer = DOMAIN A \cup {last} /\ longer[last] = u
      /\ \A i \in DOMAIN A : longer[i] = A[i]
  BY <1>1
<1> HIDE DEF longer, last
<1>3. Touched(longer) = Touched(A) \cup {u.key}
  BY <1>2 DEF Touched
<1> QED
  BY <1>1, <1>3 DEF longer

\* An update of a key that a list has not leaves it with one update of a key.
LEMMA OnePerKeyLonger ==
    ASSUME NEW A \in Seq(UpdateSpec), NEW u \in UpdateSpec, OnePerKey(A),
           u.key \notin Touched(A), u.ts > AncestorTime
    PROVE  OnePerKey(Append(A, u))
<1> DEFINE longer == Append(A, u)
           last == Len(A) + 1
<1>1. /\ DOMAIN longer = DOMAIN A \cup {last} /\ longer[last] = u
      /\ \A i \in DOMAIN A : longer[i] = A[i]
  BY Longer
<1>2. \A i \in DOMAIN A : A[i].key # u.key
  BY DEF Touched
<1> HIDE DEF longer, last
<1>3. OnePerKey(longer)
  BY <1>1, <1>2 DEF OnePerKey
<1> QED
  BY <1>3 DEF longer

\* An update of a new key, on one side, meets nothing.
LEMMA MeetOne ==
    ASSUME NEW D, NEW A \in Seq(UpdateSpec), NEW B \in Seq(UpdateSpec), Meet(D, A, B),
           NEW u \in UpdateSpec, u.key \notin Touched(A) \cup Touched(B), u.ts > AncestorTime
    PROVE  Meet(D, Append(A, u), B) /\ Meet(D, A, Append(B, u))
<1>1. OnePerKey(Append(A, u)) /\ OnePerKey(Append(B, u))
  BY OnePerKeyLonger DEF Meet
<1>2. /\ \A i \in DOMAIN A : A[i].key # u.key
      /\ \A j \in DOMAIN B : B[j].key # u.key
  BY DEF Touched
<1>3. Meet(D, Append(A, u), B)
  <2> DEFINE longer == Append(A, u)
             last == Len(A) + 1
  <2>1. /\ DOMAIN longer = DOMAIN A \cup {last} /\ longer[last] = u
        /\ \A i \in DOMAIN A : longer[i] = A[i]
    BY Longer
  <2>2. OnePerKey(longer)
    BY <1>1
  <2> HIDE DEF longer, last
  <2>3. Meet(D, longer, B)
    BY <1>2, <2>1, <2>2 DEF Meet
  <2> QED
    BY <2>3 DEF longer
<1>4. Meet(D, A, Append(B, u))
  <2> DEFINE longer == Append(B, u)
             last == Len(B) + 1
  <2>1. /\ DOMAIN longer = DOMAIN B \cup {last} /\ longer[last] = u
        /\ \A j \in DOMAIN B : longer[j] = B[j]
    BY Longer
  <2>2. OnePerKey(longer)
    BY <1>1
  <2> HIDE DEF longer, last
  <2>3. Meet(D, A, longer)
    BY <1>2, <2>1, <2>2 DEF Meet
  <2> QED
    BY <2>3 DEF longer
<1> QED
  BY <1>3, <1>4

\* A conflict on a new key is the only place where the two updates meet.
LEMMA MeetBoth ==
    ASSUME NEW D, NEW A \in Seq(UpdateSpec), NEW B \in Seq(UpdateSpec), Meet(D, A, B),
           NEW u \in UpdateSpec, u.key \notin Touched(A) \cup Touched(B), u.ts > AncestorTime,
           NEW w \in UpdateSpec, w.key = u.key, w.ts > AncestorTime, <<u, w>> \in D
    PROVE  Meet(D, Append(A, u), Append(B, w))
<1>1. OnePerKey(Append(A, u)) /\ OnePerKey(Append(B, w))
  BY OnePerKeyLonger DEF Meet
<1>2. /\ \A i \in DOMAIN A : A[i].key # u.key
      /\ \A j \in DOMAIN B : B[j].key # u.key
  BY DEF Touched
<1> DEFINE longA == Append(A, u)
           longB == Append(B, w)
           lastA == Len(A) + 1
           lastB == Len(B) + 1
<1>3. /\ DOMAIN longA = DOMAIN A \cup {lastA} /\ longA[lastA] = u
      /\ \A i \in DOMAIN A : longA[i] = A[i]
  BY Longer
<1>4. /\ DOMAIN longB = DOMAIN B \cup {lastB} /\ longB[lastB] = w
      /\ \A j \in DOMAIN B : longB[j] = B[j]
  BY Longer
<1>5. OnePerKey(longA) /\ OnePerKey(longB)
  BY <1>1
<1> HIDE DEF longA, longB, lastA, lastB
<1>6. Meet(D, longA, longB)
  BY <1>2, <1>3, <1>4, <1>5 DEF Meet
<1> QED
  BY <1>6 DEF longA, longB

\* What counts as a conflict does not change while the lists are made.
LEMMA ConflictsStay ==
    ASSUME UNCHANGED <<root, source, config, template, row>>
    PROVE  Conflicts' = Conflicts
<1>1. \A k : Alternatives(k)' = Alternatives(k)
  BY DEF Alternatives
<1>2. \A k : Chain(k)' = Chain(k)
  BY DEF Chain
<1>3. \A k : Edits(k)' = Edits(k)
  BY <1>2 DEF Edits
<1>4. \A k : MayAgree(k)' <=> MayAgree(k)
  BY <1>1, <1>3 DEF MayAgree
<1>5. \A u, w : Declared(u, w)' <=> Declared(u, w)
  BY <1>2, <1>4 DEF Declared
<1> QED
  BY <1>5 DEF Conflicts

-----------------------------------------------------------------------------
(* How the lists grow.                                                      *)

\* A key that neither list has.
Fresh(k) == k \notin Touched(updates["a"]) \cup Touched(updates["b"])

\* One list gets an update of a key that neither has.
GrowsOne(s, u) ==
    /\ updates' = [updates EXCEPT ![s] = Append(updates[s], u)]
    /\ Fresh(u.key) /\ u.ts > AncestorTime

\* Both lists get an update of such a key.
GrowsBoth(u, w) ==
    /\ updates' = [s \in Sides |-> Append(updates[s], IF s = "a" THEN u ELSE w)]
    /\ Fresh(u.key) /\ u.ts > AncestorTime
    /\ w.key = u.key /\ w.ts > AncestorTime
    /\ <<u, w>> \in Conflicts

\* The lists of the two sides.
LEMMA TheLists ==
    ASSUME TypeOK
    PROVE  updates["a"] \in Seq(UpdateSpec) /\ updates["b"] \in Seq(UpdateSpec)
BY DEF TypeOK, Sides

LEMMA AcceptedOne ==
    ASSUME TypeOK, Accepted, Conflicts' = Conflicts, pc' = pc,
           NEW s \in Sides, NEW u \in UpdateSpec, GrowsOne(s, u)
    PROVE  Accepted' /\ updates' \in [Sides -> Seq(UpdateSpec)]
<1> DEFINE A == updates["a"]
           B == updates["b"]
<1>1. A \in Seq(UpdateSpec) /\ B \in Seq(UpdateSpec) /\ Meet(Conflicts, A, B)
  BY TheLists DEF Accepted
<1>2. u.key \notin Touched(A) \cup Touched(B) /\ u.ts > AncestorTime
  BY DEF GrowsOne, Fresh
<1>3. \/ s = "a" /\ updates'["a"] = Append(A, u) /\ updates'["b"] = B
      \/ s = "b" /\ updates'["a"] = A /\ updates'["b"] = Append(B, u)
  BY DEF GrowsOne, TypeOK, Sides
<1>4. updates' \in [Sides -> Seq(UpdateSpec)]
  <2>1. Append(updates[s], u) \in Seq(UpdateSpec)
    BY Longer DEF TypeOK
  <2>2. updates \in [Sides -> Seq(UpdateSpec)]
    BY DEF TypeOK
  <2> QED
    BY <2>1, <2>2 DEF GrowsOne
<1> HIDE DEF A, B
<1>5. Meet(Conflicts, Append(A, u), B) /\ Meet(Conflicts, A, Append(B, u))
  BY <1>1, <1>2, MeetOne
<1>6. Meet(Conflicts, updates'["a"], updates'["b"])
  BY <1>3, <1>5
<1> QED
  BY <1>4, <1>6 DEF Accepted

LEMMA AcceptedBoth ==
    ASSUME TypeOK, Accepted, Conflicts' = Conflicts, pc' = pc,
           NEW u \in UpdateSpec, NEW w \in UpdateSpec, GrowsBoth(u, w)
    PROVE  Accepted' /\ updates' \in [Sides -> Seq(UpdateSpec)]
<1> DEFINE A == updates["a"]
           B == updates["b"]
<1>1. A \in Seq(UpdateSpec) /\ B \in Seq(UpdateSpec) /\ Meet(Conflicts, A, B)
  BY TheLists DEF Accepted
<1>2. /\ u.key \notin Touched(A) \cup Touched(B) /\ u.ts > AncestorTime
      /\ w.key = u.key /\ w.ts > AncestorTime /\ <<u, w>> \in Conflicts
  BY DEF GrowsBoth, Fresh
<1>3. updates'["a"] = Append(A, u) /\ updates'["b"] = Append(B, w)
  BY DEF GrowsBoth, Sides
<1>4. updates' \in [Sides -> Seq(UpdateSpec)]
  <2>1. Append(A, u) \in Seq(UpdateSpec) /\ Append(B, w) \in Seq(UpdateSpec)
    BY <1>1, Longer
  <2> DEFINE S == Seq(UpdateSpec)
             longA == Append(A, u)
             longB == Append(B, w)
  <2>2. longA \in S /\ longB \in S
    BY <2>1
  <2>3. updates' = [s \in Sides |-> IF s = "a" THEN longA ELSE longB]
    BY DEF GrowsBoth, Sides
  <2> HIDE DEF S, longA, longB
  <2>4. updates' \in [Sides -> S]
    BY <2>2, <2>3
  <2> QED
    BY <2>4 DEF S
<1> HIDE DEF A, B
<1>5. Meet(Conflicts, Append(A, u), Append(B, w))
  BY <1>1, <1>2, MeetBoth
<1> QED
  BY <1>3, <1>4, <1>5 DEF Accepted

\* While lists are made the simulator's fields keep their types.
LEMMA GrownType ==
    ASSUME GenTypeOK, phase # "diverge", UNCHANGED simVars, IsRoot(root'),
           updates' \in [Sides -> Seq(UpdateSpec)]
    PROVE  TypeOK'
<1>1. applied' = [s \in Sides |-> {}] /\ pc' = "fork" /\ facts' = facts
  BY DEF GenTypeOK, simVars
<1>2. facts \in [Sides -> Seq(Fact)]
  BY DEF GenTypeOK, TypeOK
<1>3. applied' \in [Sides -> SUBSET Nat] /\ \A s \in Sides : applied'[s] \subseteq DOMAIN updates'[s]
  BY <1>1
<1> QED
  BY <1>1, <1>2, <1>3 DEF TypeOK

\* The fields of an update that a generator makes.
LEMMA UpdateOK ==
    ASSUME NEW k \in Keys, NEW v \in Values, NEW ts \in Nat, NEW conf \in Nat,
           NEW type \in DivergenceTypes, NEW gt \in Values \cup {None}
    PROVE  /\ Update(k, v, ts, conf, type, gt) \in UpdateSpec
           /\ Update(k, v, ts, conf, type, gt).key = k
           /\ Update(k, v, ts, conf, type, gt).value = v
           /\ Update(k, v, ts, conf, type, gt).ts = ts
           /\ Update(k, v, ts, conf, type, gt).conf = conf
           /\ Update(k, v, ts, conf, type, gt).type = type
           /\ Update(k, v, ts, conf, type, gt).gt = gt
BY DEF Update, UpdateSpec

-----------------------------------------------------------------------------
(* The call of diverge.                                                     *)

\* The spec of a key is the only update of it.
LEMMA SpecForOne ==
    ASSUME NEW stream \in Seq(UpdateSpec), OnePerKey(stream), NEW i \in DOMAIN stream
    PROVE  SpecFor(stream, stream[i].key) = stream[i]
<1> DEFINE k == stream[i].key
           Last(n) == stream[n].key = k /\ \A j \in DOMAIN stream : stream[j].key = k => j <= n
           c == CHOOSE n \in DOMAIN stream : Last(n)
<1>1. i \in Nat /\ \A j \in DOMAIN stream : stream[j].key = k => j = i
  BY DEF OnePerKey
<1>2. Last(i)
  BY <1>1
<1>3. c \in DOMAIN stream /\ Last(c)
  BY <1>2
<1>4. c = i
  BY <1>1, <1>3
<1>5. SpecFor(stream, k) = stream[c]
  BY DEF SpecFor
<1> QED
  BY <1>4, <1>5

\* The specs of a shared key are a declared conflict.
LEMMA SharedSpecs ==
    ASSUME TypeOK, Accepted, NEW k \in SharedKeys
    PROVE  \E u, w \in UpdateSpec :
               /\ SpecFor(updates["a"], k) = u /\ SpecFor(updates["b"], k) = w
               /\ u.key = k /\ w.key = k /\ Declared(u, w)
               /\ \E i \in DOMAIN updates["a"] : updates["a"][i] = u
               /\ \E j \in DOMAIN updates["b"] : updates["b"][j] = w
<1> DEFINE A == updates["a"]
           B == updates["b"]
<1>1. PICK i \in DOMAIN A, j \in DOMAIN B : A[i].key = k /\ B[j].key = k
  BY DEF SharedKeys, Touched
<1>2. A \in Seq(UpdateSpec) /\ B \in Seq(UpdateSpec) /\ Meet(Conflicts, A, B)
  BY TheLists DEF Accepted
<1> HIDE DEF A, B
<1>3. SpecFor(A, k) = A[i] /\ SpecFor(B, k) = B[j]
  BY <1>1, <1>2, SpecForOne DEF Meet
<1>4. <<A[i], B[j]>> \in Conflicts
  BY <1>1, <1>2 DEF Meet
<1>5. A[i] \in UpdateSpec /\ B[j] \in UpdateSpec /\ Declared(A[i], B[j])
  BY <1>4 DEF Conflicts
<1> QED
  BY <1>1, <1>3, <1>5 DEF A, B

LEMMA DeclaredConsistent ==
    ASSUME NEW u \in UpdateSpec, NEW w \in UpdateSpec, Declared(u, w)
    PROVE  ~Inconsistent(u, w)
<1>1. u.value \in Values /\ w.value \in Values
  BY DEF UpdateSpec
<1>2. u.type = "resolvable_conflict" => u.gt # None
  BY <1>1, NoneAssumption DEF Declared
<1> QED
  BY <1>2 DEF Declared, Inconsistent

\* A step of diverge keeps the types, and raises nothing.
LEMMA SimulateStep ==
    ASSUME GenTypeOK, Accepted, InForce, PairsMade,
           Simulate, UNCHANGED <<synthVars, template, mabVars, source>>
    PROVE  GenTypeOK' /\ Accepted' /\ InForce' /\ PairsMade' /\ UNCHANGED <<root, updates, phase>>
<1>0. TypeOK /\ [Next]_vars /\ phase = "diverge" /\ phase' = phase
  BY DEF GenTypeOK, Simulate
<1>1. TypeOK' /\ InForce' /\ PairsMade' /\ UNCHANGED <<root, updates>>
  BY <1>0, TypeStep, InForceStep, PairsMadeStep, NextFacts
<1>2. GenTypeOK'
  BY <1>0, <1>1 DEF GenTypeOK, synthVars, mabVars
<1>3. Conflicts' = Conflicts
  BY <1>1, ConflictsStay DEF synthVars, mabVars
<1>4. pc' # "raised"
  <2> SUFFICES ASSUME pc' = "raised" PROVE FALSE
    OBVIOUS
  <2>1. RaiseDivergenceError
    <3>1. pc # "raised" /\ Next
      BY <1>0 DEF Accepted, Simulate
    <3> QED
      BY <3>1
        DEF Next, Fork, ApplyUpdate, AllApplied, AddPair, Return
  <2>2. CheckedKey \in SharedKeys
    <3>1. unchecked # {} /\ unchecked \subseteq SharedKeys
      BY <2>1 DEF RaiseDivergenceError, PairsMade
    <3> QED
      BY <1>0, <3>1, SharedKeysOK, LeastIn DEF CheckedKey
  <2>3. PICK u, w \in UpdateSpec :
            /\ SpecFor(updates["a"], CheckedKey) = u /\ SpecFor(updates["b"], CheckedKey) = w
            /\ Declared(u, w)
    BY <1>0, <2>2, SharedSpecs
  <2> QED
    BY <2>1, <2>3, DeclaredConsistent DEF RaiseDivergenceError
<1> QED
  BY <1>0, <1>1, <1>2, <1>3, <1>4 DEF Accepted

-----------------------------------------------------------------------------
(* The steps that make an ancestor, and the generator of templates.         *)

\* Nothing of the simulator moves while the lists are made.
LEMMA IdleStep ==
    ASSUME GenTypeOK, phase # "diverge", UNCHANGED simVars
    PROVE  /\ InForce' /\ PairsMade'
           /\ pc = "fork" /\ pc' = "fork" /\ pairs' = <<>> /\ applied' = [s \in Sides |-> {}]
<1>1. /\ pc = "fork" /\ pc' = "fork" /\ pairs' = <<>> /\ applied' = [s \in Sides |-> {}]
  BY DEF GenTypeOK, simVars
<1>2. InForce'
  BY <1>1 DEF InForce
<1>3. PairsMade'
  BY <1>1 DEF PairsMade
<1> QED
  BY <1>1, <1>2, <1>3

\* Empty lists touch nothing.
LEMMA NothingTouched ==
    ASSUME updates = [s \in Sides |-> <<>>]
    PROVE  /\ Touched(updates["a"]) = {} /\ Touched(updates["b"]) = {}
           /\ updates["a"] = <<>> /\ updates["b"] = <<>> /\ \A k : Fresh(k)
           /\ \A D : Meet(D, updates["a"], updates["b"])
<1>1. updates["a"] = <<>> /\ updates["b"] = <<>>
  BY DEF Sides
<1>2. Touched(updates["a"]) = {} /\ Touched(updates["b"]) = {}
  BY <1>1 DEF Touched
<1>3. \A D : Meet(D, updates["a"], updates["b"])
  BY <1>1 DEF Meet, OnePerKey
<1> QED
  BY <1>1, <1>2, <1>3 DEF Fresh

\* No facts are those of an ancestor without contents.
LEMMA EmptyRoot == IsRoot(<<>>)
<1>1. <<>> \in Seq([key : Keys, value : Values])
  OBVIOUS
<1>2. AncestorFacts(<<>>, AncestorTime) = <<>>
  BY DEF AncestorFacts
<1> QED
  BY <1>1, <1>2 DEF IsRoot

LEMMA GenInitOK ==
    ASSUME GenInit
    PROVE  GenTypeOK /\ Accepted /\ InForce /\ PairsMade /\ phase = "ancestor"
<1>1. /\ root = <<>> /\ updates = [s \in Sides |-> <<>>]
      /\ applied = [s \in Sides |-> {}] /\ facts = [s \in Sides |-> <<>>]
      /\ pc = "fork" /\ pairs = <<>> /\ phase = "ancestor"
  BY DEF GenInit, MakerInit
<1>2. TypeOK
  <2>1. IsRoot(root)
    BY <1>1, EmptyRoot
  <2>2. updates \in [Sides -> Seq(UpdateSpec)]
    BY <1>1
  <2>3. facts \in [Sides -> Seq(Fact)]
    BY <1>1
  <2>4. applied \in [Sides -> SUBSET Nat] /\ \A s \in Sides : applied[s] \subseteq DOMAIN updates[s]
    BY <1>1
  <2> QED
    BY <1>1, <2>1, <2>2, <2>3, <2>4 DEF TypeOK
<1>3. /\ source \in Sources
      /\ source = "synthetic" => config \in Configs
      /\ source = "semantic_resolvable" => template \in Templates
      /\ source = "mab_extension" => row \in Rows
  BY DEF GenInit, SynthInit, MabInit
<1>4. GenTypeOK
  BY <1>1, <1>2, <1>3 DEF GenTypeOK
<1>5. Accepted
  BY <1>1, NothingTouched DEF Accepted
<1>6. InForce /\ PairsMade
  BY <1>1 DEF InForce, PairsMade
<1> QED
  BY <1>1, <1>4, <1>5, <1>6

\* A template's conflict is on the key it names, and the truth is the text of
\* its side b, wherever it was put.
LEMMA TemplateConflict ==
    ASSUME source = "semantic_resolvable", template \in Templates,
           NEW swap \in BOOLEAN, NEW tsA \in SemanticTimes, NEW tsB \in SemanticTimes,
           NEW textA, textA = IF swap THEN template.branch_b_value ELSE template.branch_a_value,
           NEW textB, textB = IF swap THEN template.branch_a_value ELSE template.branch_b_value,
           NEW u, u = Update(template.key, textA, tsA, EqualConfidence, "resolvable_conflict", TruthText(swap)),
           NEW w, w = Update(template.key, textB, tsB, EqualConfidence, "resolvable_conflict", TruthText(swap))
    PROVE  /\ u \in UpdateSpec /\ w \in UpdateSpec /\ <<u, w>> \in Conflicts
           /\ u.ts > AncestorTime /\ w.ts > AncestorTime /\ u.key = w.key
<1>1. /\ template.key \in Keys /\ template.branch_a_value \in Values /\ template.branch_b_value \in Values
      /\ template.branch_a_value # template.branch_b_value
  BY TemplatesAssumption
<1>2. /\ tsA \in Nat /\ tsB \in Nat /\ tsA > AncestorTime /\ tsB > AncestorTime
      /\ EqualConfidence \in Nat /\ "resolvable_conflict" \in DivergenceTypes
  BY TemplatesAssumption DEF EqualConfidence, DivergenceTypes
<1>3. TruthText(swap) = template.branch_b_value
  BY DEF TruthText
<1>4. textA \in Values /\ textB \in Values /\ textA # textB
      /\ TruthText(swap) \in Values \cup {None} /\ TruthText(swap) \in {textA, textB}
  BY <1>1, <1>3
<1> DEFINE gt == TruthText(swap)
           type == "resolvable_conflict"
<1>5. /\ u \in UpdateSpec /\ u.key = template.key /\ u.value = textA /\ u.ts = tsA
      /\ u.conf = EqualConfidence /\ u.type = type /\ u.gt = gt
  BY <1>1, <1>2, <1>4, UpdateOK
<1>6. /\ w \in UpdateSpec /\ w.key = template.key /\ w.value = textB /\ w.ts = tsB
      /\ w.conf = EqualConfidence /\ w.type = type /\ w.gt = gt
  BY <1>1, <1>2, <1>4, UpdateOK
<1>7. Declared(u, w)
  BY <1>3, <1>4, <1>5, <1>6 DEF Declared
<1> QED
  BY <1>2, <1>5, <1>6, <1>7 DEF Conflicts

LEMMA FillTemplateStep ==
    ASSUME GenTypeOK, Accepted, source = "semantic_resolvable",
           FillTemplate, UNCHANGED <<synthVars, mabVars, source>>
    PROVE  GenTypeOK' /\ Accepted' /\ InForce' /\ PairsMade'
<1>1. PICK swap \in BOOLEAN, tsA \in SemanticTimes, tsB \in SemanticTimes :
          LET textA == IF swap THEN template.branch_b_value ELSE template.branch_a_value
              textB == IF swap THEN template.branch_a_value ELSE template.branch_b_value
              conflict(text, ts) ==
                  Update(template.key, text, ts, EqualConfidence, "resolvable_conflict", TruthText(swap))
          IN /\ MakeAncestor(<<[key |-> template.ancestor_key, value |-> template.ancestor_value]>>)
             /\ ExtendBoth(conflict(textA, tsA), conflict(textB, tsB))
             /\ phase' = "diverge"
             /\ UNCHANGED template
  BY DEF FillTemplate
<1> DEFINE textA == IF swap THEN template.branch_b_value ELSE template.branch_a_value
           textB == IF swap THEN template.branch_a_value ELSE template.branch_b_value
           u == Update(template.key, textA, tsA, EqualConfidence, "resolvable_conflict", TruthText(swap))
           w == Update(template.key, textB, tsB, EqualConfidence, "resolvable_conflict", TruthText(swap))
           contents == <<[key |-> template.ancestor_key, value |-> template.ancestor_value]>>
<1>2. /\ phase = "ancestor" /\ UNCHANGED simVars /\ phase' = "diverge" /\ UNCHANGED template
      /\ root' = AncestorFacts(contents, AncestorTime)
      /\ updates' = [s \in Sides |-> Append(updates[s], IF s = "a" THEN u ELSE w)]
  BY <1>1 DEF MakeAncestor, ExtendBoth
<1>3. template \in Templates /\ updates = [s \in Sides |-> <<>>] /\ TypeOK
  BY <1>2 DEF GenTypeOK
<1>4. /\ u \in UpdateSpec /\ w \in UpdateSpec /\ <<u, w>> \in Conflicts
      /\ u.ts > AncestorTime /\ w.ts > AncestorTime /\ u.key = w.key
  <2> HIDE DEF textA, textB
  <2>1. /\ textA = IF swap THEN template.branch_b_value ELSE template.branch_a_value
        /\ textB = IF swap THEN template.branch_a_value ELSE template.branch_b_value
    BY DEF textA, textB
  <2>2. /\ u = Update(template.key, textA, tsA, EqualConfidence, "resolvable_conflict", TruthText(swap))
        /\ w = Update(template.key, textB, tsB, EqualConfidence, "resolvable_conflict", TruthText(swap))
    OBVIOUS
  <2> HIDE DEF u, w
  <2> QED
    BY <1>3, <2>1, <2>2, TemplateConflict
<1>5. IsRoot(root')
  <2>1. template.ancestor_key \in Keys /\ template.ancestor_value \in Values
    BY <1>3, TemplatesAssumption
  <2>2. contents \in Seq([key : Keys, value : Values])
    BY <2>1
  <2> HIDE DEF contents
  <2> QED
    BY <1>2, <2>2 DEF IsRoot
<1> HIDE DEF u, w, contents
<1>6. Conflicts' = Conflicts
  <2>1. \A k : Chain(k)' = Chain(k)
    BY DEF Chain, mabVars
  <2>2. \A k : ~MayAgree(k) /\ ~MayAgree(k)'
    BY DEF MayAgree
  <2>3. \A x, y : Declared(x, y)' <=> Declared(x, y)
    BY <1>2, <2>1, <2>2 DEF Declared, synthVars, mabVars
  <2> QED
    BY <2>3 DEF Conflicts
<1>7. pc' = pc /\ InForce' /\ PairsMade'
  BY <1>2, IdleStep
<1>8. GrowsBoth(u, w)
  BY <1>2, <1>3, <1>4, NothingTouched DEF GrowsBoth
<1>9. Accepted' /\ updates' \in [Sides -> Seq(UpdateSpec)]
  BY <1>3, <1>4, <1>6, <1>7, <1>8, AcceptedBoth
<1>10. TypeOK'
  BY <1>2, <1>5, <1>9, GrownType
<1>11. GenTypeOK'
  BY <1>2, <1>10 DEF GenTypeOK, synthVars, mabVars
<1> QED
  BY <1>7, <1>9, <1>11

-----------------------------------------------------------------------------
(* Counting.                                                                *)

\* A set that is covered by n things has at most n members.
LEMMA CoveredBy ==
    ASSUME NEW n \in Nat, NEW f, NEW T, \A x \in T : \E i \in 1..n : x = f[i]
    PROVE  IsFiniteSet(T) /\ Cardinality(T) \in Nat /\ Cardinality(T) <= n
<1> DEFINE W == {f[i] : i \in 1..n}
           g == [i \in 1..n |-> f[i]]
<1>1. T \in SUBSET W
  OBVIOUS
<1>2. g \in Surjection(1..n, W)
  BY DEF Surjection
<1>3. ExistsSurjection(1..n, W)
  BY <1>2 DEF ExistsSurjection
<1> HIDE DEF W, g
<1>4. IsFiniteSet(W) /\ Cardinality(W) <= n
  BY <1>3, FS_NatSurjection, FS_SurjCardinalityBound
<1>5. IsFiniteSet(T) /\ Cardinality(T) <= Cardinality(W)
  BY <1>1, <1>4, FS_Subset
<1>6. Cardinality(T) \in Nat /\ Cardinality(W) \in Nat
  BY <1>4, <1>5, FS_CardinalityType
<1> QED
  BY <1>4, <1>5, <1>6

\* A set whose members are numbered from 1 to n has n members.
LEMMA Numbered ==
    ASSUME NEW n \in Nat, NEW f, NEW T,
           \A i \in 1..n : f[i] \in T,
           \A i, j \in 1..n : f[i] = f[j] => i = j,
           \A x \in T : \E i \in 1..n : x = f[i]
    PROVE  Cardinality(T) = n
<1> DEFINE g == [i \in 1..n |-> f[i]]
<1>1. g \in [1..n -> T]
  OBVIOUS
<1>2. /\ \A i, j \in 1..n : g[i] = g[j] => i = j
      /\ \A x \in T : \E i \in 1..n : g[i] = x
  OBVIOUS
<1> HIDE DEF g
<1>3. g \in Bijection(1..n, T)
  <2>1. g \in Injection(1..n, T)
    BY <1>1, <1>2 DEF Injection, IsInjective
  <2>2. g \in Surjection(1..n, T)
    BY <1>1, <1>2 DEF Surjection
  <2> QED
    BY <2>1, <2>2 DEF Bijection
<1>4. ExistsBijection(1..n, T)
  BY <1>3 DEF ExistsBijection
<1> QED
  BY <1>4, FS_CountingElements

-----------------------------------------------------------------------------
(* The synthetic generator, after so many iterations of its loops.          *)

Total(c) == c.orthogonal_a + c.orthogonal_b + c.resolvable + c.ambiguous

\* The loop that iteration n belongs to.
StepAt(c, n) ==
    IF n <= c.orthogonal_a THEN "orthogonal_a"
    ELSE IF n <= c.orthogonal_a + c.orthogonal_b THEN "orthogonal_b"
    ELSE IF n <= c.orthogonal_a + c.orthogonal_b + c.resolvable THEN "resolvable"
    ELSE "ambiguous"

Steps == {"orthogonal_a", "orthogonal_b", "resolvable", "ambiguous"}

\* The type of the i-th update of a side with so many orthogonal ones.
TypeAt(own, c, i) ==
    IF i <= own THEN "orthogonal"
    ELSE IF i <= own + c.resolvable THEN "resolvable_conflict" ELSE "ambiguous_conflict"

\* The lists a and b after d iterations: orthogonal updates, of keys that are
\* new, and then the conflicts, side by side.
LaidSizes(c, d, A, B) ==
    /\ Len(A) = IF d <= c.orthogonal_a THEN d
                ELSE IF d <= c.orthogonal_a + c.orthogonal_b THEN c.orthogonal_a
                ELSE d - c.orthogonal_b
    /\ Len(B) = IF d <= c.orthogonal_a THEN 0 ELSE d - c.orthogonal_a

LaidTypes(c, A, B) ==
    /\ \A i \in DOMAIN A : A[i].type = TypeAt(c.orthogonal_a, c, i)
    /\ \A j \in DOMAIN B : B[j].type = TypeAt(c.orthogonal_b, c, j)

LaidPairs(c, A, B) ==
    \A i \in DOMAIN A, j \in DOMAIN B :
        A[i].key = B[j].key
            <=> i > c.orthogonal_a /\ j > c.orthogonal_b
                    /\ i + c.orthogonal_b = j + c.orthogonal_a

LaidKeys(taken, A, B) ==
    /\ \A i \in DOMAIN A : A[i].type = "orthogonal" => A[i].key \notin taken
    /\ \A j \in DOMAIN B : B[j].type = "orthogonal" => B[j].key \notin taken
    /\ \A i \in DOMAIN A : /\ A[i].type = "resolvable_conflict" => A[i].key \in Objective
                           /\ A[i].type = "ambiguous_conflict" => A[i].key \in Subjective

Laid(c, d, taken, A, B) ==
    /\ LaidSizes(c, d, A, B) /\ LaidTypes(c, A, B)
    /\ LaidPairs(c, A, B) /\ LaidKeys(taken, A, B)

SynthInv ==
    /\ left \in Seq(Steps)
    /\ Len(left) <= Total(config)
    /\ \A n \in DOMAIN left : left[n] = StepAt(config, Total(config) - Len(left) + n)
    /\ phase = "diverge" => left = <<>>
    /\ Len(root) <= config.ancestor
    /\ Laid(config, Total(config) - Len(left), KeysOf(root), updates["a"], updates["b"])

\* The counts of a configuration.
LEMMA ConfigOK ==
    ASSUME NEW c \in Configs
    PROVE  /\ c.ancestor \in Nat /\ c.orthogonal_a \in Nat /\ c.orthogonal_b \in Nat
           /\ c.resolvable \in Nat /\ c.ambiguous \in Nat /\ Total(c) \in Nat
           /\ c.correlates \in Odds /\ c.noise \in Odds
<1>1. c \in Config
  BY GeneratorAssumption
<1>2. /\ c.ancestor \in Nat /\ c.orthogonal_a \in Nat /\ c.orthogonal_b \in Nat
      /\ c.resolvable \in Nat /\ c.ambiguous \in Nat
      /\ c.correlates \in Odds /\ c.noise \in Odds
  BY <1>1 DEF Config
<1> QED
  BY <1>2 DEF Total

\* Two lists one after the other, by their places.
LEMMA Joined ==
    ASSUME NEW S, NEW p \in Seq(S), NEW q \in Seq(S)
    PROVE  /\ p \o q \in Seq(S) /\ Len(p \o q) = Len(p) + Len(q)
           /\ Len(p) \in Nat /\ Len(q) \in Nat
           /\ \A n \in 1..(Len(p) + Len(q)) :
                  (p \o q)[n] = IF n <= Len(p) THEN p[n] ELSE q[n - Len(p)]
OBVIOUS

LEMMA Repeated ==
    ASSUME NEW n \in Nat, NEW step \in Steps
    PROVE  /\ Repeat(n, step) \in Seq(Steps) /\ Len(Repeat(n, step)) = n
           /\ \A i \in 1..n : Repeat(n, step)[i] = step
BY DEF Repeat

\* The loops run one after the other.
LEMMA LoopOrder ==
    ASSUME NEW c \in Configs, NEW loops,
           loops = Repeat(c.orthogonal_a, "orthogonal_a")
                       \o Repeat(c.orthogonal_b, "orthogonal_b")
                       \o Repeat(c.resolvable, "resolvable")
                       \o Repeat(c.ambiguous, "ambiguous")
    PROVE  /\ loops \in Seq(Steps) /\ Len(loops) = Total(c)
           /\ \A n \in 1..Total(c) : loops[n] = StepAt(c, n)
<1> DEFINE oa == c.orthogonal_a
           ob == c.orthogonal_b
           r == c.resolvable
           m == c.ambiguous
           pa == Repeat(oa, "orthogonal_a")
           pb == Repeat(ob, "orthogonal_b")
           pr == Repeat(r, "resolvable")
           pm == Repeat(m, "ambiguous")
           ab == pa \o pb
           abr == ab \o pr
<1>1. oa \in Nat /\ ob \in Nat /\ r \in Nat /\ m \in Nat /\ Total(c) = oa + ob + r + m
  BY ConfigOK DEF Total
<1>2. /\ "orthogonal_a" \in Steps /\ "orthogonal_b" \in Steps
      /\ "resolvable" \in Steps /\ "ambiguous" \in Steps
  BY DEF Steps
<1>3. loops = abr \o pm
  OBVIOUS
<1>4. \A n : StepAt(c, n) =
          IF n <= oa THEN "orthogonal_a" ELSE IF n <= oa + ob THEN "orthogonal_b"
          ELSE IF n <= oa + ob + r THEN "resolvable" ELSE "ambiguous"
  BY DEF StepAt
<1>5. pa \in Seq(Steps) /\ Len(pa) = oa /\ \A i \in 1..oa : pa[i] = "orthogonal_a"
  <2> HIDE DEF oa
  <2> QED
    BY <1>1, <1>2, Repeated
<1>6. pb \in Seq(Steps) /\ Len(pb) = ob /\ \A i \in 1..ob : pb[i] = "orthogonal_b"
  <2> HIDE DEF ob
  <2> QED
    BY <1>1, <1>2, Repeated
<1>7. pr \in Seq(Steps) /\ Len(pr) = r /\ \A i \in 1..r : pr[i] = "resolvable"
  <2> HIDE DEF r
  <2> QED
    BY <1>1, <1>2, Repeated
<1>8. pm \in Seq(Steps) /\ Len(pm) = m /\ \A i \in 1..m : pm[i] = "ambiguous"
  <2> HIDE DEF m
  <2> QED
    BY <1>1, <1>2, Repeated
<1> HIDE DEF pa, pb, pr, pm, oa, ob, r, m
<1>9. /\ ab \in Seq(Steps) /\ Len(ab) = oa + ob
      /\ \A n \in 1..(oa + ob) : ab[n] = IF n <= oa THEN pa[n] ELSE pb[n - oa]
  <2>1. pa \in Seq(Steps) /\ pb \in Seq(Steps)
    BY <1>5, <1>6
  <2>2. /\ ab \in Seq(Steps) /\ Len(ab) = Len(pa) + Len(pb)
        /\ \A n \in 1..(Len(pa) + Len(pb)) : ab[n] = IF n <= Len(pa) THEN pa[n] ELSE pb[n - Len(pa)]
    BY ONLY <2>1, Joined
  <2> HIDE DEF ab
  <2>3. Len(pa) = oa /\ Len(pb) = ob
    BY <1>5, <1>6
  <2> QED
    BY <2>2, <2>3
<1> HIDE DEF ab
<1>10. /\ abr \in Seq(Steps) /\ Len(abr) = oa + ob + r
       /\ \A n \in 1..(oa + ob + r) : abr[n] = IF n <= oa + ob THEN ab[n] ELSE pr[n - (oa + ob)]
  <2>1. ab \in Seq(Steps) /\ pr \in Seq(Steps)
    BY <1>7, <1>9
  <2>2. /\ abr \in Seq(Steps) /\ Len(abr) = Len(ab) + Len(pr)
        /\ \A n \in 1..(Len(ab) + Len(pr)) : abr[n] = IF n <= Len(ab) THEN ab[n] ELSE pr[n - Len(ab)]
    BY ONLY <2>1, Joined
  <2>3. Len(ab) = oa + ob /\ Len(pr) = r
    BY <1>7, <1>9
  <2> QED
    BY <2>2, <2>3
<1> HIDE DEF abr
<1>11. /\ loops \in Seq(Steps) /\ Len(loops) = oa + ob + r + m
       /\ \A n \in 1..(oa + ob + r + m) :
              loops[n] = IF n <= oa + ob + r THEN abr[n] ELSE pm[n - (oa + ob + r)]
  <2>1. abr \in Seq(Steps) /\ pm \in Seq(Steps)
    BY <1>8, <1>10
  <2>2. /\ loops \in Seq(Steps) /\ Len(loops) = Len(abr) + Len(pm)
        /\ \A n \in 1..(Len(abr) + Len(pm)) :
               loops[n] = IF n <= Len(abr) THEN abr[n] ELSE pm[n - Len(abr)]
    BY ONLY <1>3, <2>1, Joined
  <2>3. Len(abr) = oa + ob + r /\ Len(pm) = m
    BY <1>8, <1>10
  <2> QED
    BY <2>2, <2>3
<1>12. ASSUME NEW n \in 1..(oa + ob + r + m)
       PROVE  loops[n] = IF n <= oa THEN "orthogonal_a" ELSE IF n <= oa + ob THEN "orthogonal_b"
                         ELSE IF n <= oa + ob + r THEN "resolvable" ELSE "ambiguous"
  <2>1. CASE n <= oa
    <3>1. n \in 1..oa /\ n \in 1..(oa + ob) /\ n \in 1..(oa + ob + r) /\ n <= oa + ob /\ n <= oa + ob + r
      BY <1>1, <2>1
    <3>2. loops[n] = abr[n] /\ abr[n] = ab[n]
      BY <1>10, <1>11, <3>1
    <3>3. ab[n] = pa[n]
      BY <1>9, <2>1, <3>1
    <3> QED
      BY <1>5, <2>1, <3>1, <3>2, <3>3
  <2>2. CASE ~(n <= oa) /\ n <= oa + ob
    <3>1. n - oa \in 1..ob /\ n \in 1..(oa + ob) /\ n \in 1..(oa + ob + r) /\ n <= oa + ob + r
      BY <1>1, <2>2
    <3>2. loops[n] = abr[n] /\ abr[n] = ab[n]
      BY <1>10, <1>11, <2>2, <3>1
    <3>3. ab[n] = pb[n - oa]
      BY <1>9, <2>2, <3>1
    <3> QED
      BY <1>6, <2>2, <3>1, <3>2, <3>3
  <2>3. CASE ~(n <= oa) /\ ~(n <= oa + ob) /\ n <= oa + ob + r
    <3>1. n - (oa + ob) \in 1..r /\ n \in 1..(oa + ob + r)
      BY <1>1, <2>3
    <3> QED
      BY <1>7, <1>10, <1>11, <2>3, <3>1
  <2>4. CASE ~(n <= oa) /\ ~(n <= oa + ob) /\ ~(n <= oa + ob + r)
    <3>1. n - (oa + ob + r) \in 1..m
      BY <1>1, <2>4
    <3> QED
      BY <1>8, <1>11, <2>4, <3>1
  <2> QED
    BY <2>1, <2>2, <2>3, <2>4
<1> QED
  BY <1>1, <1>4, <1>11, <1>12

\* What the next iteration is, by the number of those done.
LEMMA NextIteration ==
    ASSUME SynthInv, config \in Configs, left # <<>>
    PROVE  LET d == Total(config) - Len(left) IN
           /\ d \in Nat /\ d < Total(config) /\ Head(left) = StepAt(config, d + 1)
           /\ Head(left) = "orthogonal_a" => d < config.orthogonal_a
           /\ Head(left) = "orthogonal_b" =>
                  config.orthogonal_a <= d /\ d < config.orthogonal_a + config.orthogonal_b
           /\ Head(left) = "resolvable" =>
                  /\ config.orthogonal_a + config.orthogonal_b <= d
                  /\ d < config.orthogonal_a + config.orthogonal_b + config.resolvable
           /\ Head(left) = "ambiguous" =>
                  config.orthogonal_a + config.orthogonal_b + config.resolvable <= d
           /\ Head(left) \in Steps
<1> DEFINE T == Total(config)
           d == T - Len(left)
<1>1. T \in Nat /\ config.orthogonal_a \in Nat /\ config.orthogonal_b \in Nat /\ config.resolvable \in Nat
  BY ConfigOK
<1>2. left \in Seq(Steps) /\ Len(left) <= T /\ \A n \in DOMAIN left : left[n] = StepAt(config, d + n)
  BY DEF SynthInv
<1> HIDE DEF T
<1>3. Len(left) \in Nat /\ Len(left) > 0 /\ 1 \in DOMAIN left /\ Head(left) = left[1] /\ left[1] \in Steps
  BY <1>2
<1>4. d \in Nat /\ d < T /\ Head(left) = StepAt(config, d + 1)
  BY <1>1, <1>2, <1>3
<1> HIDE DEF d
<1>5. /\ Head(left) = "orthogonal_a" => d + 1 <= config.orthogonal_a
      /\ Head(left) = "orthogonal_b" =>
             ~(d + 1 <= config.orthogonal_a) /\ d + 1 <= config.orthogonal_a + config.orthogonal_b
      /\ Head(left) = "resolvable" =>
             /\ ~(d + 1 <= config.orthogonal_a + config.orthogonal_b)
             /\ d + 1 <= config.orthogonal_a + config.orthogonal_b + config.resolvable
      /\ Head(left) = "ambiguous" =>
             ~(d + 1 <= config.orthogonal_a + config.orthogonal_b + config.resolvable)
  BY <1>4 DEF StepAt
<1>6. /\ Head(left) = "orthogonal_a" => d < config.orthogonal_a
      /\ Head(left) = "orthogonal_b" =>
             config.orthogonal_a <= d /\ d < config.orthogonal_a + config.orthogonal_b
      /\ Head(left) = "resolvable" =>
             /\ config.orthogonal_a + config.orthogonal_b <= d
             /\ d < config.orthogonal_a + config.orthogonal_b + config.resolvable
      /\ Head(left) = "ambiguous" =>
             config.orthogonal_a + config.orthogonal_b + config.resolvable <= d
  BY <1>1, <1>4, <1>5
<1> QED
  BY <1>3, <1>4, <1>6 DEF d, T

\* What is left after an iteration.
LEMMA IterationDone ==
    ASSUME SynthInv, config \in Configs, left # <<>>, left' = Tail(left)
    PROVE  /\ left' \in Seq(Steps) /\ Len(left') <= Total(config)
           /\ Total(config) - Len(left') = (Total(config) - Len(left)) + 1
           /\ \A n \in DOMAIN left' : left'[n] = StepAt(config, Total(config) - Len(left') + n)
<1> DEFINE T == Total(config)
<1>1. T \in Nat
  BY ConfigOK
<1>2. left \in Seq(Steps) /\ Len(left) <= T /\ \A n \in DOMAIN left : left[n] = StepAt(config, T - Len(left) + n)
  BY DEF SynthInv
<1> HIDE DEF T
<1>3. /\ left' \in Seq(Steps) /\ Len(left') = Len(left) - 1 /\ Len(left) \in Nat /\ Len(left) > 0
      /\ \A n \in DOMAIN left' : n \in Nat /\ n + 1 \in DOMAIN left /\ left'[n] = left[n + 1]
  BY <1>2
<1>4. T - Len(left') = (T - Len(left)) + 1 /\ Len(left') <= T
  BY <1>1, <1>2, <1>3
<1>5. ASSUME NEW n \in DOMAIN left' PROVE left'[n] = StepAt(config, T - Len(left') + n)
  <2>1. T - Len(left') + n = T - Len(left) + (n + 1)
    BY <1>1, <1>3, <1>4
  <2> QED
    BY <1>2, <1>3, <2>1
<1> QED
  BY <1>3, <1>4, <1>5 DEF T

\* An orthogonal update of side a.
LEMMA LaidOrthogonalA ==
    ASSUME NEW c \in Configs, NEW d \in Nat, d < c.orthogonal_a, NEW taken,
           NEW A \in Seq(UpdateSpec), NEW B \in Seq(UpdateSpec), Laid(c, d, taken, A, B),
           NEW u \in UpdateSpec, u.type = "orthogonal", u.key \notin taken
    PROVE  Laid(c, d + 1, taken, Append(A, u), B)
<1> DEFINE longer == Append(A, u)
           last == Len(A) + 1
<1>1. c.orthogonal_a \in Nat /\ c.orthogonal_b \in Nat /\ c.resolvable \in Nat
  BY ConfigOK
<1>2. Len(A) = d /\ Len(B) = 0
  BY <1>1 DEF Laid, LaidSizes, LaidTypes, LaidPairs, LaidKeys
<1>3. /\ DOMAIN longer = DOMAIN A \cup {last} /\ longer[last] = u /\ Len(longer) = last
      /\ \A i \in DOMAIN A : longer[i] = A[i]
  BY Longer
<1>4. last = d + 1 /\ DOMAIN B = {} /\ last <= c.orthogonal_a
  BY <1>1, <1>2
<1> HIDE DEF longer, last
<1>5. /\ Len(longer) = IF d + 1 <= c.orthogonal_a THEN d + 1
                       ELSE IF d + 1 <= c.orthogonal_a + c.orthogonal_b THEN c.orthogonal_a
                       ELSE (d + 1) - c.orthogonal_b
      /\ Len(B) = IF d + 1 <= c.orthogonal_a THEN 0 ELSE (d + 1) - c.orthogonal_a
  BY <1>1, <1>2, <1>3, <1>4
<1>6. \A i \in DOMAIN longer : longer[i].type = TypeAt(c.orthogonal_a, c, i)
  <2>1. TypeAt(c.orthogonal_a, c, last) = "orthogonal"
    BY <1>4 DEF TypeAt
  <2> QED
    BY <1>3, <2>1 DEF Laid, LaidSizes, LaidTypes, LaidPairs, LaidKeys
<1>7. \A i \in DOMAIN longer : longer[i].type = "orthogonal" => longer[i].key \notin taken
  BY <1>3 DEF Laid, LaidSizes, LaidTypes, LaidPairs, LaidKeys
<1>8. \A i \in DOMAIN longer : /\ longer[i].type = "resolvable_conflict" => longer[i].key \in Objective
                               /\ longer[i].type = "ambiguous_conflict" => longer[i].key \in Subjective
  BY <1>3 DEF Laid, LaidSizes, LaidTypes, LaidPairs, LaidKeys
<1>9. Laid(c, d + 1, taken, longer, B)
  BY <1>4, <1>5, <1>6, <1>7, <1>8 DEF Laid, LaidSizes, LaidTypes, LaidPairs, LaidKeys
<1> QED
  BY <1>9 DEF longer

\* An orthogonal update of side b.
LEMMA LaidOrthogonalB ==
    ASSUME NEW c \in Configs, NEW d \in Nat,
           c.orthogonal_a <= d, d < c.orthogonal_a + c.orthogonal_b, NEW taken,
           NEW A \in Seq(UpdateSpec), NEW B \in Seq(UpdateSpec), Laid(c, d, taken, A, B),
           NEW u \in UpdateSpec, u.type = "orthogonal", u.key \notin taken \cup Touched(A)
    PROVE  Laid(c, d + 1, taken, A, Append(B, u))
<1> DEFINE longer == Append(B, u)
           last == Len(B) + 1
<1>1. c.orthogonal_a \in Nat /\ c.orthogonal_b \in Nat /\ c.resolvable \in Nat
  BY ConfigOK
<1>2. Len(A) = c.orthogonal_a /\ Len(B) = d - c.orthogonal_a
  BY <1>1 DEF Laid, LaidSizes, LaidTypes, LaidPairs, LaidKeys
<1>3. /\ DOMAIN longer = DOMAIN B \cup {last} /\ longer[last] = u /\ Len(longer) = last
      /\ \A i \in DOMAIN B : longer[i] = B[i]
  BY Longer
<1>4. last <= c.orthogonal_b /\ last \in Nat
  BY <1>1, <1>2
<1>5. \A i \in DOMAIN A : A[i].key # u.key /\ i \in Nat
  BY DEF Touched
<1> HIDE DEF longer, last
<1>6. /\ Len(A) = IF d + 1 <= c.orthogonal_a THEN d + 1
                  ELSE IF d + 1 <= c.orthogonal_a + c.orthogonal_b THEN c.orthogonal_a
                  ELSE (d + 1) - c.orthogonal_b
      /\ Len(longer) = IF d + 1 <= c.orthogonal_a THEN 0 ELSE (d + 1) - c.orthogonal_a
  BY <1>1, <1>2, <1>3 DEF last
<1>7. \A i \in DOMAIN longer : longer[i].type = TypeAt(c.orthogonal_b, c, i)
  <2>1. TypeAt(c.orthogonal_b, c, last) = "orthogonal"
    BY <1>4 DEF TypeAt
  <2> QED
    BY <1>3, <2>1 DEF Laid, LaidSizes, LaidTypes, LaidPairs, LaidKeys
<1>8. \A i \in DOMAIN longer : longer[i].type = "orthogonal" => longer[i].key \notin taken
  BY <1>3 DEF Laid, LaidSizes, LaidTypes, LaidPairs, LaidKeys
<1>9. \A i \in DOMAIN A, j \in DOMAIN longer :
          A[i].key = longer[j].key <=> i > c.orthogonal_a /\ j > c.orthogonal_b
                                           /\ i + c.orthogonal_b = j + c.orthogonal_a
  <2>1. ~(last > c.orthogonal_b)
    BY <1>1, <1>4
  <2>2. \A i \in DOMAIN A, j \in DOMAIN B :
            A[i].key = B[j].key <=> i > c.orthogonal_a /\ j > c.orthogonal_b
                                        /\ i + c.orthogonal_b = j + c.orthogonal_a
    BY DEF Laid, LaidSizes, LaidTypes, LaidPairs, LaidKeys
  <2> QED
    BY <1>3, <1>5, <2>1, <2>2
<1>10. /\ \A i \in DOMAIN A : A[i].type = TypeAt(c.orthogonal_a, c, i)
       /\ \A i \in DOMAIN A : A[i].type = "orthogonal" => A[i].key \notin taken
       /\ \A i \in DOMAIN A : /\ A[i].type = "resolvable_conflict" => A[i].key \in Objective
                              /\ A[i].type = "ambiguous_conflict" => A[i].key \in Subjective
  BY DEF Laid, LaidSizes, LaidTypes, LaidPairs, LaidKeys
<1>11. Laid(c, d + 1, taken, A, longer)
  <2>1. LaidSizes(c, d + 1, A, longer)
    BY <1>1, <1>6 DEF LaidSizes
  <2>2. LaidTypes(c, A, longer)
    BY <1>7, <1>10, Zenon DEF LaidTypes
  <2>3. LaidPairs(c, A, longer)
    BY <1>9, Zenon DEF LaidPairs
  <2>4. LaidKeys(taken, A, longer)
    BY <1>8, <1>10, Zenon DEF LaidKeys
  <2> QED
    BY <2>1, <2>2, <2>3, <2>4 DEF Laid
<1> QED
  BY <1>11 DEF longer

\* The sizes once the orthogonal updates are done.
LEMMA ConflictSizes ==
    ASSUME NEW c \in Configs, NEW d \in Nat, c.orthogonal_a + c.orthogonal_b <= d, NEW A, NEW B,
           Len(A) = (d + 1) - c.orthogonal_b, Len(B) = (d + 1) - c.orthogonal_a
    PROVE  LaidSizes(c, d + 1, A, B)
<1> DEFINE oa == c.orthogonal_a
           ob == c.orthogonal_b
<1>1. oa \in Nat /\ ob \in Nat
  BY ConfigOK
<1>2. oa + ob <= d /\ Len(A) = (d + 1) - ob /\ Len(B) = (d + 1) - oa
  OBVIOUS
<1>3. LaidSizes(c, d + 1, A, B)
          <=> /\ Len(A) = IF d + 1 <= oa THEN d + 1 ELSE IF d + 1 <= oa + ob THEN oa ELSE (d + 1) - ob
              /\ Len(B) = IF d + 1 <= oa THEN 0 ELSE (d + 1) - oa
  BY DEF LaidSizes
<1> HIDE DEF oa, ob
<1>4. ~(d + 1 <= oa) /\ ~(d + 1 <= oa + ob)
  BY <1>1, <1>2
<1> QED
  BY <1>2, <1>3, <1>4

\* A conflict, of the type whose turn it is.
LEMMA LaidConflict ==
    ASSUME NEW c \in Configs, NEW d \in Nat,
           c.orthogonal_a + c.orthogonal_b <= d, NEW taken,
           NEW A \in Seq(UpdateSpec), NEW B \in Seq(UpdateSpec), Laid(c, d, taken, A, B),
           NEW u \in UpdateSpec, NEW w \in UpdateSpec, u.type = w.type, u.key = w.key,
           u.type = IF d < c.orthogonal_a + c.orthogonal_b + c.resolvable
                    THEN "resolvable_conflict" ELSE "ambiguous_conflict",
           u.type = "resolvable_conflict" => u.key \in Objective,
           u.type = "ambiguous_conflict" => u.key \in Subjective,
           u.key \notin Touched(A) \cup Touched(B)
    PROVE  Laid(c, d + 1, taken, Append(A, u), Append(B, w))
<1> DEFINE longA == Append(A, u)
           longB == Append(B, w)
           lastA == Len(A) + 1
           lastB == Len(B) + 1
           oa == c.orthogonal_a
           ob == c.orthogonal_b
<1>1. oa \in Nat /\ ob \in Nat /\ c.resolvable \in Nat
  BY ConfigOK
<1>2. Len(A) = d - ob /\ Len(B) = d - oa
  BY <1>1 DEF Laid, LaidSizes, LaidTypes, LaidPairs, LaidKeys
<1>0. oa + ob <= d
  OBVIOUS
<1>3. /\ DOMAIN longA = DOMAIN A \cup {lastA} /\ longA[lastA] = u /\ Len(longA) = lastA
      /\ \A i \in DOMAIN A : longA[i] = A[i]
  BY Longer
<1>4. /\ DOMAIN longB = DOMAIN B \cup {lastB} /\ longB[lastB] = w /\ Len(longB) = lastB
      /\ \A j \in DOMAIN B : longB[j] = B[j]
  BY Longer
<1>5. /\ lastA = d - ob + 1 /\ lastB = d - oa + 1 /\ lastA \in Nat /\ lastB \in Nat
      /\ lastA > oa /\ lastB > ob /\ lastA + ob = lastB + oa
  <2> HIDE DEF oa, ob
  <2>1. lastA = d - ob + 1 /\ lastB = d - oa + 1
    BY <1>2
  <2> HIDE DEF lastA, lastB
  <2> QED
    BY <1>0, <1>1, <2>1
<1>6. /\ \A i \in DOMAIN A : i \in Nat /\ i < lastA
      /\ \A j \in DOMAIN B : j \in Nat /\ j < lastB
  OBVIOUS
<1>7. /\ \A i \in DOMAIN A : A[i].key # u.key
      /\ \A j \in DOMAIN B : B[j].key # u.key
  BY DEF Touched
<1>8. /\ \A i \in DOMAIN A, j \in DOMAIN B :
             A[i].key = B[j].key <=> i > oa /\ j > ob /\ i + ob = j + oa
      /\ \A i \in DOMAIN A : A[i].type = TypeAt(oa, c, i)
      /\ \A j \in DOMAIN B : B[j].type = TypeAt(ob, c, j)
      /\ \A i \in DOMAIN A : A[i].type = "orthogonal" => A[i].key \notin taken
      /\ \A j \in DOMAIN B : B[j].type = "orthogonal" => B[j].key \notin taken
      /\ \A i \in DOMAIN A : /\ A[i].type = "resolvable_conflict" => A[i].key \in Objective
                             /\ A[i].type = "ambiguous_conflict" => A[i].key \in Subjective
  BY DEF Laid, LaidSizes, LaidTypes, LaidPairs, LaidKeys
<1>9. u.type = TypeAt(oa, c, lastA) /\ w.type = TypeAt(ob, c, lastB) /\ u.type # "orthogonal"
  <2>0. u.type = IF d < oa + ob + c.resolvable THEN "resolvable_conflict" ELSE "ambiguous_conflict"
    OBVIOUS
  <2> HIDE DEF lastA, lastB, oa, ob
  <2>1. lastA <= oa + c.resolvable <=> d < oa + ob + c.resolvable
    BY <1>1, <1>5
  <2>2. lastB <= ob + c.resolvable <=> d < oa + ob + c.resolvable
    BY <1>1, <1>5
  <2>3. ~(lastA <= oa) /\ ~(lastB <= ob)
    BY <1>1, <1>5
  <2> QED
    BY <2>0, <2>1, <2>2, <2>3 DEF TypeAt
<1> HIDE DEF longA, longB
<1>10. \A i \in DOMAIN longA, j \in DOMAIN longB :
           longA[i].key = longB[j].key <=> i > oa /\ j > ob /\ i + ob = j + oa
  <2> SUFFICES ASSUME NEW i \in DOMAIN longA, NEW j \in DOMAIN longB
               PROVE  longA[i].key = longB[j].key <=> i > oa /\ j > ob /\ i + ob = j + oa
    OBVIOUS
  <2> HIDE DEF lastA, lastB, oa, ob
  <2>1. CASE i \in DOMAIN A /\ j \in DOMAIN B
    BY <1>3, <1>4, <1>8, <2>1
  <2>2. CASE i = lastA /\ j = lastB
    BY <1>3, <1>4, <1>5, <2>2
  <2>3. CASE i = lastA /\ j \in DOMAIN B
    BY <1>1, <1>3, <1>4, <1>5, <1>6, <1>7, <2>3
  <2>4. CASE i \in DOMAIN A /\ j = lastB
    BY <1>1, <1>3, <1>4, <1>5, <1>6, <1>7, <2>4
  <2> QED
    BY <1>3, <1>4, <2>1, <2>2, <2>3, <2>4
<1>11. LaidSizes(c, d + 1, longA, longB)
  <2>1. Len(longA) = (d + 1) - ob /\ Len(longB) = (d + 1) - oa
    <3> HIDE DEF lastA, lastB, oa, ob
    <3> QED
      BY <1>1, <1>3, <1>4, <1>5
  <2> QED
    BY <1>0, <2>1, ConflictSizes
<1> HIDE DEF lastA, lastB
<1>12. /\ \A i \in DOMAIN longA : longA[i].type = TypeAt(oa, c, i)
       /\ \A j \in DOMAIN longB : longB[j].type = TypeAt(ob, c, j)
  BY <1>3, <1>4, <1>8, <1>9
<1>13. /\ \A i \in DOMAIN longA : longA[i].type = "orthogonal" => longA[i].key \notin taken
       /\ \A j \in DOMAIN longB : longB[j].type = "orthogonal" => longB[j].key \notin taken
       /\ \A i \in DOMAIN longA : /\ longA[i].type = "resolvable_conflict" => longA[i].key \in Objective
                                  /\ longA[i].type = "ambiguous_conflict" => longA[i].key \in Subjective
  BY <1>3, <1>4, <1>8, <1>9
<1>14. Laid(c, d + 1, taken, longA, longB)
  <2>2. LaidTypes(c, longA, longB)
    BY <1>12, Zenon DEF LaidTypes
  <2>3. LaidPairs(c, longA, longB)
    BY <1>10, Zenon DEF LaidPairs
  <2>4. LaidKeys(taken, longA, longB)
    BY <1>13, Zenon DEF LaidKeys
  <2> QED
    BY <1>11, <2>2, <2>3, <2>4 DEF Laid
<1> QED
  BY <1>14 DEF longA, longB

\* A key that both lists lack if it is shared by neither or was never orthogonal:
\* the ancestor's keys are touched only by conflicts.
LEMMA ReusableIsFresh ==
    ASSUME NEW c \in Configs, NEW d \in Nat, NEW taken,
           NEW A \in Seq(UpdateSpec), NEW B \in Seq(UpdateSpec), Laid(c, d, taken, A, B),
           NEW k \in taken, k \notin Touched(A) \cap Touched(B)
    PROVE  k \notin Touched(A) \cup Touched(B)
<1> DEFINE oa == c.orthogonal_a
           ob == c.orthogonal_b
<1>1. oa \in Nat /\ ob \in Nat
  BY ConfigOK
<1>2. DOMAIN A = 1..Len(A) /\ DOMAIN B = 1..Len(B) /\ Len(A) \in Nat /\ Len(B) \in Nat
  OBVIOUS
<1>3. /\ Len(A) = IF d <= oa THEN d ELSE IF d <= oa + ob THEN oa ELSE d - ob
      /\ Len(B) = IF d <= oa THEN 0 ELSE d - oa
  BY DEF Laid, LaidSizes, LaidTypes, LaidPairs, LaidKeys
<1>4. ASSUME NEW i \in DOMAIN A, A[i].key = k PROVE FALSE
  <2>1. A[i].type # "orthogonal"
    BY <1>4 DEF Laid, LaidSizes, LaidTypes, LaidPairs, LaidKeys
  <2>2. ~(i <= oa)
    BY <2>1 DEF Laid, LaidSizes, LaidTypes, LaidPairs, LaidKeys, TypeAt
  <2>3. i + ob - oa \in DOMAIN B /\ i + ob - oa > ob /\ i > oa /\ i + ob = (i + ob - oa) + oa
    <3> HIDE DEF oa, ob
    <3>1. i \in Nat /\ i > oa /\ i <= Len(A)
      BY <1>1, <1>2, <2>2
    <3>2. d > oa /\ Len(B) = d - oa
      BY <1>1, <1>2, <1>3, <3>1
    <3>3. d > oa + ob /\ Len(A) = d - ob
      BY <1>1, <1>3, <3>1, <3>2
    <3>4. i + ob - oa \in Nat /\ i + ob - oa >= 1 /\ i + ob - oa <= Len(B)
      BY <1>1, <3>1, <3>2, <3>3
    <3> QED
      BY <1>1, <1>2, <3>1, <3>4
  <2>4. A[i].key = B[i + ob - oa].key
    BY <2>3 DEF Laid, LaidSizes, LaidTypes, LaidPairs, LaidKeys
  <2> QED
    BY <1>4, <2>3, <2>4 DEF Touched
<1>5. ASSUME NEW j \in DOMAIN B, B[j].key = k PROVE FALSE
  <2>1. B[j].type # "orthogonal"
    BY <1>5 DEF Laid, LaidSizes, LaidTypes, LaidPairs, LaidKeys
  <2>2. ~(j <= ob)
    BY <2>1 DEF Laid, LaidSizes, LaidTypes, LaidPairs, LaidKeys, TypeAt
  <2>3. j + oa - ob \in DOMAIN A /\ j + oa - ob > oa /\ j > ob /\ (j + oa - ob) + ob = j + oa
    <3> HIDE DEF oa, ob
    <3>1. j \in Nat /\ j > ob /\ j <= Len(B)
      BY <1>1, <1>2, <2>2
    <3>2. d > oa /\ Len(B) = d - oa
      BY <1>1, <1>2, <1>3, <3>1
    <3>3. d > oa + ob /\ Len(A) = d - ob
      BY <1>1, <1>3, <3>1, <3>2
    <3>4. j + oa - ob \in Nat /\ j + oa - ob >= 1 /\ j + oa - ob <= Len(A)
      BY <1>1, <3>1, <3>2, <3>3
    <3> QED
      BY <1>1, <1>2, <3>1, <3>4
  <2>4. A[j + oa - ob].key = B[j].key
    BY <2>3 DEF Laid, LaidSizes, LaidTypes, LaidPairs, LaidKeys
  <2> QED
    BY <1>5, <2>3, <2>4 DEF Touched
<1> QED
  BY <1>4, <1>5 DEF Touched

\* A key for a conflict is one of its predicates that neither list has.
LEMMA ConflictKeyFresh ==
    ASSUME TypeOK, SynthInv, config \in Configs,
           NEW predicates \in SUBSET Keys, NEW k \in ConflictKeys(predicates)
    PROVE  k \in predicates /\ Fresh(k)
<1> DEFINE A == updates["a"]
           B == updates["b"]
           d == Total(config) - Len(left)
<1>1. A \in Seq(UpdateSpec) /\ B \in Seq(UpdateSpec) /\ Laid(config, d, KeysOf(root), A, B)
  BY TheLists DEF SynthInv
<1>2. d \in Nat
  BY ConfigOK DEF SynthInv
<1>3. \/ k \in KeysOf(root) \cap predicates /\ k \notin Touched(A) \cap Touched(B)
      \/ k \in predicates /\ k \notin Touched(A) \cup Touched(B)
  BY DEF ConflictKeys, ReusableKeys, NewKeys, used_keys, consumed, SharedKeys
<1> HIDE DEF A, B, d
<1>4. k \in predicates /\ k \notin Touched(A) \cup Touched(B)
  BY <1>1, <1>2, <1>3, ReusableIsFresh
<1> QED
  BY <1>4 DEF Fresh, A, B

-----------------------------------------------------------------------------
(* The steps of the synthetic generator.                                    *)

\* What all sources keep, whatever they make.
Sound == GenTypeOK /\ Accepted /\ InForce /\ PairsMade

\* The generator starts with all of its loops to do.
LEMMA SynthInitOK ==
    ASSUME config \in Configs, SynthInit, root = <<>>, updates = [s \in Sides |-> <<>>],
           phase = "ancestor"
    PROVE  SynthInv
<1> DEFINE T == Total(config)
<1>1. /\ left \in Seq(Steps) /\ Len(left) = T
      /\ \A n \in 1..T : left[n] = StepAt(config, n)
  BY LoopOrder DEF SynthInit
<1>2. /\ config.ancestor \in Nat /\ config.orthogonal_a \in Nat /\ config.orthogonal_b \in Nat
      /\ T \in Nat
  BY ConfigOK
<1> HIDE DEF T
<1>3. T - Len(left) = 0 /\ Len(left) <= T /\ Len(root) <= config.ancestor
  BY <1>1, <1>2
<1>4. \A n \in DOMAIN left : left[n] = StepAt(config, (T - Len(left)) + n)
  <2> SUFFICES ASSUME NEW n \in DOMAIN left PROVE left[n] = StepAt(config, (T - Len(left)) + n)
    OBVIOUS
  <2>1. n \in 1..T /\ (T - Len(left)) + n = n
    BY <1>1, <1>3
  <2> QED
    BY <1>1, <2>1
<1>5. updates["a"] = <<>> /\ updates["b"] = <<>>
  BY NothingTouched
<1>6. Laid(config, 0, KeysOf(root), <<>>, <<>>)
  <2>1. LaidSizes(config, 0, <<>>, <<>>)
    BY <1>2 DEF LaidSizes
  <2>2. LaidTypes(config, <<>>, <<>>) /\ LaidPairs(config, <<>>, <<>>)
        /\ LaidKeys(KeysOf(root), <<>>, <<>>)
    BY DEF LaidTypes, LaidPairs, LaidKeys
  <2> QED
    BY <2>1, <2>2 DEF Laid
<1>7. Laid(config, T - Len(left), KeysOf(root), updates["a"], updates["b"])
  BY <1>3, <1>5, <1>6
<1> QED
  BY <1>1, <1>3, <1>4, <1>7 DEF SynthInv, T

LEMMA SampleAncestorStep ==
    ASSUME GenTypeOK, Accepted, source = "synthetic", SynthInv,
           SampleAncestor, UNCHANGED <<template, mabVars, source>>
    PROVE  Sound' /\ SynthInv'
<1>1. PICK order \in {f \in [1..SampleSize -> Keys] : IsInjective(f)},
           value \in [1..SampleSize -> Values] :
           MakeAncestor([i \in 1..SampleSize |-> [key |-> order[i], value |-> value[i]]])
  BY DEF SampleAncestor
<1> DEFINE contents == [i \in 1..SampleSize |-> [key |-> order[i], value |-> value[i]]]
<1>2. /\ phase = "ancestor" /\ phase' = "updates" /\ UNCHANGED simVars
      /\ root' = AncestorFacts(contents, AncestorTime)
      /\ UNCHANGED <<updates, config, left>>
  BY <1>1 DEF MakeAncestor, SampleAncestor, synthVars
<1>3. config \in Configs /\ TypeOK /\ updates = [s \in Sides |-> <<>>]
  BY <1>2 DEF GenTypeOK
<1>4. config.ancestor \in Nat /\ AncestorTime \in Nat
  BY <1>3, ConfigOK, StreamsAssumption
<1>5. SampleSize \in Nat /\ SampleSize <= config.ancestor
  <2>1. Cardinality(Keys) \in Nat
    BY GeneratorAssumption, FS_CardinalityType
  <2> QED
    BY <1>4, <2>1 DEF SampleSize
<1>6. contents \in Seq([key : Keys, value : Values]) /\ Len(contents) = SampleSize
  <2> DEFINE size == SampleSize
  <2>1. \A i \in 1..size : [key |-> order[i], value |-> value[i]] \in [key : Keys, value : Values]
    OBVIOUS
  <2>2. size \in Nat
    BY <1>5
  <2> HIDE DEF size
  <2>3. /\ [i \in 1..size |-> [key |-> order[i], value |-> value[i]]]
               \in Seq([key : Keys, value : Values])
        /\ Len([i \in 1..size |-> [key |-> order[i], value |-> value[i]]]) = size
    BY <2>1, <2>2
  <2> QED
    BY <2>3 DEF size
<1> HIDE DEF contents
<1>7. IsRoot(root') /\ Len(root') = SampleSize
  BY <1>2, <1>4, <1>6, AncestorOK DEF IsRoot
<1>8. InForce' /\ PairsMade' /\ pc = "fork" /\ pc' = "fork"
  BY <1>2, IdleStep
<1>9. TypeOK'
  <2>1. updates' \in [Sides -> Seq(UpdateSpec)]
    BY <1>2, <1>3 DEF TypeOK
  <2> QED
    BY <1>2, <1>7, <2>1, GrownType
<1>10. GenTypeOK'
  BY <1>2, <1>9 DEF GenTypeOK, simVars, mabVars
<1>11. Accepted'
  <2>1. Meet(Conflicts', updates["a"], updates["b"])
    BY <1>3, NothingTouched
  <2> QED
    BY <1>2, <1>8, <2>1 DEF Accepted
<1>12. SynthInv'
  <2>1. updates["a"] = <<>> /\ updates["b"] = <<>>
    BY <1>3, NothingTouched
  <2>2. Laid(config, Total(config) - Len(left), KeysOf(root), <<>>, <<>>)
    BY <2>1 DEF SynthInv
  <2>3. LaidKeys(KeysOf(root'), <<>>, <<>>)
    BY DEF LaidKeys
  <2>4. Laid(config, Total(config) - Len(left), KeysOf(root'), <<>>, <<>>)
    BY <2>2, <2>3 DEF Laid
  <2>5. Len(root') <= config.ancestor
    BY <1>5, <1>7
  <2>6. Laid(config', Total(config') - Len(left'), KeysOf(root'), updates'["a"], updates'["b"])
    BY <1>2, <2>1, <2>4
  <2> QED
    BY <1>2, <2>5, <2>6 DEF SynthInv
<1> QED
  BY <1>8, <1>10, <1>11, <1>12 DEF Sound

\* What an iteration leaves alone, and what it has left to do.
LEMMA MadeStep ==
    ASSUME GenTypeOK, source = "synthetic", SynthInv, phase = "updates", left # <<>>,
           Made, UNCHANGED <<template, mabVars, source>>,
           updates' \in [Sides -> Seq(UpdateSpec)], Accepted',
           Laid(config, (Total(config) - Len(left)) + 1, KeysOf(root), updates'["a"], updates'["b"])
    PROVE  Sound' /\ SynthInv'
<1>1. UNCHANGED <<root, simVars, phase, config>> /\ left' = Tail(left) /\ config \in Configs
  BY DEF Made, GenTypeOK
<1>2. TypeOK'
  BY <1>1, GrownType DEF GenTypeOK, TypeOK
<1>3. GenTypeOK'
  BY <1>1, <1>2 DEF GenTypeOK, simVars, mabVars
<1>4. InForce' /\ PairsMade'
  BY <1>1, IdleStep
<1>5. /\ left' \in Seq(Steps) /\ Len(left') <= Total(config)
      /\ Total(config) - Len(left') = (Total(config) - Len(left)) + 1
      /\ \A n \in DOMAIN left' : left'[n] = StepAt(config, Total(config) - Len(left') + n)
  BY <1>1, IterationDone
<1>6. Laid(config', Total(config') - Len(left'), KeysOf(root'), updates'["a"], updates'["b"])
  BY <1>1, <1>5
<1>7. SynthInv'
  <2>1. Len(root') <= config'.ancestor /\ phase' # "diverge"
    BY <1>1 DEF SynthInv
  <2> QED
    BY <1>1, <1>5, <1>6, <2>1 DEF SynthInv
<1> QED
  BY <1>3, <1>4, <1>7 DEF Sound

\* An iteration that adds an orthogonal update of a new key.
LEMMA SynthOne ==
    ASSUME GenTypeOK, Accepted, source = "synthetic", SynthInv, phase = "updates", left # <<>>,
           Made, UNCHANGED <<template, mabVars, source>>,
           NEW side \in Sides, Head(left) = IF side = "a" THEN "orthogonal_a" ELSE "orthogonal_b",
           NEW u \in UpdateSpec, u.type = "orthogonal", u.key \notin used_keys,
           u.ts > AncestorTime, updates' = [updates EXCEPT ![side] = Append(updates[side], u)]
    PROVE  Sound' /\ SynthInv'
<1> DEFINE A == updates["a"]
           B == updates["b"]
           d == Total(config) - Len(left)
           taken == KeysOf(root)
<1>1. UNCHANGED <<root, simVars, phase, config>> /\ config \in Configs /\ TypeOK
  BY DEF Made, GenTypeOK
<1>2. Conflicts' = Conflicts
  BY <1>1, ConflictsStay DEF mabVars
<1>3. pc' = pc
  BY <1>1 DEF simVars
<1>4. GrowsOne(side, u)
  BY DEF GrowsOne, Fresh, used_keys
<1>5. Accepted' /\ updates' \in [Sides -> Seq(UpdateSpec)]
  BY <1>1, <1>2, <1>3, <1>4, AcceptedOne
<1>6. A \in Seq(UpdateSpec) /\ B \in Seq(UpdateSpec) /\ Laid(config, d, taken, A, B)
  BY <1>1, TheLists DEF SynthInv
<1>7. u.key \notin taken \cup Touched(A)
  BY DEF used_keys
<1>8. /\ d \in Nat
      /\ side = "a" => d < config.orthogonal_a
      /\ side = "b" => config.orthogonal_a <= d /\ d < config.orthogonal_a + config.orthogonal_b
  BY <1>1, NextIteration DEF Sides
<1>9. \/ side = "a" /\ updates'["a"] = Append(A, u) /\ updates'["b"] = B
      \/ side = "b" /\ updates'["a"] = A /\ updates'["b"] = Append(B, u)
  BY <1>1 DEF TypeOK, Sides
<1> HIDE DEF A, B, d, taken
<1>10. Laid(config, d + 1, taken, updates'["a"], updates'["b"])
  <2>1. CASE side = "a"
    <3>1. Laid(config, d + 1, taken, Append(A, u), B)
      BY <1>1, <1>6, <1>7, <1>8, <2>1, LaidOrthogonalA
    <3> QED
      BY <1>9, <2>1, <3>1
  <2>2. CASE side = "b"
    <3>1. Laid(config, d + 1, taken, A, Append(B, u))
      BY <1>1, <1>6, <1>7, <1>8, <2>2, LaidOrthogonalB
    <3> QED
      BY <1>9, <2>2, <3>1
  <2> QED
    BY <1>9, <2>1, <2>2
<1> QED
  BY <1>5, <1>10, MadeStep DEF d, taken

LEMMA AddOrthogonalStep ==
    ASSUME GenTypeOK, Accepted, source = "synthetic", SynthInv,
           NEW side \in Sides, AddOrthogonal(side), UNCHANGED <<template, mabVars, source>>
    PROVE  Sound' /\ SynthInv'
<1>0. PICK k \in NewKeys(Keys) : \E v \in Pool[k], ts \in Times :
          Extend(side, Update(k, v, ts, Certain, "orthogonal", None))
  BY DEF AddOrthogonal
<1>1. PICK v \in Pool[k], ts \in Times :
          Extend(side, Update(k, v, ts, Certain, "orthogonal", None))
  BY <1>0
<1>2. /\ phase = "updates" /\ left # <<>> /\ Made
      /\ Head(left) = IF side = "a" THEN "orthogonal_a" ELSE "orthogonal_b"
  BY DEF AddOrthogonal, Iteration
<1> DEFINE type == "orthogonal"
           u == Update(k, v, ts, Certain, type, None)
<1>3. k \in Keys /\ k \notin used_keys
  BY DEF NewKeys
<1>4. v \in Values /\ ts \in Nat /\ ts > AncestorTime
  BY <1>3, GeneratorAssumption
<1>5. Certain \in Nat /\ type \in DivergenceTypes
  BY DEF Certain, DivergenceTypes
<1>6. u \in UpdateSpec /\ u.key = k /\ u.ts = ts /\ u.type = type
  BY <1>3, <1>4, <1>5, UpdateOK
<1>7. updates' = [updates EXCEPT ![side] = Append(updates[side], u)]
  BY <1>1 DEF Extend, GenTypeOK, TypeOK
<1> HIDE DEF u
<1> QED
  BY <1>2, <1>3, <1>4, <1>6, <1>7, SynthOne

\* An iteration that adds a declared conflict on a key that neither list has.
LEMMA SynthBoth ==
    ASSUME GenTypeOK, Accepted, source = "synthetic", SynthInv, phase = "updates", left # <<>>,
           Made, UNCHANGED <<template, mabVars, source>>,
           Head(left) \in {"resolvable", "ambiguous"},
           NEW u \in UpdateSpec, NEW w \in UpdateSpec, Declared(u, w), u.key = w.key, Fresh(u.key),
           u.type = IF Head(left) = "resolvable" THEN "resolvable_conflict" ELSE "ambiguous_conflict",
           u.key \in IF Head(left) = "resolvable" THEN Objective ELSE Subjective,
           u.ts > AncestorTime, w.ts > AncestorTime, ExtendBoth(u, w)
    PROVE  Sound' /\ SynthInv'
<1> DEFINE A == updates["a"]
           B == updates["b"]
           d == Total(config) - Len(left)
           taken == KeysOf(root)
<1>1. UNCHANGED <<root, simVars, phase, config>> /\ config \in Configs /\ TypeOK
  BY DEF Made, GenTypeOK
<1>2. Conflicts' = Conflicts
  BY <1>1, ConflictsStay DEF mabVars
<1>3. pc' = pc
  BY <1>1 DEF simVars
<1>4. GrowsBoth(u, w)
  BY DEF GrowsBoth, ExtendBoth, Conflicts
<1>5. Accepted' /\ updates' \in [Sides -> Seq(UpdateSpec)]
  BY <1>1, <1>2, <1>3, <1>4, AcceptedBoth
<1>6. A \in Seq(UpdateSpec) /\ B \in Seq(UpdateSpec) /\ Laid(config, d, taken, A, B)
  BY <1>1, TheLists DEF SynthInv
<1>7. /\ u.type = w.type /\ u.key \notin Touched(A) \cup Touched(B)
      /\ u.type = "resolvable_conflict" => u.key \in Objective
      /\ u.type = "ambiguous_conflict" => u.key \in Subjective
  BY DEF Declared, Fresh
<1>8. /\ d \in Nat /\ config.orthogonal_a + config.orthogonal_b <= d
      /\ Head(left) = "resolvable" <=> d < config.orthogonal_a + config.orthogonal_b + config.resolvable
  <2>1. /\ d \in Nat
        /\ Head(left) = "resolvable" =>
               /\ config.orthogonal_a + config.orthogonal_b <= d
               /\ d < config.orthogonal_a + config.orthogonal_b + config.resolvable
        /\ Head(left) = "ambiguous" =>
               config.orthogonal_a + config.orthogonal_b + config.resolvable <= d
    BY <1>1, NextIteration
  <2>2. config.orthogonal_a \in Nat /\ config.orthogonal_b \in Nat /\ config.resolvable \in Nat
    BY <1>1, ConfigOK
  <2> HIDE DEF d
  <2> QED
    BY <2>1, <2>2
<1>9. updates'["a"] = Append(A, u) /\ updates'["b"] = Append(B, w)
  BY DEF ExtendBoth, Sides
<1>10. u.type = IF d < config.orthogonal_a + config.orthogonal_b + config.resolvable
                THEN "resolvable_conflict" ELSE "ambiguous_conflict"
  BY <1>8
<1> HIDE DEF A, B, d, taken
<1>11. Laid(config, d + 1, taken, Append(A, u), Append(B, w))
  BY <1>1, <1>6, <1>7, <1>8, <1>10, LaidConflict
<1>12. Laid(config, d + 1, taken, updates'["a"], updates'["b"])
  BY <1>9, <1>11
<1> QED
  BY <1>5, <1>12, MadeStep DEF d, taken

\* Two values of a pool, which are equal only if it has a single alternative.
LEMMA ValuePairOK ==
    ASSUME NEW k \in Keys, NEW values \in ValuePairs(k)
    PROVE  /\ values[1] \in Values /\ values[2] \in Values
           /\ values[1] = values[2] => Cardinality(Alternatives(k)) = 1
<1>1. values \in Alternatives(k) \X Alternatives(k)
      /\ (values[1] # values[2] \/ Alternatives(k) = {values[1]})
  BY DEF ValuePairs
<1>2. Alternatives(k) \subseteq Values
  BY GeneratorAssumption DEF Alternatives
<1>3. Cardinality({values[1]}) = 1
  BY FS_Singleton
<1> QED
  BY <1>1, <1>2, <1>3

\* A resolvable conflict: the truth is on one side, and confidence points to it
\* unless there is noise.
LEMMA ResolvableDeclared ==
    ASSUME source = "synthetic", NEW k \in Keys, NEW values \in ValuePairs(k),
           NEW aIsUser \in BOOLEAN, NEW noisy \in Draw(config.noise),
           NEW tsA \in Nat, NEW tsB \in Nat,
           NEW u, u = Update(k, values[1], tsA, IF aIsUser THEN User ELSE Inferred,
                             "resolvable_conflict", Truth(aIsUser, noisy, values)),
           NEW w, w = Update(k, values[2], tsB, IF aIsUser THEN Inferred ELSE User,
                             "resolvable_conflict", Truth(aIsUser, noisy, values))
    PROVE  /\ u \in UpdateSpec /\ w \in UpdateSpec /\ Declared(u, w)
           /\ u.key = k /\ w.key = k /\ u.ts = tsA /\ w.ts = tsB /\ u.type = "resolvable_conflict"
<1> DEFINE gt == Truth(aIsUser, noisy, values)
           confA == IF aIsUser THEN User ELSE Inferred
           confB == IF aIsUser THEN Inferred ELSE User
           type == "resolvable_conflict"
<1>1. /\ values[1] \in Values /\ values[2] \in Values
      /\ values[1] = values[2] => Cardinality(Alternatives(k)) = 1
  BY ValuePairOK
<1>2. gt \in {values[1], values[2]} /\ gt \in Values \cup {None}
  BY <1>1 DEF Truth
<1>3. config.noise = "never" => gt = IF aIsUser THEN values[1] ELSE values[2]
  BY DEF Draw, Truth
<1>4. confA \in Nat /\ confB \in Nat /\ confA # confB /\ (confA > confB <=> aIsUser)
  BY DEF User, Inferred
<1>5. type \in DivergenceTypes /\ type # "ambiguous_conflict"
  BY DEF DivergenceTypes
<1> HIDE DEF gt, confA, confB
<1>6. /\ u \in UpdateSpec /\ u.key = k /\ u.value = values[1] /\ u.ts = tsA
      /\ u.conf = confA /\ u.type = type /\ u.gt = gt
  <2>1. u = Update(k, values[1], tsA, confA, type, gt)
    BY DEF confA, gt
  <2> HIDE DEF type
  <2> QED
    BY <1>1, <1>2, <1>4, <1>5, <2>1, UpdateOK
<1>7. /\ w \in UpdateSpec /\ w.key = k /\ w.value = values[2] /\ w.ts = tsB
      /\ w.conf = confB /\ w.type = type /\ w.gt = gt
  <2>1. w = Update(k, values[2], tsB, confB, type, gt)
    BY DEF confB, gt
  <2> HIDE DEF type
  <2> QED
    BY <1>1, <1>2, <1>4, <1>5, <2>1, UpdateOK
<1>8. u.value = w.value => MayAgree(u.key)
  BY <1>1, <1>6, <1>7 DEF MayAgree
<1>9. config.noise = "never" => u.gt = IF u.conf > w.conf THEN u.value ELSE w.value
  BY <1>3, <1>4, <1>6, <1>7
<1>10. Declared(u, w)
  BY <1>2, <1>4, <1>5, <1>6, <1>7, <1>8, <1>9 DEF Declared
<1> QED
  BY <1>6, <1>7, <1>10

LEMMA AmbiguousDeclared ==
    ASSUME source = "synthetic", NEW k \in Keys, NEW values \in ValuePairs(k),
           NEW tsA \in Nat, NEW tsB \in Nat,
           NEW u, u = Update(k, values[1], tsA, Observed, "ambiguous_conflict", None),
           NEW w, w = Update(k, values[2], tsB, Observed, "ambiguous_conflict", None)
    PROVE  /\ u \in UpdateSpec /\ w \in UpdateSpec /\ Declared(u, w)
           /\ u.key = k /\ w.key = k /\ u.ts = tsA /\ w.ts = tsB /\ u.type = "ambiguous_conflict"
<1> DEFINE type == "ambiguous_conflict"
<1>1. /\ values[1] \in Values /\ values[2] \in Values
      /\ values[1] = values[2] => Cardinality(Alternatives(k)) = 1
  BY ValuePairOK
<1>2. Observed \in Nat /\ None \in Values \cup {None}
  BY DEF Observed
<1>3. type \in DivergenceTypes /\ type # "resolvable_conflict"
  BY DEF DivergenceTypes
<1>4. /\ u \in UpdateSpec /\ u.key = k /\ u.value = values[1] /\ u.ts = tsA
      /\ u.conf = Observed /\ u.type = type /\ u.gt = None
  <2> HIDE DEF type
  <2>1. u = Update(k, values[1], tsA, Observed, type, None)
    BY DEF type
  <2> QED
    BY <1>1, <1>2, <1>3, <2>1, UpdateOK
<1>5. /\ w \in UpdateSpec /\ w.key = k /\ w.value = values[2] /\ w.ts = tsB
      /\ w.conf = Observed /\ w.type = type /\ w.gt = None
  <2> HIDE DEF type
  <2>1. w = Update(k, values[2], tsB, Observed, type, None)
    BY DEF type
  <2> QED
    BY <1>1, <1>2, <1>3, <2>1, UpdateOK
<1>6. u.value = w.value => MayAgree(u.key)
  BY <1>1, <1>4, <1>5 DEF MayAgree
<1>7. Declared(u, w)
  BY <1>3, <1>4, <1>5, <1>6 DEF Declared
<1> QED
  BY <1>4, <1>5, <1>7

LEMMA AddResolvableStep ==
    ASSUME GenTypeOK, Accepted, source = "synthetic", SynthInv,
           AddResolvable, UNCHANGED <<template, mabVars, source>>
    PROVE  Sound' /\ SynthInv'
<1> DEFINE u(k, values, aIsUser, noisy, ts) ==
               Update(k, values[1], ts, IF aIsUser THEN User ELSE Inferred,
                      "resolvable_conflict", Truth(aIsUser, noisy, values))
           w(k, values, aIsUser, noisy, ts) ==
               Update(k, values[2], ts, IF aIsUser THEN Inferred ELSE User,
                      "resolvable_conflict", Truth(aIsUser, noisy, values))
<1>1. /\ phase = "updates" /\ left # <<>> /\ Made /\ Head(left) = "resolvable"
      /\ config \in Configs /\ TypeOK
  BY DEF AddResolvable, Iteration, GenTypeOK
<1>2. PICK k \in ConflictKeys(Objective) : \E values \in ValuePairs(k) :
          \E aIsUser \in BOOLEAN, noisy \in Draw(config.noise), aligned \in Draw(config.correlates) :
          \E earlier, later \in Times :
              ExtendBoth(u(k, values, aIsUser, noisy, IF aIsUser = aligned THEN later ELSE earlier),
                         w(k, values, aIsUser, noisy, IF aIsUser = aligned THEN earlier ELSE later))
  BY DEF AddResolvable
<1>3. PICK values \in ValuePairs(k), aIsUser \in BOOLEAN, noisy \in Draw(config.noise) :
          \E tsA, tsB \in Times :
              ExtendBoth(u(k, values, aIsUser, noisy, tsA), w(k, values, aIsUser, noisy, tsB))
  <2> HIDE DEF u, w
  <2> QED
    BY <1>2
<1>4. PICK tsA \in Times, tsB \in Times :
          ExtendBoth(u(k, values, aIsUser, noisy, tsA), w(k, values, aIsUser, noisy, tsB))
  <2> HIDE DEF u, w
  <2> QED
    BY <1>3
<1>5. k \in Keys /\ k \in Objective /\ Fresh(k)
  <2>1. Objective \in SUBSET Keys
    BY GeneratorAssumption
  <2> QED
    BY <1>1, <2>1, ConflictKeyFresh
<1>6. tsA \in Nat /\ tsA > AncestorTime /\ tsB \in Nat /\ tsB > AncestorTime
  BY GeneratorAssumption
<1> DEFINE x == u(k, values, aIsUser, noisy, tsA)
           y == w(k, values, aIsUser, noisy, tsB)
<1>7. /\ x = Update(k, values[1], tsA, IF aIsUser THEN User ELSE Inferred,
                    "resolvable_conflict", Truth(aIsUser, noisy, values))
      /\ y = Update(k, values[2], tsB, IF aIsUser THEN Inferred ELSE User,
                    "resolvable_conflict", Truth(aIsUser, noisy, values))
  OBVIOUS
<1>8. ExtendBoth(x, y)
  BY <1>4
<1> HIDE DEF u, w, x, y
<1>9. /\ x \in UpdateSpec /\ y \in UpdateSpec /\ Declared(x, y)
      /\ x.key = k /\ y.key = k /\ x.ts = tsA /\ y.ts = tsB /\ x.type = "resolvable_conflict"
  BY <1>5, <1>6, <1>7, ResolvableDeclared
<1> QED
  BY <1>1, <1>5, <1>6, <1>8, <1>9, SynthBoth

LEMMA AddAmbiguousStep ==
    ASSUME GenTypeOK, Accepted, source = "synthetic", SynthInv,
           AddAmbiguous, UNCHANGED <<template, mabVars, source>>
    PROVE  Sound' /\ SynthInv'
<1>1. /\ phase = "updates" /\ left # <<>> /\ Made /\ Head(left) = "ambiguous"
      /\ config \in Configs /\ TypeOK
  BY DEF AddAmbiguous, Iteration, GenTypeOK
<1>2. PICK k \in ConflictKeys(Subjective) : \E values \in ValuePairs(k), tsA, tsB \in Times :
          ExtendBoth(Update(k, values[1], tsA, Observed, "ambiguous_conflict", None),
                     Update(k, values[2], tsB, Observed, "ambiguous_conflict", None))
  BY DEF AddAmbiguous
<1>3. PICK values \in ValuePairs(k), tsA \in Times, tsB \in Times :
          ExtendBoth(Update(k, values[1], tsA, Observed, "ambiguous_conflict", None),
                     Update(k, values[2], tsB, Observed, "ambiguous_conflict", None))
  BY <1>2
<1>4. k \in Keys /\ k \in Subjective /\ Fresh(k)
  <2>1. Subjective \in SUBSET Keys
    BY GeneratorAssumption
  <2> QED
    BY <1>1, <2>1, ConflictKeyFresh
<1>5. tsA \in Nat /\ tsA > AncestorTime /\ tsB \in Nat /\ tsB > AncestorTime
  BY GeneratorAssumption
<1> DEFINE x == Update(k, values[1], tsA, Observed, "ambiguous_conflict", None)
           y == Update(k, values[2], tsB, Observed, "ambiguous_conflict", None)
<1>6. /\ x = Update(k, values[1], tsA, Observed, "ambiguous_conflict", None)
      /\ y = Update(k, values[2], tsB, Observed, "ambiguous_conflict", None)
  OBVIOUS
<1>7. ExtendBoth(x, y)
  BY <1>3
<1> HIDE DEF x, y
<1>8. /\ x \in UpdateSpec /\ y \in UpdateSpec /\ Declared(x, y)
      /\ x.key = k /\ y.key = k /\ x.ts = tsA /\ y.ts = tsB /\ x.type = "ambiguous_conflict"
  BY <1>4, <1>5, <1>6, AmbiguousDeclared
<1> QED
  BY <1>1, <1>4, <1>5, <1>7, <1>8, SynthBoth

-----------------------------------------------------------------------------
(* Running out of keys.                                                     *)

\* The key that iteration n added to the lists a and b.
KeyAt(c, A, B, n) ==
    IF n <= c.orthogonal_a THEN A[n].key
    ELSE IF n <= c.orthogonal_a + c.orthogonal_b THEN B[n - c.orthogonal_a].key
    ELSE A[n - c.orthogonal_b].key

\* Every key of the lists was added by an iteration, and by one of the loop of
\* resolvable conflicts only if its predicate is objective.
LEMMA TouchedNumbered ==
    ASSUME NEW c \in Configs, NEW d \in Nat, NEW taken,
           NEW A \in Seq(UpdateSpec), NEW B \in Seq(UpdateSpec), Laid(c, d, taken, A, B),
           NEW k \in Touched(A) \cup Touched(B)
    PROVE  \E n \in 1..d :
               /\ k = KeyAt(c, A, B, n)
               /\ (c.orthogonal_a + c.orthogonal_b < n
                      /\ n <= c.orthogonal_a + c.orthogonal_b + c.resolvable) => k \in Objective
<1> DEFINE oa == c.orthogonal_a
           ob == c.orthogonal_b
           r == c.resolvable
<1>1. oa \in Nat /\ ob \in Nat /\ r \in Nat
  BY ConfigOK
<1>2. DOMAIN A = 1..Len(A) /\ DOMAIN B = 1..Len(B) /\ Len(A) \in Nat /\ Len(B) \in Nat
  OBVIOUS
<1>3. /\ Len(A) = IF d <= oa THEN d ELSE IF d <= oa + ob THEN oa ELSE d - ob
      /\ Len(B) = IF d <= oa THEN 0 ELSE d - oa
  BY DEF Laid, LaidSizes
<1>4. \A n : KeyAt(c, A, B, n) =
          IF n <= oa THEN A[n].key ELSE IF n <= oa + ob THEN B[n - oa].key ELSE A[n - ob].key
  BY DEF KeyAt
<1>5. \A i \in DOMAIN A : /\ A[i].type = TypeAt(oa, c, i)
                          /\ A[i].type = "resolvable_conflict" => A[i].key \in Objective
  BY DEF Laid, LaidTypes, LaidKeys
<1>6. \A i \in DOMAIN A : i > oa /\ i <= oa + r => A[i].key \in Objective
  <2> SUFFICES ASSUME NEW i \in DOMAIN A, i > oa, i <= oa + r PROVE A[i].key \in Objective
    OBVIOUS
  <2>1. ~(i <= oa)
    BY <1>1, <1>2
  <2>2. TypeAt(oa, c, i) = "resolvable_conflict"
    BY <2>1 DEF TypeAt
  <2> QED
    BY <1>5, <2>2
<1>7. \A i \in DOMAIN A, j \in DOMAIN B : i > oa /\ j > ob /\ i + ob = j + oa => A[i].key = B[j].key
  BY DEF Laid, LaidPairs
<1> HIDE DEF oa, ob, r
\* The conflicts are numbered by their places on side a.
<1>8. ASSUME NEW i \in DOMAIN A, i > oa, k = A[i].key
      PROVE  \E n \in 1..d : /\ k = KeyAt(c, A, B, n)
                             /\ oa + ob < n /\ n <= oa + ob + r => k \in Objective
  <2>1. i + ob \in 1..d /\ ~(i + ob <= oa + ob) /\ ~(i + ob <= oa) /\ (i + ob) - ob = i
    BY <1>1, <1>2, <1>3, <1>8
  <2>2. k = KeyAt(c, A, B, i + ob)
    BY <1>4, <1>8, <2>1
  <2>3. i + ob <= oa + ob + r => k \in Objective
    <3>1. i + ob <= oa + ob + r => i <= oa + r
      BY <1>1, <1>2
    <3> QED
      BY <1>6, <1>8, <3>1
  <2> QED
    BY <2>1, <2>2, <2>3
<1>9. ASSUME NEW i \in DOMAIN A, k = A[i].key
      PROVE  \E n \in 1..d : /\ k = KeyAt(c, A, B, n)
                             /\ oa + ob < n /\ n <= oa + ob + r => k \in Objective
  <2>1. CASE i > oa
    BY <1>8, <1>9, <2>1
  <2>2. CASE i <= oa
    <3>1. i \in 1..d /\ ~(oa + ob < i)
      BY <1>1, <1>2, <1>3, <2>2
    <3>2. k = KeyAt(c, A, B, i)
      BY <1>4, <1>9, <2>2
    <3> QED
      BY <3>1, <3>2
  <2> QED
    BY <1>1, <1>2, <2>1, <2>2
<1>10. ASSUME NEW j \in DOMAIN B, k = B[j].key
       PROVE  \E n \in 1..d : /\ k = KeyAt(c, A, B, n)
                              /\ oa + ob < n /\ n <= oa + ob + r => k \in Objective
  <2>1. CASE j > ob
    <3>1. j + oa - ob \in DOMAIN A /\ j + oa - ob > oa /\ (j + oa - ob) + ob = j + oa
      <4>1. d > oa /\ Len(B) = d - oa /\ j \in Nat /\ j <= Len(B)
        BY <1>1, <1>2, <1>3
      <4>2. d > oa + ob /\ Len(A) = d - ob
        BY <1>1, <1>3, <2>1, <4>1
      <4>3. j + oa - ob \in Nat /\ j + oa - ob >= 1 /\ j + oa - ob <= Len(A)
        BY <1>1, <2>1, <4>1, <4>2
      <4> QED
        BY <1>1, <1>2, <2>1, <4>1, <4>3
    <3>2. A[j + oa - ob].key = k
      BY <1>7, <1>10, <2>1, <3>1
    <3> QED
      BY <1>8, <3>1, <3>2
  <2>2. CASE j <= ob
    <3>1. j + oa \in 1..d /\ ~(oa + ob < j + oa) /\ j + oa <= oa + ob
          /\ ~(j + oa <= oa) /\ (j + oa) - oa = j
      BY <1>1, <1>2, <1>3, <2>2
    <3>2. k = KeyAt(c, A, B, j + oa)
      BY <1>4, <1>10, <3>1
    <3> QED
      BY <3>1, <3>2
  <2> QED
    BY <1>1, <1>2, <2>1, <2>2
<1>11. \E n \in 1..d : /\ k = KeyAt(c, A, B, n)
                       /\ oa + ob < n /\ n <= oa + ob + r => k \in Objective
  BY <1>9, <1>10 DEF Touched
<1> QED
  BY <1>11 DEF oa, ob, r

\* No key for a conflict is left when the lists have all of its predicates.
LEMMA NoConflictKey ==
    ASSUME NEW predicates, ConflictKeys(predicates) = {}
    PROVE  predicates \subseteq Touched(updates["a"]) \cup Touched(updates["b"])
BY DEF ConflictKeys, ReusableKeys, NewKeys, used_keys, consumed, SharedKeys

\* When no key is left the configuration asked for too many.
LEMMA OutOfKeys ==
    ASSUME GenTypeOK, source = "synthetic", SynthInv, left # <<>>, Candidates = {}
    PROVE  LET orthogonal == config.orthogonal_a + config.orthogonal_b IN
           \/ Cardinality(Keys) < config.ancestor + orthogonal
           \/ Cardinality(Objective) < orthogonal + config.resolvable
           \/ Cardinality(Subjective) < orthogonal + config.ambiguous
<1> DEFINE A == updates["a"]
           B == updates["b"]
           d == Total(config) - Len(left)
           taken == KeysOf(root)
           orth == config.orthogonal_a + config.orthogonal_b
           r == config.resolvable
           at(n) == KeyAt(config, A, B, n)
<1>1. config \in Configs /\ TypeOK
  BY DEF GenTypeOK
<1>2. A \in Seq(UpdateSpec) /\ B \in Seq(UpdateSpec) /\ Laid(config, d, taken, A, B)
  BY <1>1, TheLists DEF SynthInv
<1>3. /\ orth \in Nat /\ r \in Nat /\ config.ambiguous \in Nat /\ config.ancestor \in Nat
      /\ Total(config) = orth + r + config.ambiguous
  BY <1>1, ConfigOK DEF Total
<1>4. /\ d \in Nat /\ d < Total(config) /\ Head(left) \in Steps
      /\ Head(left) \in {"orthogonal_a", "orthogonal_b"} => d < orth
      /\ Head(left) = "resolvable" => d < orth + r
      /\ Head(left) = "ambiguous" => orth + r <= d
  <2>1. /\ d \in Nat /\ d < Total(config) /\ Head(left) \in Steps
        /\ Head(left) = "orthogonal_a" => d < config.orthogonal_a
        /\ Head(left) = "orthogonal_b" => d < orth
        /\ Head(left) = "resolvable" => d < orth + r
        /\ Head(left) = "ambiguous" => orth + r <= d
    BY <1>1, NextIteration
  <2>2. config.orthogonal_a \in Nat /\ config.orthogonal_b \in Nat
    BY <1>1, ConfigOK
  <2> HIDE DEF d
  <2> QED
    BY <2>1, <2>2
<1> HIDE DEF A, B, d, taken
<1>5. \A k \in Touched(A) \cup Touched(B) : \E n \in 1..d :
          k = at(n) /\ (orth < n /\ n <= orth + r => k \in Objective)
  BY <1>1, <1>2, <1>4, TouchedNumbered
<1> HIDE DEF orth, r, at
<1>6. CASE Head(left) \in {"orthogonal_a", "orthogonal_b"}
  <2> DEFINE size == Len(root)
             f == [n \in 1..(size + d) |-> IF n <= size THEN root[n].key ELSE at(n - size)]
  <2>1. size \in Nat /\ size <= config.ancestor /\ DOMAIN root = 1..size
    BY <1>1, RootOK DEF SynthInv
  <2>2. Keys \subseteq KeysOf(root) \cup Touched(A) \cup Touched(B)
    <3>1. NewKeys(Keys) = {}
      BY <1>6 DEF Candidates
    <3> QED
      BY <3>1 DEF NewKeys, used_keys, A, B
  <2> HIDE DEF size
  <2>3. \A k \in Keys : \E n \in 1..(size + d) : k = f[n]
    <3> SUFFICES ASSUME NEW k \in Keys PROVE \E n \in 1..(size + d) : k = f[n]
      OBVIOUS
    <3>1. CASE k \in KeysOf(root)
      <4>1. PICK n \in 1..size : k = root[n].key
        BY <2>1, <3>1 DEF KeysOf
      <4>2. n \in 1..(size + d) /\ n <= size
        BY <1>4, <2>1
      <4> QED
        BY <4>1, <4>2
    <3>2. CASE k \in Touched(A) \cup Touched(B)
      <4>1. PICK n \in 1..d : k = at(n)
        BY <1>5, <3>2
      <4>2. size + n \in 1..(size + d) /\ ~(size + n <= size) /\ (size + n) - size = n
        BY <1>4, <2>1
      <4> QED
        BY <4>1, <4>2
    <3> QED
      BY <2>2, <3>1, <3>2
  <2> HIDE DEF f
  <2>4. Cardinality(Keys) \in Nat /\ Cardinality(Keys) <= size + d
    <3>1. size + d \in Nat
      BY <1>4, <2>1
    <3> QED
      BY <2>3, <3>1, CoveredBy
  <2>5. Cardinality(Keys) < config.ancestor + orth
    BY <1>3, <1>4, <1>6, <2>1, <2>4
  <2> QED
    BY <2>5 DEF orth
<1>7. CASE Head(left) = "resolvable"
  <2> DEFINE f == [n \in 1..d |-> at(n)]
  <2>1. Objective \subseteq Touched(A) \cup Touched(B)
    <3>1. ConflictKeys(Objective) = {}
      BY <1>7 DEF Candidates
    <3> QED
      BY <3>1, NoConflictKey DEF A, B
  <2>2. \A k \in Objective : \E n \in 1..d : k = f[n]
    BY <1>5, <2>1
  <2> HIDE DEF f
  <2>3. Cardinality(Objective) \in Nat /\ Cardinality(Objective) <= d
    BY <1>4, <2>2, CoveredBy
  <2>4. Cardinality(Objective) < orth + r
    BY <1>3, <1>4, <1>7, <2>3
  <2> QED
    BY <2>4 DEF orth, r
<1>8. CASE Head(left) = "ambiguous"
  <2> DEFINE f == [n \in 1..(d - r) |-> IF n <= orth THEN at(n) ELSE at(n + r)]
  <2>1. Subjective \subseteq Touched(A) \cup Touched(B)
    <3>1. ConflictKeys(Subjective) = {}
      BY <1>8 DEF Candidates
    <3> QED
      BY <3>1, NoConflictKey DEF A, B
  <2>2. d - r \in Nat /\ orth <= d - r
    BY <1>3, <1>4, <1>8
  <2>3. \A k \in Subjective : \E n \in 1..(d - r) : k = f[n]
    <3> SUFFICES ASSUME NEW k \in Subjective PROVE \E n \in 1..(d - r) : k = f[n]
      OBVIOUS
    <3>1. k \notin Objective
      BY GeneratorAssumption
    <3>2. PICK n \in 1..d : k = at(n) /\ (orth < n /\ n <= orth + r => k \in Objective)
      BY <1>5, <2>1
    <3>3. CASE n <= orth
      <4>1. n \in 1..(d - r)
        BY <1>3, <1>4, <2>2, <3>3
      <4> QED
        BY <3>2, <3>3, <4>1
    <3>4. CASE ~(n <= orth)
      <4>1. ~(n <= orth + r)
        BY <1>3, <1>4, <3>1, <3>2, <3>4
      <4>2. n - r \in 1..(d - r) /\ ~(n - r <= orth) /\ (n - r) + r = n
        BY <1>3, <1>4, <4>1
      <4> QED
        BY <3>2, <4>2
    <3> QED
      BY <3>3, <3>4
  <2> HIDE DEF f
  <2>4. Cardinality(Subjective) \in Nat /\ Cardinality(Subjective) <= d - r
    BY <2>2, <2>3, CoveredBy
  <2>5. Cardinality(Subjective) < orth + config.ambiguous
    BY <1>3, <1>4, <2>4
  <2> QED
    BY <2>5 DEF orth
<1> QED
  BY <1>4, <1>6, <1>7, <1>8 DEF Steps

\* A step that only says how the generation goes on.
LEMMA PhaseStep ==
    ASSUME GenTypeOK, Accepted, phase # "diverge",
           phase' \in {"updates", "diverge", "no scenario", "out of keys", "out of values"},
           UNCHANGED <<root, updates, simVars, synthVars, template, row, source>>
    PROVE  Sound'
<1>1. TypeOK'
  BY GrownType DEF GenTypeOK, TypeOK
<1>2. GenTypeOK'
  BY <1>1 DEF GenTypeOK, simVars, synthVars
<1>3. InForce' /\ PairsMade' /\ pc' = "fork"
  BY IdleStep
<1>4. Accepted'
  <2>1. Conflicts' = Conflicts
    BY ConflictsStay DEF synthVars
  <2> QED
    BY <1>3, <2>1 DEF Accepted
<1> QED
  BY <1>2, <1>3, <1>4 DEF Sound

\* A step of the synthetic generator.
LEMMA SynthStep ==
    ASSUME Sound, source = "synthetic", SynthInv, SynthNext,
           UNCHANGED <<template, mabVars, source>>
    PROVE  Sound' /\ SynthInv' /\ RaisesOnlyWhenExhausted'
<1>1. GenTypeOK /\ Accepted
  BY DEF Sound
<1>2. CASE SampleAncestor
  <2>1. Sound' /\ SynthInv' /\ phase' = "updates"
    BY <1>1, <1>2, SampleAncestorStep DEF SampleAncestor
  <2> QED
    BY <2>1 DEF RaisesOnlyWhenExhausted
<1>3. ASSUME NEW side \in Sides, AddOrthogonal(side) PROVE Sound' /\ SynthInv' /\ RaisesOnlyWhenExhausted'
  <2>1. Sound' /\ SynthInv'
    BY <1>1, <1>3, AddOrthogonalStep
  <2>2. phase' = "updates"
    BY <1>3 DEF AddOrthogonal, Iteration, Made
  <2> QED
    BY <2>1, <2>2 DEF RaisesOnlyWhenExhausted
<1>4. CASE AddResolvable
  <2>1. Sound' /\ SynthInv'
    BY <1>1, <1>4, AddResolvableStep
  <2>2. phase' = "updates"
    BY <1>4 DEF AddResolvable, Iteration, Made
  <2> QED
    BY <2>1, <2>2 DEF RaisesOnlyWhenExhausted
<1>5. CASE AddAmbiguous
  <2>1. Sound' /\ SynthInv'
    BY <1>1, <1>5, AddAmbiguousStep
  <2>2. phase' = "updates"
    BY <1>5 DEF AddAmbiguous, Iteration, Made
  <2> QED
    BY <2>1, <2>2 DEF RaisesOnlyWhenExhausted
<1>6. CASE RunOutOfKeys \/ RunOutOfValues \/ CallDiverge
  <2>1. /\ phase = "updates" /\ phase' \in {"diverge", "out of keys", "out of values"}
        /\ UNCHANGED <<root, updates, simVars, synthVars>>
        /\ phase' = "diverge" => left = <<>>
        /\ phase' = "out of keys" => left # <<>> /\ Candidates = {}
    BY <1>6 DEF RunOutOfKeys, RunOutOfValues, CallDiverge
  <2>2. Sound'
    BY <1>1, <2>1, PhaseStep DEF mabVars
  <2>3. SynthInv'
    <3>1. UNCHANGED <<config, left, root, updates>>
      BY <2>1 DEF synthVars
    <3> QED
      BY <2>1, <3>1 DEF SynthInv
  <2>4. RaisesOnlyWhenExhausted'
    <3>1. CASE phase' = "out of keys"
      <4> DEFINE orthogonal == config.orthogonal_a + config.orthogonal_b
      <4>1. \/ Cardinality(Keys) < config.ancestor + orthogonal
            \/ Cardinality(Objective) < orthogonal + config.resolvable
            \/ Cardinality(Subjective) < orthogonal + config.ambiguous
        BY <1>1, <2>1, <3>1, OutOfKeys
      <4>2. config' = config
        BY <2>1 DEF synthVars
      <4> QED
        BY <4>1, <4>2 DEF RaisesOnlyWhenExhausted
    <3>2. CASE phase' # "out of keys"
      BY <3>2 DEF RaisesOnlyWhenExhausted
    <3> QED
      BY <3>1, <3>2
  <2> QED
    BY <2>2, <2>3, <2>4
<1> QED
  BY <1>2, <1>3, <1>4, <1>5, <1>6 DEF SynthNext

-----------------------------------------------------------------------------
(* Sets of places in a list.                                                *)

\* The least and the last of some places.
LEMMA LeastAndLast ==
    ASSUME NEW m \in Nat, NEW T \in SUBSET (1..m), T # {}
    PROVE  /\ Least(T) \in T /\ \A j \in T : Least(T) <= j
           /\ LastOf(T) \in T /\ \A j \in T : j <= LastOf(T)
<1>1. T \in SUBSET Nat
  OBVIOUS
<1>2. \E i \in T : \A j \in T : i <= j
  BY <1>1, LeastNumber
<1>3. \E i \in T : \A j \in T : j <= i
  BY LastPosition
<1>4. Least(T) \in T /\ \A j \in T : Least(T) <= j
  BY <1>2 DEF Least
<1>5. LastOf(T) \in T /\ \A j \in T : j <= LastOf(T)
  BY <1>3 DEF LastOf
<1> QED
  BY <1>4, <1>5

\* How many of the places come no later than i.
UpTo(T, i) == {j \in T : j <= i}

LEMMA PlacesFinite ==
    ASSUME NEW m \in Nat, NEW T \in SUBSET (1..m)
    PROVE  IsFiniteSet(T) /\ Cardinality(T) \in Nat
<1>1. IsFiniteSet(1..m)
  BY FS_Interval
<1>2. IsFiniteSet(T)
  BY <1>1, FS_Subset
<1> QED
  BY <1>2, FS_CardinalityType

LEMMA UpToFinite ==
    ASSUME NEW m \in Nat, NEW T \in SUBSET (1..m), NEW i
    PROVE  /\ IsFiniteSet(UpTo(T, i)) /\ Cardinality(UpTo(T, i)) \in Nat
           /\ Cardinality(UpTo(T, i)) <= Cardinality(T)
<1>2. IsFiniteSet(T)
  BY PlacesFinite
<1>3. UpTo(T, i) \in SUBSET T
  BY DEF UpTo
<1>4. IsFiniteSet(UpTo(T, i)) /\ Cardinality(UpTo(T, i)) <= Cardinality(T)
  BY <1>2, <1>3, FS_Subset
<1> QED
  BY <1>4, FS_CardinalityType

\* A later place has more places up to it.
LEMMA UpToGrows ==
    ASSUME NEW m \in Nat, NEW T \in SUBSET (1..m), NEW i \in T, NEW j \in T, i < j
    PROVE  Cardinality(UpTo(T, i)) < Cardinality(UpTo(T, j))
<1> DEFINE U == UpTo(T, j) \ {j}
<1>1. i \in Nat /\ j \in Nat /\ \A n \in T : n \in Nat
  OBVIOUS
<1>2. UpTo(T, i) \in SUBSET U /\ j \in UpTo(T, j)
  <2>1. \A l \in UpTo(T, i) : l \in UpTo(T, j) /\ l # j
    BY <1>1 DEF UpTo
  <2>2. j \in UpTo(T, j)
    BY <1>1 DEF UpTo
  <2> QED
    BY <2>1, <2>2
<1>3. /\ IsFiniteSet(UpTo(T, i)) /\ Cardinality(UpTo(T, i)) \in Nat
      /\ IsFiniteSet(UpTo(T, j)) /\ Cardinality(UpTo(T, j)) \in Nat
  BY UpToFinite
<1>4. IsFiniteSet(U) /\ Cardinality(U) = Cardinality(UpTo(T, j)) - 1
  BY <1>2, <1>3, FS_RemoveElement
<1> HIDE DEF U
<1>5. Cardinality(UpTo(T, i)) <= Cardinality(U)
  BY <1>2, <1>4, FS_Subset
<1> QED
  BY <1>3, <1>4, <1>5

\* Counting up to its members numbers a set of places.
LEMMA PlacesNumbered ==
    ASSUME NEW m \in Nat, NEW T \in SUBSET (1..m), NEW n \in 1..Cardinality(T)
    PROVE  \E i \in T : Cardinality(UpTo(T, i)) = n
<1> DEFINE enough == {i \in T : n <= Cardinality(UpTo(T, i))}
<1>0. ASSUME NEW i \in T PROVE i \in Nat /\ Cardinality(UpTo(T, i)) \in Nat
  <2>1. i \in Nat
    OBVIOUS
  <2>2. Cardinality(UpTo(T, i)) \in Nat
    BY UpToFinite
  <2> QED
    BY <2>1, <2>2
<1>1. enough # {}
  <2>1. IsFiniteSet(T) /\ Cardinality(T) \in Nat /\ n \in Nat /\ 1 <= n /\ n <= Cardinality(T)
    <3>1. IsFiniteSet(T) /\ Cardinality(T) \in Nat
      BY PlacesFinite
    <3> QED
      BY <3>1
  <2>2. T # {}
    BY <2>1, FS_EmptySet
  <2>3. PICK i \in T : \A j \in T : j <= i
    BY <2>2, LastPosition
  <2>4. UpTo(T, i) = T
    BY <2>3 DEF UpTo
  <2> QED
    BY <2>1, <2>3, <2>4
<1>2. PICK i \in enough : \A j \in enough : i <= j
  <2>1. enough \in SUBSET Nat
    BY <1>0
  <2> HIDE DEF enough
  <2> QED
    BY <1>1, <2>1, LeastNumber
<1>3. CASE Cardinality(UpTo(T, i)) > n
  <2> DEFINE U == UpTo(T, i) \ {i}
  <2>1. i \in T /\ i \in UpTo(T, i)
    BY <1>0, <1>2 DEF UpTo
  <2>2. IsFiniteSet(UpTo(T, i)) /\ Cardinality(UpTo(T, i)) \in Nat
    BY UpToFinite
  <2>3. IsFiniteSet(U) /\ Cardinality(U) = Cardinality(UpTo(T, i)) - 1
    BY <2>1, <2>2, FS_RemoveElement
  <2>4. Cardinality(U) >= n /\ n >= 1
    BY <1>3, <2>2, <2>3
  <2>5. U # {} /\ U \in SUBSET (1..m)
    <3>1. U \in SUBSET (1..m)
      BY DEF UpTo
    <3> HIDE DEF U
    <3> QED
      BY <2>4, <3>1, FS_EmptySet
  <2>6. PICK j \in U : \A l \in U : l <= j
    BY <2>5, LastPosition
  <2>7. j \in T /\ j < i /\ j \in Nat
    BY <1>0, <2>1, <2>6 DEF UpTo
  <2>8. UpTo(T, j) = U
    <3>1. UpTo(T, j) \subseteq U
      <4>1. \A l \in UpTo(T, j) : l \in T /\ l <= j /\ l \in Nat
        BY <1>0 DEF UpTo
      <4>2. i \in Nat
        BY <1>0, <2>1
      <4>3. \A l \in UpTo(T, j) : l \in T /\ l <= i /\ l # i
        BY <2>7, <4>1, <4>2
      <4> QED
        BY <4>3 DEF UpTo
    <3>2. U \subseteq UpTo(T, j)
      BY <2>6 DEF UpTo
    <3> QED
      BY <3>1, <3>2
  <2>9. j \in enough
    BY <2>4, <2>7, <2>8
  <2> QED
    BY <1>0, <1>2, <2>1, <2>7, <2>9
<1>4. i \in T /\ n <= Cardinality(UpTo(T, i))
  BY <1>2
<1> QED
  BY <1>0, <1>3, <1>4

-----------------------------------------------------------------------------
(* The chains of a row.                                                     *)

\* The lines of a row, of a chain, and of its edits.
LEMMA RowLines ==
    ASSUME row \in Rows, NEW k \in KeysOf(row)
    PROVE  /\ DOMAIN row = 1..Len(row) /\ Len(row) \in Nat
           /\ k \in Keys /\ \A i \in DOMAIN row : row[i].key \in Keys /\ row[i].value \in Values
           /\ Chain(k) \in SUBSET (1..Len(row)) /\ Chain(k) # {}
           /\ Least(Chain(k)) \in Chain(k) /\ \A j \in Chain(k) : Least(Chain(k)) <= j
           /\ LastOf(Chain(k)) \in Chain(k) /\ \A j \in Chain(k) : j <= LastOf(Chain(k))
<1> DEFINE Line == [key : Keys, value : Values]
<1>1. row \in Seq(Line)
  BY RowsAssumption
<1>2. \A x \in Line : x.key \in Keys /\ x.value \in Values
  OBVIOUS
<1> HIDE DEF Line
<1>3. DOMAIN row = 1..Len(row) /\ Len(row) \in Nat /\ \A i \in DOMAIN row : row[i] \in Line
  BY <1>1
<1>4. \A i \in DOMAIN row : row[i].key \in Keys /\ row[i].value \in Values
  BY <1>2, <1>3
<1>5. k \in Keys /\ Chain(k) # {} /\ Chain(k) \in SUBSET (1..Len(row))
  BY <1>3, <1>4 DEF KeysOf, Chain
<1> QED
  BY <1>3, <1>4, <1>5, LeastAndLast

\* A restatement comes after the first statement, so not on the first line.
LEMMA EditLines ==
    ASSUME row \in Rows, NEW k \in KeysOf(row)
    PROVE  /\ Edits(k) \in SUBSET (1..Len(row)) /\ Edits(k) \subseteq Chain(k)
           /\ \A i \in Edits(k) : i \in Nat /\ i > 1
           /\ Edits(k) # {} => LastOf(Chain(k)) \in Edits(k)
<1>1. /\ Chain(k) \in SUBSET (1..Len(row)) /\ Chain(k) # {} /\ Len(row) \in Nat
      /\ Least(Chain(k)) \in Chain(k) /\ \A j \in Chain(k) : Least(Chain(k)) <= j
      /\ LastOf(Chain(k)) \in Chain(k) /\ \A j \in Chain(k) : j <= LastOf(Chain(k))
  BY RowLines
<1>2. \A i \in Edits(k) : i \in Nat /\ i > 1 /\ i > Least(Chain(k))
  BY <1>1 DEF Edits
<1>3. ASSUME Edits(k) # {} PROVE LastOf(Chain(k)) \in Edits(k)
  <2>1. PICK i \in Edits(k) : TRUE
    BY <1>3
  <2>2. i \in Chain(k) /\ i > Least(Chain(k)) /\ i <= LastOf(Chain(k))
    BY <1>1, <1>2 DEF Edits
  <2>3. LastOf(Chain(k)) # Least(Chain(k))
    BY <1>1, <1>2, <2>2
  <2> QED
    BY <1>1, <2>3 DEF Edits
<1> QED
  BY <1>1, <1>2, <1>3 DEF Edits

\* The chains, in order, are all the first lines, each of them once.
LEMMA ChainsOK ==
    ASSUME row \in Rows
    PROVE  /\ DOMAIN Chains = 1..Len(Chains) /\ Len(Chains) \in Nat
           /\ \A n \in DOMAIN Chains : Chains[n] \in Heads /\ Chains[n] \in DOMAIN row
           /\ \A m, n \in DOMAIN Chains : row[Chains[m]].key = row[Chains[n]].key => m = n
           /\ \A k \in KeysOf(row) : \E n \in DOMAIN Chains :
                  Chains[n] = Least(Chain(k)) /\ row[Chains[n]].key = k
<1> DEFINE size == Cardinality(Heads)
           at(n) == CHOOSE i \in Heads : Cardinality({j \in Heads : j <= i}) = n
<1>1. Len(row) \in Nat /\ DOMAIN row = 1..Len(row)
  BY RowsAssumption
<1>2. Heads \in SUBSET (1..Len(row))
  BY <1>1 DEF Heads
<1>3. size \in Nat
  BY <1>1, <1>2, PlacesFinite
<1>4. Chains = [n \in 1..size |-> at(n)]
  BY DEF Chains
<1>5. \A n \in 1..size : at(n) \in Heads /\ Cardinality(UpTo(Heads, at(n))) = n
  <2> SUFFICES ASSUME NEW n \in 1..size
               PROVE  at(n) \in Heads /\ Cardinality(UpTo(Heads, at(n))) = n
    OBVIOUS
  <2>1. \E i \in Heads : Cardinality(UpTo(Heads, i)) = n
    BY <1>1, <1>2, PlacesNumbered
  <2>2. at(n) = CHOOSE i \in Heads : Cardinality(UpTo(Heads, i)) = n
    BY DEF UpTo
  <2> HIDE DEF at
  <2> QED
    BY <2>1, <2>2
<1> HIDE DEF size, at
<1>6. /\ DOMAIN Chains = 1..size /\ Len(Chains) = size
      /\ \A n \in 1..size : Chains[n] = at(n)
  BY <1>3, <1>4
<1>7. \A i, j \in Heads : row[i].key = row[j].key => i = j
  BY DEF Heads
<1>8. ASSUME NEW k \in KeysOf(row)
      PROVE  \E n \in DOMAIN Chains : Chains[n] = Least(Chain(k)) /\ row[Chains[n]].key = k
  <2> DEFINE i == Least(Chain(k))
             n == Cardinality(UpTo(Heads, i))
  <2>1. i \in Chain(k)
    BY <1>8, RowLines
  <2>2. row[i].key = k /\ i \in DOMAIN row
    BY <2>1 DEF Chain
  <2>3. i \in Heads /\ i \in Nat
    BY <1>1, <2>2 DEF Heads
  <2> HIDE DEF i
  <2>4. n \in 1..size
    <3>1. /\ IsFiniteSet(UpTo(Heads, i)) /\ n \in Nat /\ n <= size
      BY <1>1, <1>2, UpToFinite DEF size
    <3>2. i \in UpTo(Heads, i)
      BY <2>3 DEF UpTo
    <3>3. n # 0
      BY <3>1, <3>2, FS_EmptySet
    <3> QED
      BY <1>3, <3>1, <3>3
  <2>5. at(n) \in Heads /\ Cardinality(UpTo(Heads, at(n))) = n
    BY <1>5, <2>4
  <2>6. at(n) = i
    <3> DEFINE j == at(n)
    <3>1. j \in Heads /\ Cardinality(UpTo(Heads, j)) = Cardinality(UpTo(Heads, i))
      BY <2>5
    <3> HIDE DEF j, n
    <3>2. i \in Nat /\ j \in Nat
      BY <1>2, <2>3, <3>1
    <3>3. Cardinality(UpTo(Heads, i)) \in Nat
      BY <1>1, <1>2, UpToFinite
    <3>4. ~(i < j)
      <4>1. ASSUME i < j PROVE Cardinality(UpTo(Heads, i)) < Cardinality(UpTo(Heads, j))
        BY <1>1, <1>2, <2>3, <3>1, <4>1, UpToGrows
      <4> QED
        BY <3>1, <3>3, <4>1
    <3>6. ~(j < i)
      <4>1. ASSUME j < i PROVE Cardinality(UpTo(Heads, j)) < Cardinality(UpTo(Heads, i))
        BY <1>1, <1>2, <2>3, <3>1, <4>1, UpToGrows
      <4> QED
        BY <3>1, <3>3, <4>1
    <3>5. i = j
      BY <3>2, <3>4, <3>6
    <3> QED
      BY <3>5 DEF j
  <2>7. n \in DOMAIN Chains /\ Chains[n] = i
    BY <1>6, <2>4, <2>6
  <2> QED
    BY <2>2, <2>7 DEF i
<1>9. \A m, n \in DOMAIN Chains : row[Chains[m]].key = row[Chains[n]].key => m = n
  <2> SUFFICES ASSUME NEW m \in 1..size, NEW n \in 1..size, row[at(m)].key = row[at(n)].key
               PROVE  m = n
    BY <1>6
  <2>1. at(m) = at(n)
    BY <1>5, <1>7
  <2> QED
    BY <1>5, <2>1
<1>10. \A n \in DOMAIN Chains : Chains[n] \in Heads /\ Chains[n] \in DOMAIN row
  BY <1>5, <1>6 DEF Heads
<1> QED
  BY <1>3, <1>6, <1>8, <1>9, <1>10

\* Chains and edits stay while the row does.
LEMMA ChainsStay ==
    ASSUME UNCHANGED row
    PROVE  /\ Chains' = Chains /\ \A k : Chain(k)' = Chain(k) /\ Edits(k)' = Edits(k)
<1>1. \A k : Chain(k)' = Chain(k)
  BY DEF Chain
<1>2. \A k : Edits(k)' = Edits(k)
  BY <1>1 DEF Edits
<1>3. Heads' = Heads
  BY <1>1 DEF Heads
<1> QED
  BY <1>1, <1>2, <1>3 DEF Chains

-----------------------------------------------------------------------------
(* The extension of MemoryAgentBench, after so many chains.                 *)

\* The ancestor states the first lines of the chains, and every update is of a
\* chain that was visited, picked as a conflict and restated.
FirstLines == [n \in DOMAIN Chains |-> row[Chains[n]]]

\* The keys whose chain has an edit, and those whose chain was visited.
Restated == {k \in KeysOf(row) : Edits(k) # {}}
Visited == {row[Chains[n]].key : n \in 1..visited}

MabInv ==
    /\ visited \in 0..Len(Chains)
    /\ phase \in {"updates", "diverge"} => root = AncestorFacts(FirstLines, AncestorTime)
    /\ \A s \in Sides : \A i \in DOMAIN updates[s] :
           updates[s][i].key \in conflict_keys \cap Restated \cap Visited

\* The visit of a chain finds its key in neither list.
LEMMA VisitedFresh ==
    ASSUME GenTypeOK, source = "mab_extension", MabInv, NEW k \in KeysOf(row), VisitChain(k)
    PROVE  /\ Fresh(k) /\ row \in Rows /\ phase = "updates" /\ phase' = "updates"
           /\ visited' = visited + 1 /\ visited \in Nat /\ visited' \in 0..Len(Chains)
           /\ k = row[Chains[visited']].key /\ Chains' = Chains
           /\ UNCHANGED <<root, simVars, row, conflict_keys>>
<1>1. /\ row \in Rows /\ phase = "updates" /\ phase' = "updates" /\ visited' = visited + 1
      /\ visited < Len(Chains) /\ k = row[Chains[visited + 1]].key
      /\ UNCHANGED <<root, simVars, row, conflict_keys>>
  BY DEF VisitChain, GenTypeOK
<1>2. /\ DOMAIN Chains = 1..Len(Chains) /\ Len(Chains) \in Nat
      /\ \A m, n \in DOMAIN Chains : row[Chains[m]].key = row[Chains[n]].key => m = n
  BY <1>1, ChainsOK
<1>3. visited \in Nat /\ visited + 1 \in DOMAIN Chains /\ visited' \in 0..Len(Chains)
  BY <1>1, <1>2 DEF MabInv
<1>4. ASSUME NEW s \in Sides, NEW i \in DOMAIN updates[s] PROVE updates[s][i].key # k
  <2>1. PICK n \in 1..visited : updates[s][i].key = row[Chains[n]].key
    BY DEF MabInv, Visited
  <2>2. n \in DOMAIN Chains /\ n # visited + 1
    BY <1>2, <1>3
  <2> QED
    BY <1>1, <1>2, <1>3, <2>1, <2>2
<1>5. Fresh(k)
  <2>1. "a" \in Sides /\ "b" \in Sides
    BY DEF Sides
  <2> QED
    BY <1>4, <2>1 DEF Fresh, Touched
<1> QED
  BY <1>1, <1>3, <1>5, ChainsStay

\* A visit keeps what holds of the lists if it adds nothing to them but updates
\* of its key, which was picked and restated.
LEMMA VisitKeeps ==
    ASSUME GenTypeOK, source = "mab_extension", MabInv, NEW k \in KeysOf(row), VisitChain(k),
           UNCHANGED <<synthVars, template, source>>,
           updates' \in [Sides -> Seq(UpdateSpec)], Accepted',
           \A s \in Sides : \A i \in DOMAIN updates'[s] :
               \/ i \in DOMAIN updates[s] /\ updates'[s][i] = updates[s][i]
               \/ updates'[s][i].key = k /\ k \in conflict_keys /\ Edits(k) # {}
    PROVE  Sound' /\ MabInv'
<1>1. /\ row \in Rows /\ phase = "updates" /\ phase' = "updates"
      /\ visited' = visited + 1 /\ visited \in Nat /\ visited' \in 0..Len(Chains)
      /\ k = row[Chains[visited']].key /\ Chains' = Chains
      /\ UNCHANGED <<root, simVars, row, conflict_keys>>
  BY VisitedFresh
<1>2. TypeOK'
  BY <1>1, GrownType DEF GenTypeOK, TypeOK
<1>3. GenTypeOK'
  BY <1>1, <1>2 DEF GenTypeOK, simVars, synthVars
<1>4. InForce' /\ PairsMade'
  BY <1>1, IdleStep
<1>5. MabInv'
  <2>1. FirstLines' = FirstLines
    BY <1>1 DEF FirstLines
  <2>2. root' = AncestorFacts(FirstLines', AncestorTime)
    BY <1>1, <2>1 DEF MabInv
  <2>3. Restated' = Restated
    <3>1. \A q : Edits(q)' = Edits(q)
      BY <1>1, ChainsStay
    <3> QED
      BY <1>1, <3>1 DEF Restated
  <2>4. Visited \subseteq Visited' /\ k \in Visited'
    <3>1. visited' \in 1..visited' /\ \A n \in 1..visited : n \in 1..visited'
      BY <1>1
    <3> QED
      BY <1>1, <3>1 DEF Visited
  <2>5. ASSUME NEW s \in Sides, NEW i \in DOMAIN updates'[s]
        PROVE  updates'[s][i].key \in conflict_keys' \cap Restated' \cap Visited'
    <3>1. CASE i \in DOMAIN updates[s] /\ updates'[s][i] = updates[s][i]
      BY <1>1, <2>3, <2>4, <3>1 DEF MabInv
    <3>2. CASE updates'[s][i].key = k /\ k \in conflict_keys /\ Edits(k) # {}
      <4>1. k \in Restated
        BY <3>2 DEF Restated
      <4> QED
        BY <1>1, <2>3, <2>4, <3>2, <4>1
    <3> QED
      BY <3>1, <3>2
  <2> QED
    BY <1>1, <2>2, <2>5 DEF MabInv
<1> QED
  BY <1>3, <1>4, <1>5 DEF Sound

\* A list that got one more update.
LEMMA OneMore ==
    ASSUME NEW A \in Seq(UpdateSpec), NEW u \in UpdateSpec, NEW i \in DOMAIN Append(A, u)
    PROVE  \/ i \in DOMAIN A /\ Append(A, u)[i] = A[i]
           \/ Append(A, u)[i] = u
<1>1. /\ DOMAIN Append(A, u) = DOMAIN A \cup {Len(A) + 1} /\ Append(A, u)[Len(A) + 1] = u
      /\ \A j \in DOMAIN A : Append(A, u)[j] = A[j]
  BY Longer
<1> QED
  BY <1>1

\* A visit that adds a conflict.
LEMMA VisitBoth ==
    ASSUME GenTypeOK, Accepted, source = "mab_extension", MabInv,
           NEW k \in KeysOf(row), VisitChain(k), UNCHANGED <<synthVars, template, source>>,
           k \in conflict_keys, Edits(k) # {},
           NEW u \in UpdateSpec, NEW w \in UpdateSpec, Declared(u, w), u.key = k, w.key = k,
           u.ts > AncestorTime, w.ts > AncestorTime, ExtendBoth(u, w)
    PROVE  Sound' /\ MabInv'
<1>1. Fresh(k) /\ UNCHANGED <<root, simVars, row, conflict_keys>> /\ TypeOK
  BY VisitedFresh DEF GenTypeOK
<1>2. Conflicts' = Conflicts
  BY <1>1, ConflictsStay DEF synthVars
<1>3. pc' = pc
  BY <1>1 DEF simVars
<1>4. GrowsBoth(u, w)
  BY <1>1 DEF GrowsBoth, ExtendBoth, Conflicts
<1>5. Accepted' /\ updates' \in [Sides -> Seq(UpdateSpec)]
  BY <1>1, <1>2, <1>3, <1>4, AcceptedBoth
<1>6. ASSUME NEW s \in Sides, NEW i \in DOMAIN updates'[s]
      PROVE  \/ i \in DOMAIN updates[s] /\ updates'[s][i] = updates[s][i]
             \/ updates'[s][i].key = k /\ k \in conflict_keys /\ Edits(k) # {}
  <2> DEFINE A == updates[s]
             x == IF s = "a" THEN u ELSE w
  <2>1. A \in Seq(UpdateSpec) /\ x \in UpdateSpec /\ x.key = k /\ updates'[s] = Append(A, x)
    BY <1>1 DEF TypeOK, ExtendBoth
  <2> HIDE DEF A, x
  <2>2. i \in DOMAIN Append(A, x)
    BY <2>1
  <2>3. (i \in DOMAIN A /\ Append(A, x)[i] = A[i]) \/ Append(A, x)[i] = x
    BY <2>1, <2>2, OneMore
  <2> QED
    BY <2>1, <2>3 DEF A
<1> QED
  BY <1>5, <1>6, VisitKeeps

\* A visit that adds an update on one side.
LEMMA VisitOne ==
    ASSUME GenTypeOK, Accepted, source = "mab_extension", MabInv,
           NEW k \in KeysOf(row), VisitChain(k), UNCHANGED <<synthVars, template, source>>,
           k \in conflict_keys, Edits(k) # {},
           NEW side \in Sides, NEW u \in UpdateSpec, u.key = k, u.ts > AncestorTime,
           Extend(side, u)
    PROVE  Sound' /\ MabInv'
<1>1. Fresh(k) /\ UNCHANGED <<root, simVars, row, conflict_keys>> /\ TypeOK
  BY VisitedFresh DEF GenTypeOK
<1>2. Conflicts' = Conflicts
  BY <1>1, ConflictsStay DEF synthVars
<1>3. pc' = pc
  BY <1>1 DEF simVars
<1>4. updates' = [updates EXCEPT ![side] = Append(updates[side], u)]
  BY <1>1 DEF Extend, TypeOK
<1>5. GrowsOne(side, u)
  BY <1>1, <1>4 DEF GrowsOne
<1>6. Accepted' /\ updates' \in [Sides -> Seq(UpdateSpec)]
  BY <1>1, <1>2, <1>3, <1>5, AcceptedOne
<1>7. ASSUME NEW s \in Sides, NEW i \in DOMAIN updates'[s]
      PROVE  \/ i \in DOMAIN updates[s] /\ updates'[s][i] = updates[s][i]
             \/ updates'[s][i].key = k /\ k \in conflict_keys /\ Edits(k) # {}
  <2>1. CASE s = side
    <3> DEFINE A == updates[s]
    <3>1. A \in Seq(UpdateSpec) /\ updates'[s] = Append(A, u)
      BY <1>1, <1>4, <2>1 DEF TypeOK
    <3> HIDE DEF A
    <3>2. i \in DOMAIN Append(A, u)
      BY <3>1
    <3>3. (i \in DOMAIN A /\ Append(A, u)[i] = A[i]) \/ Append(A, u)[i] = u
      BY <3>1, <3>2, OneMore
    <3> QED
      BY <3>1, <3>3 DEF A
  <2>2. CASE s # side
    <3>1. updates'[s] = updates[s]
      BY <1>1, <1>4, <2>2 DEF TypeOK
    <3> QED
      BY <3>1
  <2> QED
    BY <2>1, <2>2
<1> QED
  BY <1>6, <1>7, VisitKeeps

LEMMA SkipChainStep ==
    ASSUME GenTypeOK, Accepted, source = "mab_extension", MabInv,
           NEW k \in KeysOf(row), SkipChain(k), UNCHANGED <<synthVars, template, source>>
    PROVE  Sound' /\ MabInv'
<1>1. VisitChain(k) /\ updates' = updates
  BY DEF SkipChain
<1>2. UNCHANGED <<root, simVars, row>>
  BY <1>1, VisitedFresh
<1>3. Accepted'
  <2>1. Conflicts' = Conflicts
    BY <1>2, ConflictsStay DEF synthVars
  <2> QED
    BY <1>1, <1>2, <2>1 DEF Accepted, simVars
<1>4. updates' \in [Sides -> Seq(UpdateSpec)]
  BY <1>1 DEF GenTypeOK, TypeOK
<1> QED
  BY <1>1, <1>3, <1>4, VisitKeeps

\* What a conflict of this source must say: the truth is what the chain states
\* last, and sides agree only if two edits do.
LEMMA MabDeclared ==
    ASSUME source = "mab_extension", NEW k \in Keys,
           NEW vA \in Values, NEW vB \in Values, NEW tsA \in Nat, NEW tsB \in Nat,
           NEW gt \in {vA, vB}, gt = row[LastOf(Chain(k))].value,
           vA = vB => \E i, j \in Edits(k) : i # j /\ row[i].value = row[j].value,
           NEW u, u = Conflict(k, vA, tsA, gt), NEW w, w = Conflict(k, vB, tsB, gt)
    PROVE  /\ u \in UpdateSpec /\ w \in UpdateSpec /\ Declared(u, w)
           /\ u.key = k /\ w.key = k /\ u.ts = tsA /\ w.ts = tsB
<1> DEFINE type == "resolvable_conflict"
<1>1. type \in DivergenceTypes /\ type # "ambiguous_conflict" /\ Certain \in Nat
      /\ gt \in Values \cup {None}
  BY DEF DivergenceTypes, Certain
<1>2. /\ u \in UpdateSpec /\ u.key = k /\ u.value = vA /\ u.ts = tsA /\ u.type = type /\ u.gt = gt
  <2>1. u = Update(k, vA, tsA, Certain, type, gt)
    BY DEF Conflict
  <2> HIDE DEF type
  <2> QED
    BY <1>1, <2>1, UpdateOK
<1>3. /\ w \in UpdateSpec /\ w.key = k /\ w.value = vB /\ w.ts = tsB /\ w.type = type /\ w.gt = gt
  <2>1. w = Update(k, vB, tsB, Certain, type, gt)
    BY DEF Conflict
  <2> HIDE DEF type
  <2> QED
    BY <1>1, <2>1, UpdateOK
<1>4. u.value = w.value => MayAgree(u.key)
  BY <1>2, <1>3 DEF MayAgree
<1>5. Declared(u, w)
  BY <1>1, <1>2, <1>3, <1>4 DEF Declared
<1> QED
  BY <1>2, <1>3, <1>5

\* A split gives each side some of the edits, and one of them the last.
LEMMA SplitDeclared ==
    ASSUME source = "mab_extension", row \in Rows, NEW k \in KeysOf(row), NEW split \in Splits(k)
    PROVE  /\ split.a \in UpdateSpec /\ split.b \in UpdateSpec /\ Declared(split.a, split.b)
           /\ split.a.key = k /\ split.b.key = k
           /\ split.a.ts > AncestorTime /\ split.b.ts > AncestorTime
<1> DEFINE given(side, cut, firstIsA) ==
               {i \in Edits(k) : (i < cut) = (side = "a" <=> firstIsA)}
<1>1. PICK cut \in Edits(k) \ {Least(Edits(k))}, firstIsA \in BOOLEAN :
          split = SplitAt(k, cut, firstIsA)
  BY DEF Splits
<1> DEFINE E == Edits(k)
           before == {i \in E : i < cut}
           after == {i \in E : ~(i < cut)}
           A == IF firstIsA THEN before ELSE after
           B == IF firstIsA THEN after ELSE before
           a == LastOf(A)
           b == LastOf(B)
           gt == IF LastOf(E) = a THEN row[a].value ELSE row[b].value
<1>2. given("a", cut, firstIsA) = A /\ given("b", cut, firstIsA) = B
  <2>1. CASE firstIsA = TRUE
    BY <2>1
  <2>2. CASE firstIsA = FALSE
    BY <2>2
  <2> QED
    BY <2>1, <2>2
<1>3. /\ split.a = Conflict(k, row[a].value, LineTime(a), gt)
      /\ split.b = Conflict(k, row[b].value, LineTime(b), gt)
  <2> DEFINE last(side) == LastOf(given(side, cut, firstIsA))
             truth == IF LastOf(E) = last("a") THEN "a" ELSE "b"
  <2>1. split = [a |-> Conflict(k, row[last("a")].value, LineTime(last("a")), row[last(truth)].value),
                 b |-> Conflict(k, row[last("b")].value, LineTime(last("b")), row[last(truth)].value)]
    BY <1>1 DEF SplitAt
  <2>2. last("a") = a /\ last("b") = b
    BY <1>2
  <2>3. row[last(truth)].value = gt
    <3>1. CASE LastOf(E) = last("a")
      BY <2>2, <3>1
    <3>2. CASE LastOf(E) # last("a")
      BY <2>2, <3>2
    <3> QED
      BY <3>1, <3>2
  <2> HIDE DEF last, truth, a, b, gt
  <2> QED
    BY <2>1, <2>2, <2>3
<1>4. /\ E \in SUBSET (1..Len(row)) /\ E # {} /\ \A i \in E : i \in Nat /\ i > 1
      /\ Len(row) \in Nat /\ DOMAIN row = 1..Len(row)
      /\ k \in Keys /\ \A i \in DOMAIN row : row[i].value \in Values
      /\ LastOf(Chain(k)) \in E
      /\ E \subseteq Chain(k) /\ \A j \in Chain(k) : j <= LastOf(Chain(k))
  BY <1>1, RowLines, EditLines
<1>5. /\ Least(E) \in E /\ \A j \in E : Least(E) <= j
      /\ LastOf(E) \in E /\ \A j \in E : j <= LastOf(E)
  <2> HIDE DEF E
  <2> QED
    BY <1>4, LeastAndLast
<1>6. LastOf(E) = LastOf(Chain(k))
  BY <1>4, <1>5
<1>7. cut \in E /\ Least(E) < cut
  BY <1>1, <1>4, <1>5
<1> HIDE DEF E
<1>8. before \in SUBSET (1..Len(row)) /\ before # {} /\ after \in SUBSET (1..Len(row)) /\ after # {}
  <2>1. Least(E) \in before /\ cut \in after
    BY <1>4, <1>5, <1>7
  <2> QED
    BY <1>4, <2>1
<1>9. /\ LastOf(before) \in before
      /\ LastOf(after) \in after /\ \A j \in after : j <= LastOf(after)
  <2> HIDE DEF before, after
  <2> QED
    BY <1>4, <1>8, LeastAndLast
\* The last edit is not before the cut.
<1>10. LastOf(after) = LastOf(E)
  <2> DEFINE end == LastOf(E)
             other == LastOf(after)
  <2>1. end \in E /\ cut <= end /\ end \in Nat /\ cut \in Nat
    BY <1>4, <1>5, <1>7
  <2>2. end \in after
    <3> HIDE DEF end
    <3> QED
      BY <2>1
  <2>3. other \in E /\ other \in Nat
    <3>1. other \in E
      BY <1>9
    <3> QED
      BY <1>4, <3>1
  <2>4. end <= other /\ other <= end
    BY <1>5, <1>9, <2>2, <2>3
  <2> HIDE DEF end, other
  <2>5. other = end
    BY <2>1, <2>3, <2>4
  <2> QED
    BY <2>5 DEF end, other
<1>11. LastOf(before) \in E /\ LastOf(after) \in E /\ LastOf(before) # LastOf(after)
  BY <1>4, <1>9
<1> HIDE DEF before, after
<1>12. a \in E /\ b \in E /\ a # b /\ (a = LastOf(E) \/ b = LastOf(E))
  BY <1>10, <1>11
<1> HIDE DEF A, B, a, b
<1>13. /\ row[a].value \in Values /\ row[b].value \in Values
       /\ gt \in {row[a].value, row[b].value} /\ gt = row[LastOf(Chain(k))].value
  BY <1>4, <1>6, <1>12
<1>14. /\ LineTime(a) \in Nat /\ LineTime(a) > AncestorTime
       /\ LineTime(b) \in Nat /\ LineTime(b) > AncestorTime
  BY <1>4, <1>12, AncestorAssumption DEF LineTime, Unit
<1>15. \E i, j \in Edits(k) : i # j /\ (row[a].value = row[b].value => row[i].value = row[j].value)
  BY <1>12 DEF E
<1> HIDE DEF gt
<1>16. /\ split.a \in UpdateSpec /\ split.b \in UpdateSpec /\ Declared(split.a, split.b)
       /\ split.a.key = k /\ split.b.key = k /\ split.a.ts = LineTime(a) /\ split.b.ts = LineTime(b)
  <2> DEFINE vA == row[a].value
             vB == row[b].value
             tA == LineTime(a)
             tB == LineTime(b)
  <2>1. vA = vB => \E i, j \in Edits(k) : i # j /\ row[i].value = row[j].value
    BY <1>15
  <2>2. /\ source = "mab_extension" /\ k \in Keys
        /\ vA \in Values /\ vB \in Values /\ tA \in Nat /\ tB \in Nat
        /\ gt \in {vA, vB} /\ gt = row[LastOf(Chain(k))].value
        /\ split.a = Conflict(k, vA, tA, gt) /\ split.b = Conflict(k, vB, tB, gt)
    BY <1>3, <1>4, <1>13, <1>14
  <2> HIDE DEF vA, vB, tA, tB
  <2>3. /\ split.a \in UpdateSpec /\ split.b \in UpdateSpec /\ Declared(split.a, split.b)
        /\ split.a.key = k /\ split.b.key = k /\ split.a.ts = tA /\ split.b.ts = tB
    BY ONLY <2>1, <2>2, MabDeclared
  <2> QED
    BY <2>3 DEF tA, tB
<1> QED
  BY <1>14, <1>16

LEMMA SplitEditsStep ==
    ASSUME GenTypeOK, Accepted, source = "mab_extension", MabInv,
           NEW k \in KeysOf(row), SplitEdits(k), UNCHANGED <<synthVars, template, source>>
    PROVE  Sound' /\ MabInv'
<1>1. VisitChain(k) /\ k \in conflict_keys /\ Cardinality(Edits(k)) >= 2
  BY DEF SplitEdits
<1>2. PICK split \in Splits(k) : ExtendBoth(split.a, split.b)
  BY DEF SplitEdits
<1>3. row \in Rows
  BY DEF GenTypeOK
<1>4. Edits(k) # {}
  BY <1>1, FS_EmptySet
<1>5. /\ split.a \in UpdateSpec /\ split.b \in UpdateSpec /\ Declared(split.a, split.b)
      /\ split.a.key = k /\ split.b.key = k
      /\ split.a.ts > AncestorTime /\ split.b.ts > AncestorTime
  BY <1>3, SplitDeclared
<1> QED
  BY <1>1, <1>2, <1>4, <1>5, VisitBoth

\* A chain with one edit: its line, time and value.
LEMMA OneEditLine ==
    ASSUME row \in Rows, NEW k \in KeysOf(row), OneEdit(k)
    PROVE  /\ k \in conflict_keys /\ Edits(k) # {} /\ k \in Keys
           /\ row[RealEdit(k)].value \in Values /\ RealEdit(k) \in Chain(k)
           /\ LineTime(RealEdit(k)) \in Nat /\ LineTime(RealEdit(k)) >= 6
<1>1. Edits(k) # {} /\ k \in conflict_keys
  BY FS_EmptySet DEF OneEdit
<1>2. /\ RealEdit(k) \in Edits(k) /\ RealEdit(k) \in Nat /\ RealEdit(k) > 1
      /\ RealEdit(k) \in Chain(k)
  BY <1>1, EditLines DEF RealEdit
<1>3. RealEdit(k) \in DOMAIN row
  BY <1>2 DEF Chain
<1>4. row[RealEdit(k)].value \in Values /\ k \in Keys
  BY <1>3, RowLines
<1>5. LineTime(RealEdit(k)) \in Nat /\ LineTime(RealEdit(k)) >= 6
  BY <1>2 DEF LineTime, Unit
<1> QED
  BY <1>1, <1>2, <1>4, <1>5

\* A borrowed edit is dated after the ancestor: offsets are shorter than the
\* time of any edit.
LEMMA SyntheticLater ==
    ASSUME row \in Rows, NEW k \in KeysOf(row), OneEdit(k), NEW ts \in SyntheticTimes(k)
    PROVE  ts \in Nat /\ ts > AncestorTime
<1> DEFINE real == LineTime(RealEdit(k))
<1>1. real \in Nat /\ real >= 6
  BY OneEditLine
<1>2. PICK o \in Offsets : ts \in {real + o, IF o <= real THEN real - o ELSE 0}
  BY DEF SyntheticTimes
<1> HIDE DEF real
<1>3. o \in Nat /\ o <= 4
  BY RowsAssumption DEF Unit
<1>4. ts = real + o \/ ts = real - o
  BY <1>1, <1>2, <1>3
<1> QED
  BY <1>1, <1>3, <1>4, AncestorAssumption

LEMMA BorrowEditStep ==
    ASSUME GenTypeOK, Accepted, source = "mab_extension", MabInv,
           NEW k \in KeysOf(row), BorrowEdit(k), UNCHANGED <<synthVars, template, source>>
    PROVE  Sound' /\ MabInv'
<1>1. VisitChain(k) /\ OneEdit(k) /\ row \in Rows
  BY DEF BorrowEdit, GenTypeOK
<1> DEFINE value == row[RealEdit(k)].value
           time == LineTime(RealEdit(k))
<1>2. PICK v \in Borrowed(k), ts \in SyntheticTimes(k), realIsA \in BOOLEAN :
          ExtendBoth(IF realIsA THEN Conflict(k, value, time, value) ELSE Conflict(k, v, ts, value),
                     IF realIsA THEN Conflict(k, v, ts, value) ELSE Conflict(k, value, time, value))
  BY DEF BorrowEdit
<1>3. /\ k \in conflict_keys /\ Edits(k) # {} /\ k \in Keys
      /\ value \in Values /\ RealEdit(k) \in Chain(k) /\ time \in Nat /\ time >= 6
  BY <1>1, OneEditLine
<1>4. ts \in Nat /\ ts > AncestorTime
  BY <1>1, SyntheticLater
<1>5. v \in Values /\ v # value
  <2>1. \A i \in DOMAIN row : row[i].value \in Values
    BY <1>1, RowLines
  <2> QED
    BY <1>3, <2>1 DEF Borrowed
<1>6. time > AncestorTime /\ value = row[LastOf(Chain(k))].value
  BY <1>3, AncestorAssumption DEF RealEdit
<1> DEFINE vA == IF realIsA THEN value ELSE v
           vB == IF realIsA THEN v ELSE value
           tsA == IF realIsA THEN time ELSE ts
           tsB == IF realIsA THEN ts ELSE time
           u == Conflict(k, vA, tsA, value)
           w == Conflict(k, vB, tsB, value)
<1> HIDE DEF value, time
<1>7. ExtendBoth(u, w)
  <2>1. CASE realIsA = TRUE
    BY <1>2, <2>1
  <2>2. CASE realIsA = FALSE
    BY <1>2, <2>2
  <2> QED
    BY <2>1, <2>2
<1>8. /\ vA \in Values /\ vB \in Values /\ vA # vB /\ value \in {vA, vB}
      /\ tsA \in Nat /\ tsB \in Nat /\ tsA > AncestorTime /\ tsB > AncestorTime
  BY <1>3, <1>4, <1>5, <1>6
<1> HIDE DEF vA, vB, tsA, tsB
<1>9. /\ u \in UpdateSpec /\ w \in UpdateSpec /\ Declared(u, w)
      /\ u.key = k /\ w.key = k /\ u.ts = tsA /\ w.ts = tsB
  BY <1>3, <1>6, <1>8, MabDeclared
<1> HIDE DEF u, w
<1> QED
  BY <1>1, <1>3, <1>7, <1>8, <1>9, VisitBoth

LEMMA EditOneSideStep ==
    ASSUME GenTypeOK, Accepted, source = "mab_extension", MabInv,
           NEW k \in KeysOf(row), EditOneSide(k), UNCHANGED <<synthVars, template, source>>
    PROVE  Sound' /\ MabInv'
<1>1. VisitChain(k) /\ OneEdit(k) /\ row \in Rows
  BY DEF EditOneSide, GenTypeOK
<1> DEFINE value == row[RealEdit(k)].value
           time == LineTime(RealEdit(k))
           type == "orthogonal"
           u == Update(k, value, time, Certain, type, None)
<1>2. PICK side \in Sides : Extend(side, u)
  BY DEF EditOneSide
<1>3. /\ k \in conflict_keys /\ Edits(k) # {} /\ k \in Keys
      /\ value \in Values /\ time \in Nat /\ time >= 6
  BY <1>1, OneEditLine
<1>4. type \in DivergenceTypes /\ Certain \in Nat /\ None \in Values \cup {None}
  BY DEF DivergenceTypes, Certain
<1> HIDE DEF value, time, type
<1>5. u \in UpdateSpec /\ u.key = k /\ u.ts = time
  <2>1. /\ k \in Keys /\ value \in Values /\ time \in Nat /\ Certain \in Nat
        /\ type \in DivergenceTypes /\ None \in Values \cup {None}
    BY <1>3, <1>4
  <2>2. LET w == Update(k, value, time, Certain, type, None)
        IN  w \in UpdateSpec /\ w.key = k /\ w.ts = time
    BY ONLY <2>1, UpdateOK
  <2> QED
    BY <2>2
<1> HIDE DEF u
<1>6. u.ts > AncestorTime
  BY <1>3, <1>5, AncestorAssumption
<1> QED
  BY <1>1, <1>2, <1>3, <1>5, <1>6, VisitOne

\* The first lines are the contents of an ancestor.
LEMMA FirstLinesOK ==
    ASSUME row \in Rows
    PROVE  FirstLines \in Seq([key : Keys, value : Values])
<1> DEFINE Line == [key : Keys, value : Values]
           size == Len(Chains)
<1>1. row \in Seq(Line)
  BY RowsAssumption
<1>2. DOMAIN Chains = 1..size /\ size \in Nat /\ \A n \in DOMAIN Chains : Chains[n] \in DOMAIN row
  BY ChainsOK
<1> HIDE DEF Line, size
<1>3. \A n \in 1..size : row[Chains[n]] \in Line
  BY <1>1, <1>2
<1>4. FirstLines = [n \in 1..size |-> row[Chains[n]]]
  BY <1>2 DEF FirstLines
<1>5. FirstLines \in Seq(Line)
  BY <1>2, <1>3, <1>4
<1> QED
  BY <1>5 DEF Line

LEMMA StateChainsStep ==
    ASSUME GenTypeOK, Accepted, source = "mab_extension", MabInv,
           StateChains, UNCHANGED <<synthVars, template, source>>
    PROVE  Sound' /\ MabInv'
<1>1. /\ phase = "ancestor" /\ phase' = "updates" /\ UNCHANGED simVars
      /\ root' = AncestorFacts(FirstLines, AncestorTime)
      /\ UNCHANGED <<updates, row, visited>>
  BY DEF StateChains, MakeAncestor, FirstLines
<1>2. row \in Rows /\ updates = [s \in Sides |-> <<>>] /\ TypeOK
  BY <1>1 DEF GenTypeOK
<1>3. IsRoot(root')
  BY <1>1, <1>2, FirstLinesOK DEF IsRoot
<1>4. TypeOK'
  <2>1. updates' \in [Sides -> Seq(UpdateSpec)]
    BY <1>1, <1>2 DEF TypeOK
  <2> QED
    BY <1>1, <1>3, <2>1, GrownType
<1>5. GenTypeOK'
  BY <1>1, <1>4 DEF GenTypeOK, simVars, synthVars
<1>6. InForce' /\ PairsMade' /\ pc' = "fork"
  BY <1>1, IdleStep
<1>7. Accepted'
  <2>1. Meet(Conflicts', updates["a"], updates["b"])
    BY <1>2, NothingTouched
  <2> QED
    BY <1>1, <1>6, <2>1 DEF Accepted
<1>8. MabInv'
  <2>1. Chains' = Chains /\ FirstLines' = FirstLines
    BY <1>1, ChainsStay DEF FirstLines
  <2>2. \A s \in Sides : DOMAIN updates'[s] = {}
    BY <1>1, <1>2
  <2> QED
    BY <1>1, <2>1, <2>2 DEF MabInv
<1> QED
  BY <1>5, <1>6, <1>7, <1>8 DEF Sound

\* What this source has made does not depend on the simulator.
LEMMA MabStays ==
    ASSUME MabInv, UNCHANGED <<root, updates, mabVars>>,
           phase' \in {"updates", "diverge"} => phase \in {"updates", "diverge"}
    PROVE  MabInv'
<1>1. UNCHANGED <<root, updates, row, conflict_keys, visited>>
  BY DEF mabVars
<1>2. Chains' = Chains /\ FirstLines' = FirstLines /\ \A k : Edits(k)' = Edits(k)
  BY <1>1, ChainsStay DEF FirstLines
<1>3. Restated' = Restated /\ Visited' = Visited
  BY <1>1, <1>2 DEF Restated, Visited
<1> QED
  BY <1>1, <1>2, <1>3 DEF MabInv

\* A step of the extension.
LEMMA MabStep ==
    ASSUME Sound, source = "mab_extension", MabInv, MabNext,
           UNCHANGED <<synthVars, template, source>>
    PROVE  Sound' /\ MabInv' /\ phase' # "out of keys"
<1>1. GenTypeOK /\ Accepted
  BY DEF Sound
<1>2. CASE StateChains
  <2>1. phase' = "updates"
    BY <1>2 DEF StateChains
  <2> QED
    BY <1>1, <1>2, <2>1, StateChainsStep
<1>3. CASE NothingParsed \/ ChainsVisited
  <2>1. /\ phase # "diverge" /\ phase' \in {"diverge", "no scenario"}
        /\ phase' = "diverge" => phase = "updates"
        /\ UNCHANGED <<root, updates, simVars, mabVars>>
    BY <1>3 DEF NothingParsed, ChainsVisited
  <2>2. Sound'
    BY <1>1, <2>1, PhaseStep DEF mabVars
  <2>3. MabInv'
    BY <2>1, MabStays
  <2> QED
    BY <2>1, <2>2, <2>3
<1>4. ASSUME NEW k \in KeysOf(row), SkipChain(k) \/ SplitEdits(k) \/ BorrowEdit(k) \/ EditOneSide(k)
      PROVE  Sound' /\ MabInv' /\ phase' # "out of keys"
  <2>1. phase' = "updates"
    <3>1. VisitChain(k)
      BY <1>4 DEF SkipChain, SplitEdits, BorrowEdit, EditOneSide
    <3> QED
      BY <1>1, <3>1, VisitedFresh
  <2>2. Sound' /\ MabInv'
    BY <1>1, <1>4, SkipChainStep, SplitEditsStep, BorrowEditStep, EditOneSideStep
  <2> QED
    BY <2>1, <2>2
<1> QED
  BY <1>2, <1>3, <1>4 DEF MabNext

-----------------------------------------------------------------------------
(* The invariant of generation.                                             *)

GenInv ==
    /\ Sound
    /\ source = "synthetic" => SynthInv
    /\ source = "mab_extension" => MabInv
    /\ source = "semantic_resolvable" => phase \in {"ancestor", "diverge"}
    /\ RaisesOnlyWhenExhausted

LEMMA GenInitInv ==
    ASSUME GenInit
    PROVE  GenInv
<1>1. Sound /\ phase = "ancestor"
  BY GenInitOK DEF Sound
<1>2. root = <<>> /\ updates = [s \in Sides |-> <<>>]
  BY DEF GenInit, MakerInit
<1>3. ASSUME source = "synthetic" PROVE SynthInv
  <2>1. config \in Configs /\ SynthInit
    BY <1>3 DEF GenInit, SynthInit
  <2> QED
    BY <1>1, <1>2, <2>1, SynthInitOK
<1>4. ASSUME source = "mab_extension" PROVE MabInv
  <2>1. row \in Rows /\ visited = 0
    BY <1>4 DEF GenInit, MabInit
  <2>2. Len(Chains) \in Nat
    BY <2>1, ChainsOK
  <2>3. \A s \in Sides : DOMAIN updates[s] = {}
    BY <1>2
  <2> QED
    BY <1>1, <2>1, <2>2, <2>3 DEF MabInv
<1> QED
  BY <1>1, <1>3, <1>4 DEF GenInv, RaisesOnlyWhenExhausted

LEMMA GenStepInv ==
    ASSUME GenInv, [GenNext]_genVars
    PROVE  GenInv'
<1>1. Sound
  BY DEF GenInv
<1>2. GenTypeOK /\ Accepted /\ InForce /\ PairsMade
  BY <1>1 DEF Sound
<1>3. CASE source = "synthetic" /\ SynthNext /\ UNCHANGED <<template, mabVars, source>>
  <2>1. Sound' /\ SynthInv' /\ RaisesOnlyWhenExhausted'
    BY <1>1, <1>3, SynthStep DEF GenInv
  <2>2. source' = "synthetic"
    BY <1>3
  <2> QED
    BY <2>1, <2>2 DEF GenInv
<1>4. CASE source = "semantic_resolvable" /\ FillTemplate /\ UNCHANGED <<synthVars, mabVars, source>>
  <2>1. Sound'
    BY <1>2, <1>4, FillTemplateStep DEF Sound
  <2>2. phase' = "diverge" /\ source' = "semantic_resolvable"
    BY <1>4 DEF FillTemplate
  <2> QED
    BY <2>1, <2>2 DEF GenInv, RaisesOnlyWhenExhausted
<1>5. CASE source = "mab_extension" /\ MabNext /\ UNCHANGED <<synthVars, template, source>>
  <2>1. Sound' /\ MabInv' /\ phase' # "out of keys"
    BY <1>1, <1>5, MabStep DEF GenInv
  <2>2. source' = "mab_extension"
    BY <1>5
  <2> QED
    BY <2>1, <2>2 DEF GenInv, RaisesOnlyWhenExhausted
<1>6. CASE Simulate /\ UNCHANGED <<synthVars, template, mabVars, source>>
  <2>1. Sound' /\ UNCHANGED <<root, updates, phase>> /\ phase = "diverge"
    BY <1>2, <1>6, SimulateStep DEF Sound, Simulate
  <2>2. UNCHANGED <<config, left, source, mabVars>>
    BY <1>6 DEF synthVars
  <2>3. source = "synthetic" => SynthInv'
    BY <2>1, <2>2 DEF GenInv, SynthInv
  <2>4. source = "mab_extension" => MabInv'
    BY <2>1, <2>2, MabStays DEF GenInv
  <2> QED
    BY <2>1, <2>2, <2>3, <2>4 DEF GenInv, RaisesOnlyWhenExhausted
<1>7. CASE UNCHANGED genVars
  <2>1. UNCHANGED <<vars, phase, synthVars, template, mabVars, source>>
    BY <1>7 DEF genVars
  <2>2. UNCHANGED <<root, updates, applied, facts, pc, unchecked, pairs, config, left, row>>
    BY <2>1 DEF vars, synthVars, mabVars
  <2>3. TypeOK' /\ InForce' /\ PairsMade'
    BY <1>2, <2>1, TypeStep, InForceStep, PairsMadeStep DEF GenTypeOK
  <2>4. GenTypeOK'
    BY <1>2, <2>1, <2>2, <2>3 DEF GenTypeOK
  <2>5. Accepted'
    <3>1. Conflicts' = Conflicts
      BY <2>1, <2>2, ConflictsStay
    <3> QED
      BY <1>2, <2>2, <3>1 DEF Accepted
  <2>6. Sound'
    BY <2>3, <2>4, <2>5 DEF Sound
  <2>7. source = "synthetic" => SynthInv'
    BY <2>1, <2>2 DEF GenInv, SynthInv
  <2>8. source = "mab_extension" => MabInv'
    BY <2>1, <2>2, MabStays DEF GenInv
  <2>9. RaisesOnlyWhenExhausted'
    BY <2>1, <2>2 DEF GenInv, RaisesOnlyWhenExhausted
  <2> QED
    BY <2>1, <2>6, <2>7, <2>8, <2>9 DEF GenInv
<1>8. GenNext \/ UNCHANGED genVars
  OBVIOUS
<1>9. CASE Generate /\ UNCHANGED source
  BY <1>3, <1>4, <1>5, <1>9 DEF Generate
<1> QED
  BY <1>6, <1>7, <1>8, <1>9 DEF GenNext

\* What is generated stays well formed and acceptable, from whatever source.
THEOREM GeneratedIsSound == GenSpec => []GenInv
<1>1. GenInit => GenInv
  BY GenInitInv
<1>2. GenInv /\ [GenNext]_genVars => GenInv'
  BY GenStepInv
<1> QED
  BY <1>1, <1>2, PTL DEF GenSpec

\* A synthetic scenario fails for lack of keys only under a configuration that
\* asks for more keys than there are.
THEOREM RaisesForLackOfKeys == GenSpec => []RaisesOnlyWhenExhausted
<1>1. GenInv => RaisesOnlyWhenExhausted
  BY DEF GenInv
<1> QED
  BY <1>1, GeneratedIsSound, PTL

-----------------------------------------------------------------------------
(* What diverge makes of the lists.                                         *)

\* A scenario is returned after the lists were handed over.
LEMMA ReturnedFacts ==
    ASSUME GenInv, pc = "returned"
    PROVE  /\ phase = "diverge" /\ TypeOK /\ Accepted /\ InForce /\ PairsMade
           /\ pairs \in Seq(SharedPairs) /\ PairKeys = SharedKeys
           /\ \A m, n \in DOMAIN pairs : pairs[m].key = pairs[n].key => m = n
<1>1. GenTypeOK /\ Accepted /\ InForce /\ PairsMade
  BY DEF GenInv, Sound
<1>2. phase = "diverge" /\ TypeOK
  BY <1>1 DEF GenTypeOK
<1>3. unchecked = {} /\ PairKeys = SharedKeys \ unchecked
  BY <1>1 DEF PairsMade
<1> QED
  BY <1>1, <1>2, <1>3 DEF PairsMade

\* An update is in effect on its side: the only one of its key, and later than
\* the ancestor's fact.
LEMMA UpdateInEffect ==
    ASSUME GenInv, pc = "returned", NEW s \in Sides, NEW i \in DOMAIN updates[s]
    PROVE  /\ updates[s][i].key \in KeysOf(facts[s])
           /\ Now(s, updates[s][i].key).value = updates[s][i].value
           /\ Now(s, updates[s][i].key).conf = updates[s][i].conf
<1> DEFINE stream == updates[s]
           k == stream[i].key
           late == Late(root, stream, DOMAIN stream, k)
<1>1. TypeOK /\ Accepted /\ InForce
  BY ReturnedFacts
<1>2. applied[s] = DOMAIN stream
  BY <1>1 DEF InForce
<1>3. k \in KeysOf(facts[s]) /\ Effect(root, stream, DOMAIN stream, k, CurrentFact(facts[s], k))
  BY <1>1, <1>2 DEF InForce
<1>4. OnePerKey(stream)
  BY <1>1 DEF Accepted, Meet, Sides
<1> HIDE DEF stream
<1>5. i \in late /\ \A j \in late : j = i
  BY <1>4 DEF Late, OnePerKey, stream
<1>6. CurrentFact(facts[s], k).value = stream[i].value /\ CurrentFact(facts[s], k).conf = stream[i].conf
  BY <1>3, <1>5 DEF Effect
<1> QED
  BY <1>3, <1>6 DEF Now, stream

\* What a pair says: its key's declared conflict, and the values and
\* confidences that are current on the branches.
LEMMA PairSays ==
    ASSUME GenInv, pc = "returned", NEW n \in DOMAIN pairs
    PROVE  \E u, w \in UpdateSpec :
               /\ u.key = pairs[n].key /\ w.key = pairs[n].key /\ Declared(u, w)
               /\ pairs[n].type = ConflictType(u.type) /\ pairs[n].gt = u.gt
               /\ pairs[n].key \in KeysOf(facts["a"]) \cap KeysOf(facts["b"])
               /\ Now("a", pairs[n].key).value = u.value /\ Now("a", pairs[n].key).conf = u.conf
               /\ Now("b", pairs[n].key).value = w.value /\ Now("b", pairs[n].key).conf = w.conf
<1> DEFINE k == pairs[n].key
<1>1. TypeOK /\ Accepted /\ pairs \in Seq(SharedPairs)
  BY ReturnedFacts
<1>2. PICK q \in SharedKeys : pairs[n] = Pair(q)
  <2>1. pairs[n] \in SharedPairs
    BY <1>1
  <2> QED
    BY <2>1 DEF SharedPairs
<1>3. k = q
  BY <1>2, PairKey
<1>4. PICK u, w \in UpdateSpec :
          /\ SpecFor(updates["a"], q) = u /\ SpecFor(updates["b"], q) = w
          /\ u.key = q /\ w.key = q /\ Declared(u, w)
          /\ \E i \in DOMAIN updates["a"] : updates["a"][i] = u
          /\ \E j \in DOMAIN updates["b"] : updates["b"][j] = w
  BY <1>1, SharedSpecs
<1>5. pairs[n].type = ConflictType(u.type) /\ pairs[n].gt = u.gt
  BY <1>2, <1>4 DEF Pair
<1>6. "a" \in Sides /\ "b" \in Sides
  BY DEF Sides
<1>7. q \in KeysOf(facts["a"]) /\ Now("a", q).value = u.value /\ Now("a", q).conf = u.conf
  BY <1>4, <1>6, UpdateInEffect
<1>8. q \in KeysOf(facts["b"]) /\ Now("b", q).value = w.value /\ Now("b", q).conf = w.conf
  BY <1>4, <1>6, UpdateInEffect
<1> QED
  BY <1>3, <1>4, <1>5, <1>7, <1>8

\* A declared conflict is one the merges meet, unless its source had but one
\* value for both sides.
THEOREM DeclaredConflictsCollide == GenSpec => []ConflictsCollide
<1>1. GenInv => ConflictsCollide
  <2> SUFFICES ASSUME GenInv, pc = "returned", NEW n \in DOMAIN pairs,
                      pairs[n].key \notin Collisions(facts["a"], facts["b"])
               PROVE  MayAgree(pairs[n].key)
    BY DEF ConflictsCollide, MayAgree
  <2> DEFINE k == pairs[n].key
  <2>1. PICK u, w \in UpdateSpec :
            /\ u.key = k /\ w.key = k /\ Declared(u, w)
            /\ k \in KeysOf(facts["a"]) \cap KeysOf(facts["b"])
            /\ Now("a", k).value = u.value /\ Now("b", k).value = w.value
    BY PairSays
  <2>2. Now("a", k).value = Now("b", k).value
    BY <2>1 DEF Collisions, CurrentFacts, Now
  <2> QED
    BY <2>1, <2>2 DEF Declared
<1> QED
  BY <1>1, GeneratedIsSound, PTL

\* A scorable conflict can be won, and only by what is meant to decide it.
THEOREM SignalsTellTheTruth == GenSpec => []SignalTellsTruth
<1>1. GenInv => SignalTellsTruth
  <2> SUFFICES ASSUME GenInv, pc = "returned", NEW n \in DOMAIN pairs
               PROVE  LET factA == Now("a", pairs[n].key)
                          factB == Now("b", pairs[n].key)
                      IN  /\ pairs[n].type = "resolvable" => pairs[n].gt \in {factA.value, factB.value}
                          /\ (source = "synthetic" /\ pairs[n].type = "resolvable") =>
                                 /\ factA.conf # factB.conf
                                 /\ config.noise = "never" =>
                                        pairs[n].gt = IF factA.conf > factB.conf
                                                      THEN factA.value ELSE factB.value
                          /\ (pairs[n].type = "ambiguous" \/ source = "semantic_resolvable") =>
                                 factA.conf = factB.conf
                          /\ source = "semantic_resolvable" => pairs[n].gt = template.branch_b_value
    BY DEF SignalTellsTruth
  <2> DEFINE factA == Now("a", pairs[n].key)
             factB == Now("b", pairs[n].key)
  <2>1. PICK u, w \in UpdateSpec :
            /\ Declared(u, w)
            /\ pairs[n].type = ConflictType(u.type) /\ pairs[n].gt = u.gt
            /\ factA.value = u.value /\ factA.conf = u.conf
            /\ factB.value = w.value /\ factB.conf = w.conf
    BY PairSays
  <2>2. /\ pairs[n].type = "resolvable" => u.type = "resolvable_conflict"
        /\ pairs[n].type = "ambiguous" => u.type = "ambiguous_conflict"
    BY <2>1 DEF Declared, ConflictType
  <2> HIDE DEF factA, factB
  <2>3. /\ u.type = "resolvable_conflict" => u.gt \in {u.value, w.value}
        /\ u.type = "ambiguous_conflict" => u.conf = w.conf
        /\ (source = "synthetic" /\ u.type = "resolvable_conflict") =>
               /\ u.conf # w.conf
               /\ config.noise = "never" => u.gt = IF u.conf > w.conf THEN u.value ELSE w.value
        /\ source = "semantic_resolvable" => u.conf = w.conf /\ u.gt = template.branch_b_value
    BY <2>1 DEF Declared
  <2>4. /\ pairs[n].type = "resolvable" => pairs[n].gt \in {factA.value, factB.value}
        /\ (source = "synthetic" /\ pairs[n].type = "resolvable") =>
               /\ factA.conf # factB.conf
               /\ config.noise = "never" =>
                      pairs[n].gt = IF factA.conf > factB.conf THEN factA.value ELSE factB.value
        /\ (pairs[n].type = "ambiguous" \/ source = "semantic_resolvable") => factA.conf = factB.conf
        /\ source = "semantic_resolvable" => pairs[n].gt = template.branch_b_value
    BY <2>1, <2>2, <2>3
  <2> QED
    BY <2>4 DEF factA, factB
<1> QED
  BY <1>1, GeneratedIsSound, PTL

\* The truth of a conflict of a row is what its chain states last, and a key
\* that no conflict is about keeps the row's first value on both branches.
THEOREM EditsKeepTheirMeaning == GenSpec => []EditsKeepMeaning
<1>1. GenInv => EditsKeepMeaning
  <2> SUFFICES ASSUME GenInv, source = "mab_extension", pc = "returned"
               PROVE  /\ \A n \in DOMAIN pairs : pairs[n].gt = row[LastOf(Chain(pairs[n].key))].value
                      /\ \A k \in KeysOf(row) : (k \notin conflict_keys \/ Edits(k) = {}) =>
                             \A side \in Sides : Now(side, k).value = row[Least(Chain(k))].value
    BY DEF EditsKeepMeaning
  <2>1. ASSUME NEW n \in DOMAIN pairs PROVE pairs[n].gt = row[LastOf(Chain(pairs[n].key))].value
    <3>1. PICK u, w \in UpdateSpec : u.key = pairs[n].key /\ Declared(u, w) /\ pairs[n].gt = u.gt
      BY PairSays
    <3> QED
      BY <3>1 DEF Declared
  <2>2. ASSUME NEW k \in KeysOf(row), k \notin conflict_keys \/ Edits(k) = {}, NEW side \in Sides
        PROVE  Now(side, k).value = row[Least(Chain(k))].value
    <3> DEFINE stream == updates[side]
    <3>1. TypeOK /\ InForce /\ MabInv /\ phase = "diverge" /\ row \in Rows
      BY ReturnedFacts DEF GenInv, Sound, GenTypeOK
    <3>2. root = AncestorFacts(FirstLines, AncestorTime)
      BY <3>1 DEF MabInv
    <3>3. /\ DOMAIN root = DOMAIN Chains
          /\ \A n \in DOMAIN root : /\ root[n].key = row[Chains[n]].key
                                    /\ root[n].value = row[Chains[n]].value
      BY <3>2 DEF AncestorFacts, FirstLines
    <3>4. PICK c \in DOMAIN Chains : Chains[c] = Least(Chain(k)) /\ row[Chains[c]].key = k
      BY <3>1, ChainsOK
    <3>5. k \in KeysOf(root)
      BY <3>3, <3>4 DEF KeysOf
    <3>6. CurrentFact(root, k).value = row[Least(Chain(k))].value
      <4>1. root \in Seq(Fact)
        BY <3>1, RootOK
      <4>2. CurrentFact(root, k).key = k /\ \E n \in DOMAIN root : CurrentFact(root, k) = root[n]
        BY <3>5, <4>1, CurrentFactKey, CurrentFactListed
      <4>3. \A n \in DOMAIN Chains : row[Chains[n]].key = row[Chains[c]].key => n = c
        BY <3>1, ChainsOK
      <4> QED
        BY <3>3, <3>4, <4>2, <4>3
    <3>7. k \in KeysOf(facts[side]) /\ applied[side] = DOMAIN stream
          /\ Effect(root, stream, DOMAIN stream, k, CurrentFact(facts[side], k))
      BY <3>1, <3>5 DEF InForce
    <3>8. Late(root, stream, DOMAIN stream, k) = {}
      <4>1. \A i \in DOMAIN stream : stream[i].key # k
        BY <2>2, <3>1 DEF MabInv, Restated
      <4> QED
        BY <4>1 DEF Late
    <3> HIDE DEF stream
    <3>9. CurrentFact(facts[side], k).value = CurrentFact(root, k).value
      BY <3>7, <3>8 DEF Effect
    <3> QED
      BY <3>6, <3>9 DEF Now
  <2> QED
    BY <2>1, <2>2
<1> QED
  BY <1>1, GeneratedIsSound, PTL

-----------------------------------------------------------------------------
(* The mix that was asked for.                                              *)

\* The pairs of a type are as many as the updates of side a, in a row, that
\* are shared and of that type.
LEMMA PairsCounted ==
    ASSUME GenInv, pc = "returned", NEW low \in Nat, NEW n \in Nat, NEW t,
           \A i \in 1..n : /\ low + i \in DOMAIN updates["a"]
                           /\ updates["a"][low + i].key \in SharedKeys
                           /\ ConflictType(updates["a"][low + i].type) = t,
           \A j \in DOMAIN updates["a"] :
               (updates["a"][j].key \in SharedKeys /\ ConflictType(updates["a"][j].type) = t)
                   => low < j /\ j <= low + n
    PROVE  Cardinality(PairsOf(t)) = n
<1> DEFINE A == updates["a"]
           at(i) == CHOOSE m \in DOMAIN pairs : pairs[m].key = A[low + i].key
           f == [i \in 1..n |-> at(i)]
<1>1. /\ TypeOK /\ Accepted /\ pairs \in Seq(SharedPairs) /\ PairKeys = SharedKeys
      /\ \A p, q \in DOMAIN pairs : pairs[p].key = pairs[q].key => p = q
  BY ReturnedFacts
<1>2. A \in Seq(UpdateSpec) /\ OnePerKey(A) /\ \A j \in DOMAIN A : j \in Nat
  <2>1. A \in Seq(UpdateSpec) /\ OnePerKey(A)
    BY <1>1, TheLists DEF Accepted, Meet
  <2> QED
    BY <2>1
\* The type of a pair is that of its update on side a.
<1>3. ASSUME NEW m \in DOMAIN pairs
      PROVE  \E j \in DOMAIN A : /\ pairs[m].key = A[j].key /\ A[j].key \in SharedKeys
                                 /\ pairs[m].type = ConflictType(A[j].type)
  <2>1. pairs[m] \in SharedPairs
    BY <1>1
  <2>2. PICK q \in SharedKeys : pairs[m] = Pair(q)
    BY <2>1 DEF SharedPairs
  <2>3. PICK j \in DOMAIN A : A[j].key = q
    BY <2>2 DEF SharedKeys, Touched
  <2>4. SpecFor(A, q) = A[j]
    <3> HIDE DEF A
    <3> QED
      BY <1>2, <2>3, SpecForOne
  <2>5. pairs[m].key = q /\ pairs[m].type = ConflictType(A[j].type)
    BY <2>2, <2>4 DEF Pair
  <2> QED
    BY <2>2, <2>3, <2>5
<1>4. /\ \A i \in 1..n : /\ low + i \in DOMAIN A /\ A[low + i].key \in SharedKeys
                         /\ ConflictType(A[low + i].type) = t
      /\ \A j \in DOMAIN A : (A[j].key \in SharedKeys /\ ConflictType(A[j].type) = t)
                                 => low < j /\ j <= low + n
  OBVIOUS
<1> HIDE DEF A
<1>5. ASSUME NEW i \in 1..n
      PROVE  f[i] \in DOMAIN pairs /\ pairs[f[i]].key = A[low + i].key /\ f[i] \in PairsOf(t)
  <2>1. A[low + i].key \in PairKeys
    BY <1>1, <1>4
  <2>2. \E m \in DOMAIN pairs : pairs[m].key = A[low + i].key
    BY <2>1 DEF PairKeys
  <2>3. at(i) \in DOMAIN pairs /\ pairs[at(i)].key = A[low + i].key
    BY <2>2
  <2> HIDE DEF at
  <2>4. PICK j \in DOMAIN A : pairs[at(i)].key = A[j].key /\ pairs[at(i)].type = ConflictType(A[j].type)
    BY <1>3, <2>3
  <2>5. j = low + i
    BY <1>2, <1>4, <2>3, <2>4 DEF OnePerKey
  <2>6. at(i) \in PairsOf(t)
    BY <1>4, <2>3, <2>4, <2>5 DEF PairsOf
  <2> QED
    BY <2>3, <2>6
<1> HIDE DEF f
<1>6. \A i, j \in 1..n : f[i] = f[j] => i = j
  <2> SUFFICES ASSUME NEW i \in 1..n, NEW j \in 1..n, f[i] = f[j] PROVE i = j
    OBVIOUS
  <2>1. A[low + i].key = A[low + j].key
    BY <1>5
  <2>2. low + i = low + j
    BY <1>2, <1>4, <2>1 DEF OnePerKey
  <2> QED
    BY <2>2
<1>7. ASSUME NEW m \in PairsOf(t) PROVE \E i \in 1..n : m = f[i]
  <2>1. m \in DOMAIN pairs /\ pairs[m].type = t
    BY DEF PairsOf
  <2>2. PICK j \in DOMAIN A : /\ pairs[m].key = A[j].key /\ A[j].key \in SharedKeys
                              /\ pairs[m].type = ConflictType(A[j].type)
    BY <1>3, <2>1
  <2>3. j \in Nat /\ low < j /\ j <= low + n
    BY <1>2, <1>4, <2>1, <2>2
  <2>4. j - low \in 1..n /\ low + (j - low) = j
    BY <2>3
  <2>5. pairs[f[j - low]].key = pairs[m].key /\ f[j - low] \in DOMAIN pairs
    BY <1>5, <2>2, <2>4
  <2> QED
    BY <1>1, <2>1, <2>4, <2>5
<1>8. \A i \in 1..n : f[i] \in PairsOf(t)
  BY <1>5
<1>9. \A m \in PairsOf(t) : \E i \in 1..n : m = f[i]
  BY <1>7
<1> QED
  BY <1>6, <1>8, <1>9, Numbered

\* The lists when all loops are done.
LEMMA AllLaid ==
    ASSUME GenInv, pc = "returned", source = "synthetic"
    PROVE  LET A == updates["a"]
               B == updates["b"]
               oa == config.orthogonal_a
               ob == config.orthogonal_b
               shared == config.resolvable + config.ambiguous
           IN  /\ config \in Configs /\ A \in Seq(UpdateSpec) /\ B \in Seq(UpdateSpec)
               /\ Len(A) = oa + shared /\ Len(B) = ob + shared
               /\ Laid(config, Total(config), KeysOf(root), A, B)
               /\ OnePerKey(A) /\ OnePerKey(B)
<1> DEFINE A == updates["a"]
           B == updates["b"]
           oa == config.orthogonal_a
           ob == config.orthogonal_b
           r == config.resolvable
           m == config.ambiguous
           T == Total(config)
<1>1. TypeOK /\ Accepted /\ SynthInv /\ phase = "diverge" /\ config \in Configs
  BY ReturnedFacts DEF GenInv, Sound, GenTypeOK
<1>2. A \in Seq(UpdateSpec) /\ B \in Seq(UpdateSpec) /\ OnePerKey(A) /\ OnePerKey(B)
  BY <1>1, TheLists DEF Accepted, Meet
<1>3. oa \in Nat /\ ob \in Nat /\ r \in Nat /\ m \in Nat /\ T = oa + ob + r + m
  BY <1>1, ConfigOK DEF Total
<1>4. left = <<>> /\ T - Len(left) = T
  BY <1>1, <1>3 DEF SynthInv
<1>5. Laid(config, T, KeysOf(root), A, B)
  BY <1>1, <1>4 DEF SynthInv
<1>6. /\ Len(A) = IF T <= oa THEN T ELSE IF T <= oa + ob THEN oa ELSE T - ob
      /\ Len(B) = IF T <= oa THEN 0 ELSE T - oa
  BY <1>5 DEF Laid, LaidSizes
<1> HIDE DEF A, B, oa, ob, r, m, T
<1>7. Len(A) = oa + (r + m) /\ Len(B) = ob + (r + m)
  BY <1>3, <1>6
<1> QED
  BY <1>1, <1>2, <1>5, <1>7 DEF A, B, oa, ob, r, m, T

\* The scenario is the mix that was asked for.
LEMMA MixAsConfigured ==
    ASSUME GenInv, pc = "returned", source = "synthetic"
    PROVE  /\ Cardinality(PairsOf("resolvable")) = config.resolvable
           /\ Cardinality(PairsOf("ambiguous")) = config.ambiguous
           /\ Cardinality(OnlyOn("a")) = config.orthogonal_a
           /\ Cardinality(OnlyOn("b")) = config.orthogonal_b
           /\ (OnlyOn("a") \cup OnlyOn("b")) \cap KeysOf(root) = {}
<1> DEFINE A == updates["a"]
           B == updates["b"]
           oa == config.orthogonal_a
           ob == config.orthogonal_b
           r == config.resolvable
           m == config.ambiguous
<1>1. /\ config \in Configs /\ A \in Seq(UpdateSpec) /\ B \in Seq(UpdateSpec)
      /\ Len(A) = oa + (r + m) /\ Len(B) = ob + (r + m)
      /\ Laid(config, Total(config), KeysOf(root), A, B) /\ OnePerKey(A) /\ OnePerKey(B)
  BY AllLaid
<1>2. oa \in Nat /\ ob \in Nat /\ r \in Nat /\ m \in Nat
  BY <1>1, ConfigOK
<1>3. DOMAIN A = 1..(oa + (r + m)) /\ DOMAIN B = 1..(ob + (r + m))
  BY <1>1
<1>4. /\ \A i \in DOMAIN A : A[i].type = TypeAt(oa, config, i)
      /\ \A j \in DOMAIN B : B[j].type = TypeAt(ob, config, j)
      /\ \A i \in DOMAIN A : A[i].type = "orthogonal" => A[i].key \notin KeysOf(root)
      /\ \A j \in DOMAIN B : B[j].type = "orthogonal" => B[j].key \notin KeysOf(root)
  BY <1>1 DEF Laid, LaidTypes, LaidKeys
<1>5. \A i \in DOMAIN A, j \in DOMAIN B :
          A[i].key = B[j].key <=> i > oa /\ j > ob /\ i + ob = j + oa
  BY <1>1 DEF Laid, LaidPairs
<1>6. SharedKeys = Touched(A) \cap Touched(B)
  BY DEF SharedKeys
<1>7. \A own, i : TypeAt(own, config, i) =
          IF i <= own THEN "orthogonal"
          ELSE IF i <= own + r THEN "resolvable_conflict" ELSE "ambiguous_conflict"
  BY DEF TypeAt
<1> HIDE DEF A, B, oa, ob, r, m
<1>8. ASSUME NEW i \in DOMAIN A PROVE A[i].key \in SharedKeys <=> i > oa
  <2>1. i \in Nat /\ i <= oa + (r + m)
    BY <1>3, <1>2
  <2>2. ASSUME i > oa PROVE A[i].key \in Touched(B)
    <3>1. i + ob - oa \in DOMAIN B /\ i + ob - oa > ob /\ i + ob = (i + ob - oa) + oa
      BY <1>2, <1>3, <2>1, <2>2
    <3>2. A[i].key = B[i + ob - oa].key
      BY <1>5, <2>2, <3>1
    <3> QED
      BY <3>1, <3>2 DEF Touched
  <2>3. ASSUME A[i].key \in Touched(B) PROVE i > oa
    <3>1. PICK j \in DOMAIN B : B[j].key = A[i].key
      BY <2>3 DEF Touched
    <3> QED
      BY <1>5, <3>1
  <2>4. A[i].key \in Touched(A)
    BY DEF Touched
  <2> QED
    BY <1>6, <2>2, <2>3, <2>4
<1>9. ASSUME NEW j \in DOMAIN B PROVE B[j].key \in SharedKeys <=> j > ob
  <2>1. j \in Nat /\ j <= ob + (r + m)
    BY <1>3, <1>2
  <2>2. ASSUME j > ob PROVE B[j].key \in Touched(A)
    <3>1. j + oa - ob \in DOMAIN A /\ j + oa - ob > oa /\ (j + oa - ob) + ob = j + oa
      BY <1>2, <1>3, <2>1, <2>2
    <3>2. A[j + oa - ob].key = B[j].key
      BY <1>5, <2>2, <3>1
    <3> QED
      BY <3>1, <3>2 DEF Touched
  <2>3. ASSUME B[j].key \in Touched(A) PROVE j > ob
    <3>1. PICK i \in DOMAIN A : A[i].key = B[j].key
      BY <2>3 DEF Touched
    <3> QED
      BY <1>5, <3>1
  <2>4. B[j].key \in Touched(B)
    BY DEF Touched
  <2> QED
    BY <1>6, <2>2, <2>3, <2>4
\* The conflicts of side a, by their places.
<1>10. ASSUME NEW i \in DOMAIN A, i > oa
       PROVE  /\ ConflictType(A[i].type) = "resolvable" <=> i <= oa + r
              /\ ConflictType(A[i].type) = "ambiguous" <=> ~(i <= oa + r)
  <2>1. ~(i <= oa)
    BY <1>2, <1>3, <1>10
  <2>2. A[i].type = IF i <= oa + r THEN "resolvable_conflict" ELSE "ambiguous_conflict"
    BY <1>4, <1>7, <2>1
  <2> QED
    BY <2>2 DEF ConflictType
<1>11. Cardinality(PairsOf("resolvable")) = r
  <2>1. \A i \in 1..r : /\ oa + i \in DOMAIN A /\ A[oa + i].key \in SharedKeys
                        /\ ConflictType(A[oa + i].type) = "resolvable"
    <3> SUFFICES ASSUME NEW i \in 1..r
                 PROVE  /\ oa + i \in DOMAIN A /\ A[oa + i].key \in SharedKeys
                        /\ ConflictType(A[oa + i].type) = "resolvable"
      OBVIOUS
    <3>1. oa + i \in DOMAIN A /\ oa + i > oa /\ oa + i <= oa + r
      BY <1>2, <1>3
    <3> QED
      BY <1>8, <1>10, <3>1
  <2>2. \A j \in DOMAIN A : (A[j].key \in SharedKeys /\ ConflictType(A[j].type) = "resolvable")
                                => oa < j /\ j <= oa + r
    <3> SUFFICES ASSUME NEW j \in DOMAIN A, A[j].key \in SharedKeys, ConflictType(A[j].type) = "resolvable"
                 PROVE  oa < j /\ j <= oa + r
      OBVIOUS
    <3>1. j > oa
      BY <1>8
    <3>2. j <= oa + r
      BY <1>10, <3>1
    <3> QED
      BY <3>1, <3>2
  <2> DEFINE t == "resolvable"
  <2> HIDE DEF t
  <2>3. /\ \A i \in 1..r : /\ oa + i \in DOMAIN updates["a"]
                           /\ updates["a"][oa + i].key \in SharedKeys
                           /\ ConflictType(updates["a"][oa + i].type) = t
        /\ \A j \in DOMAIN updates["a"] :
               (updates["a"][j].key \in SharedKeys /\ ConflictType(updates["a"][j].type) = t)
                   => oa < j /\ j <= oa + r
    BY <2>1, <2>2 DEF A, t
  <2>4. Cardinality(PairsOf(t)) = r
    BY <1>2, <2>3, PairsCounted
  <2> QED
    BY <2>4 DEF t
<1>12. Cardinality(PairsOf("ambiguous")) = m
  <2>1. \A i \in 1..m : /\ (oa + r) + i \in DOMAIN A /\ A[(oa + r) + i].key \in SharedKeys
                        /\ ConflictType(A[(oa + r) + i].type) = "ambiguous"
    <3> SUFFICES ASSUME NEW i \in 1..m
                 PROVE  /\ (oa + r) + i \in DOMAIN A /\ A[(oa + r) + i].key \in SharedKeys
                        /\ ConflictType(A[(oa + r) + i].type) = "ambiguous"
      OBVIOUS
    <3>1. (oa + r) + i \in DOMAIN A /\ (oa + r) + i > oa /\ ~((oa + r) + i <= oa + r)
      BY <1>2, <1>3
    <3> QED
      BY <1>8, <1>10, <3>1
  <2>2. \A j \in DOMAIN A : (A[j].key \in SharedKeys /\ ConflictType(A[j].type) = "ambiguous")
                                => oa + r < j /\ j <= (oa + r) + m
    <3> SUFFICES ASSUME NEW j \in DOMAIN A, A[j].key \in SharedKeys, ConflictType(A[j].type) = "ambiguous"
                 PROVE  oa + r < j /\ j <= (oa + r) + m
      OBVIOUS
    <3>1. j > oa
      BY <1>8
    <3>2. ~(j <= oa + r)
      BY <1>10, <3>1
    <3> QED
      BY <1>2, <1>3, <3>2
  <2> DEFINE t == "ambiguous"
  <2> HIDE DEF t
  <2>3. /\ \A i \in 1..m : /\ (oa + r) + i \in DOMAIN updates["a"]
                           /\ updates["a"][(oa + r) + i].key \in SharedKeys
                           /\ ConflictType(updates["a"][(oa + r) + i].type) = t
        /\ \A j \in DOMAIN updates["a"] :
               (updates["a"][j].key \in SharedKeys /\ ConflictType(updates["a"][j].type) = t)
                   => oa + r < j /\ j <= (oa + r) + m
    BY <2>1, <2>2 DEF A, t
  <2>4. oa + r \in Nat
    BY <1>2
  <2> DEFINE base == oa + r
  <2> HIDE DEF base
  <2>5. base \in Nat
    BY <2>4 DEF base
  <2>6. /\ \A i \in 1..m : /\ base + i \in DOMAIN updates["a"]
                           /\ updates["a"][base + i].key \in SharedKeys
                           /\ ConflictType(updates["a"][base + i].type) = t
        /\ \A j \in DOMAIN updates["a"] :
               (updates["a"][j].key \in SharedKeys /\ ConflictType(updates["a"][j].type) = t)
                   => base < j /\ j <= base + m
    BY <2>3 DEF base
  <2>7. Cardinality(PairsOf(t)) = m
    BY <1>2, <2>5, <2>6, PairsCounted
  <2> QED
    BY <2>7 DEF t
<1>13. Cardinality(OnlyOn("a")) = oa
  <2> DEFINE f == [i \in 1..oa |-> A[i].key]
             only == OnlyOn("a")
  <2>1. \A i \in 1..oa : i \in DOMAIN A /\ ~(i > oa)
    BY <1>2, <1>3
  <2>2. only = Touched(A) \ SharedKeys
    BY DEF OnlyOn, A
  <2> HIDE DEF only
  <2>3. \A i \in 1..oa : f[i] \in only
    BY <1>8, <2>1, <2>2 DEF Touched
  <2>4. \A i, j \in 1..oa : f[i] = f[j] => i = j
    BY <1>1, <2>1 DEF OnePerKey
  <2>5. \A k \in only : \E i \in 1..oa : k = f[i]
    <3> SUFFICES ASSUME NEW k \in only PROVE \E i \in 1..oa : k = f[i]
      OBVIOUS
    <3>1. PICK i \in DOMAIN A : k = A[i].key
      BY <2>2 DEF Touched
    <3>2. ~(i > oa)
      BY <1>8, <2>2, <3>1
    <3>3. i \in 1..oa
      BY <1>2, <1>3, <3>2
    <3> QED
      BY <3>1, <3>3
  <2> HIDE DEF f
  <2>6. Cardinality(only) = oa
    BY <1>2, <2>3, <2>4, <2>5, Numbered
  <2> QED
    BY <2>6 DEF only
<1>14. Cardinality(OnlyOn("b")) = ob
  <2> DEFINE f == [j \in 1..ob |-> B[j].key]
             only == OnlyOn("b")
  <2>1. \A j \in 1..ob : j \in DOMAIN B /\ ~(j > ob)
    BY <1>2, <1>3
  <2>2. only = Touched(B) \ SharedKeys
    BY DEF OnlyOn, B
  <2> HIDE DEF only
  <2>3. \A j \in 1..ob : f[j] \in only
    BY <1>9, <2>1, <2>2 DEF Touched
  <2>4. \A i, j \in 1..ob : f[i] = f[j] => i = j
    BY <1>1, <2>1 DEF OnePerKey
  <2>5. \A k \in only : \E j \in 1..ob : k = f[j]
    <3> SUFFICES ASSUME NEW k \in only PROVE \E j \in 1..ob : k = f[j]
      OBVIOUS
    <3>1. PICK j \in DOMAIN B : k = B[j].key
      BY <2>2 DEF Touched
    <3>2. ~(j > ob)
      BY <1>9, <2>2, <3>1
    <3>3. j \in 1..ob
      BY <1>2, <1>3, <3>2
    <3> QED
      BY <3>1, <3>3
  <2> HIDE DEF f
  <2>6. Cardinality(only) = ob
    BY <1>2, <2>3, <2>4, <2>5, Numbered
  <2> QED
    BY <2>6 DEF only
<1>15. ASSUME NEW k \in OnlyOn("a") \cup OnlyOn("b") PROVE k \notin KeysOf(root)
  <2>1. CASE k \in OnlyOn("a")
    <3>1. PICK i \in DOMAIN A : k = A[i].key /\ k \notin SharedKeys
      BY <2>1 DEF OnlyOn, Touched, A
    <3>2. i <= oa
      BY <1>2, <1>3, <1>8, <3>1
    <3>3. A[i].type = "orthogonal"
      BY <1>4, <1>7, <3>2
    <3> QED
      BY <1>4, <3>1, <3>3
  <2>2. CASE k \in OnlyOn("b")
    <3>1. PICK j \in DOMAIN B : k = B[j].key /\ k \notin SharedKeys
      BY <2>2 DEF OnlyOn, Touched, B
    <3>2. j <= ob
      BY <1>2, <1>3, <1>9, <3>1
    <3>3. B[j].type = "orthogonal"
      BY <1>4, <1>7, <3>2
    <3> QED
      BY <1>4, <3>1, <3>3
  <2> QED
    BY <1>15, <2>1, <2>2
<1> QED
  BY <1>11, <1>12, <1>13, <1>14, <1>15 DEF oa, ob, r, m

\* Whatever was drawn, diverge accepts the streams and the scenario is the mix
\* that was asked for.
THEOREM ScenarioAsConfigured == GenSpec => []DivergesAsConfigured
<1>1. GenInv => DivergesAsConfigured
  <2> SUFFICES ASSUME GenInv PROVE DivergesAsConfigured
    OBVIOUS
  <2>1. pc # "raised"
    BY DEF GenInv, Sound, Accepted
  <2>2. ASSUME pc = "returned", NEW n \in DOMAIN pairs
        PROVE  /\ pairs[n].type # None
               /\ source # "synthetic" => pairs[n].type = "resolvable"
    <3>1. PICK u, w \in UpdateSpec : Declared(u, w) /\ pairs[n].type = ConflictType(u.type)
      BY <2>2, PairSays
    <3> QED
      BY <3>1, StreamsAssumption DEF Declared, ConflictType
  <2>3. ASSUME pc = "returned"
        PROVE  /\ PairsOf(None) = {}
               /\ source # "synthetic" => PairsOf("resolvable") = DOMAIN pairs
    BY <2>2, <2>3 DEF PairsOf
  <2> QED
    BY <2>1, <2>3, MixAsConfigured DEF DivergesAsConfigured
<1> QED
  BY <1>1, GeneratedIsSound, PTL
=============================================================================
