-------------------------- MODULE BranchSimProofs --------------------------
(* The branch simulator for every ancestor and every pair of streams: where *)
(* facts descend from, which update is in effect, and that the conflict     *)
(* pairs account for the collisions.                                        *)
EXTENDS BranchSim, MemoryLemmas, FiniteSetTheorems

\* A root that create_common_ancestor makes.
IsRoot(facts0) ==
    \E p \in Seq([key : Keys, value : Values]) : facts0 = AncestorFacts(p, AncestorTime)

\* What holds of the fields alone, of any ancestor and any streams.
TypeOK ==
    /\ IsRoot(root)
    /\ updates \in [Sides -> Seq(UpdateSpec)]
    /\ applied \in [Sides -> SUBSET Nat]
    /\ \A s \in Sides : applied[s] \subseteq DOMAIN updates[s]
    /\ facts \in [Sides -> Seq(Fact)]
    /\ pc \in {"fork", "apply", "check", "returned", "raised"}

-----------------------------------------------------------------------------
(* The operators the simulator is built from.                               *)

\* What a state's root is.
LEMMA RootOK ==
    ASSUME TypeOK
    PROVE  root \in Seq(Fact) /\ \A n \in DOMAIN root : root[n].ts = AncestorTime
<1>1. PICK p \in Seq([key : Keys, value : Values]) : root = AncestorFacts(p, AncestorTime)
  BY DEF TypeOK, IsRoot
<1>2. AncestorTime \in Nat
  BY StreamsAssumption
<1> QED
  BY <1>1, <1>2, AncestorOK

\* The fact an update adds, and that it is added at the end.
LEMMA UpdatedOK ==
    ASSUME NEW branch \in Seq(Fact), NEW s \in Sides, NEW u \in UpdateSpec
    PROVE  \E f \in Fact :
               /\ Updated(branch, s, u) = Append(branch, f)
               /\ f.id = <<s, Len(branch) + 1>> /\ f.branch = s
               /\ f.key = u.key /\ f.value = u.value /\ f.ts = u.ts /\ f.conf = u.conf
               /\ f.anc = IF u.key \in KeysOf(branch) THEN CurrentFact(branch, u.key).id ELSE None
<1> DEFINE anc == IF u.key \in KeysOf(branch) THEN CurrentFact(branch, u.key).id ELSE None
           f == [id |-> <<s, Len(branch) + 1>>, key |-> u.key, value |-> u.value,
                 branch |-> s, ts |-> u.ts, conf |-> u.conf, anc |-> anc]
<1>1. anc \in Ids \cup {None}
  <2>1. u.key \in KeysOf(branch) => CurrentFact(branch, u.key) \in Fact
    BY CurrentFactKey
  <2> QED
    BY <2>1 DEF Fact
<1>2. Updated(branch, s, u) = Append(branch, f)
  BY DEF Updated
<1>3. <<s, Len(branch) + 1>> \in Ids /\ s \in Branches
  BY DEF Ids, Branches
<1> HIDE DEF anc
<1>4. f \in Fact
  BY <1>1, <1>3 DEF Fact, UpdateSpec
<1> QED
  BY <1>2, <1>4 DEF anc

\* An update of a stream is one.
LEMMA StreamFields ==
    ASSUME NEW stream \in Seq(UpdateSpec)
    PROVE  /\ DOMAIN stream \subseteq Nat
           /\ \A i \in DOMAIN stream :
                  /\ stream[i] \in UpdateSpec /\ stream[i].key \in Keys
                  /\ stream[i].value \in Values /\ stream[i].ts \in Nat
<1>1. DOMAIN stream \subseteq Nat /\ \A i \in DOMAIN stream : stream[i] \in UpdateSpec
  OBVIOUS
<1> QED
  BY <1>1 DEF UpdateSpec

-----------------------------------------------------------------------------
(* Types.                                                                   *)

\* A step keeps the types.
LEMMA TypeStep ==
    ASSUME TypeOK, [Next]_vars
    PROVE  TypeOK'
<1>1. CASE Fork
  <2>1. \A s \in Sides : ForkedFacts(root, s) \in Seq(Fact)
    BY RootOK, ForkedOK
  <2> QED
    BY <1>1, <2>1 DEF Fork, TypeOK
<1>2. ASSUME NEW s \in Sides, NEW i \in DOMAIN updates[s], ApplyUpdate(s, i)
      PROVE  TypeOK'
  <2>1. updates[s] \in Seq(UpdateSpec) /\ facts[s] \in Seq(Fact)
    BY DEF TypeOK
  <2>2. updates[s][i] \in UpdateSpec /\ i \in Nat
    BY <2>1, StreamFields
  <2>3. Updated(facts[s], s, updates[s][i]) \in Seq(Fact)
    <3>1. PICK f \in Fact : Updated(facts[s], s, updates[s][i]) = Append(facts[s], f)
      BY <2>1, <2>2, UpdatedOK
    <3> QED
      BY <2>1, <3>1, CurrentAppended
  <2>4. facts' = [facts EXCEPT ![s] = Updated(facts[s], s, updates[s][i])]
    BY <1>2 DEF ApplyUpdate, TypeOK
  <2>5. applied' = [applied EXCEPT ![s] = applied[s] \cup {i}]
    BY <1>2 DEF ApplyUpdate, TypeOK
  <2>6. UNCHANGED <<root, updates, pc>>
    BY <1>2 DEF ApplyUpdate
  <2>7. facts' \in [Sides -> Seq(Fact)] /\ applied' \in [Sides -> SUBSET Nat]
    <3>1. applied[s] \cup {i} \in SUBSET Nat
      BY <2>2 DEF TypeOK
    <3>2. facts' \in [Sides -> Seq(Fact)]
      BY <2>3, <2>4 DEF TypeOK
    <3> QED
      BY <2>5, <3>1, <3>2 DEF TypeOK
  <2>8. \A t \in Sides : applied'[t] \subseteq DOMAIN updates[t]
    BY <2>5 DEF TypeOK
  <2> QED
    BY <2>6, <2>7, <2>8 DEF TypeOK
<1>3. CASE UNCHANGED <<root, updates, applied, facts>> /\ pc' \in {pc, "check", "returned", "raised"}
  BY <1>3 DEF TypeOK
<1> QED
  BY <1>1, <1>2, <1>3 DEF Next, AllApplied, AddPair, RaiseDivergenceError, Return, vars

\* Branches stay lists of facts and only listed updates are applied.
THEOREM TypeCorrect == Spec => []TypeOK
<1>1. Init => TypeOK
  <2> SUFFICES ASSUME Init PROVE TypeOK
    OBVIOUS
  <2>1. IsRoot(root)
    BY StreamsAssumption DEF Init, IsRoot
  <2>2. updates \in [Sides -> Seq(UpdateSpec)]
    BY StreamsAssumption DEF Init
  <2> QED
    BY <2>1, <2>2 DEF Init, TypeOK
<1>2. TypeOK /\ [Next]_vars => TypeOK'
  BY TypeStep
<1> QED
  BY <1>1, <1>2, PTL DEF Spec

-----------------------------------------------------------------------------
(* What a step does to the branches.                                        *)

\* A step that adds update i of side s to its branch as the fact f.
Adds(s, i, f) ==
    /\ pc = "apply" /\ pc' = "apply"
    /\ NextUpdate(s, i)
    /\ applied' = [applied EXCEPT ![s] = applied[s] \cup {i}]
    /\ facts' = [facts EXCEPT ![s] = Append(facts[s], f)]
    /\ f.id = <<s, Len(facts[s]) + 1>> /\ f.branch = s
    /\ f.key = updates[s][i].key /\ f.value = updates[s][i].value
    /\ f.ts = updates[s][i].ts /\ f.conf = updates[s][i].conf
    /\ f.anc = IF f.key \in KeysOf(facts[s]) THEN CurrentFact(facts[s], f.key).id ELSE None

\* A step that forks the root.
Forks ==
    /\ pc = "fork" /\ pc' = "apply" /\ applied' = applied
    /\ facts' = [s \in Sides |-> ForkedFacts(root, s)]

\* A step that leaves the branches alone.
Keeps ==
    /\ UNCHANGED <<facts, applied>>
    /\ \/ pc' = pc
       \/ pc = "apply" /\ pc' = "check" /\ \A s \in Sides : applied[s] = DOMAIN updates[s]
       \/ pc = "check" /\ pc' \in {"returned", "raised"}

\* A step forks the root, or adds one update to one branch, or leaves the
\* branches alone.
LEMMA NextFacts ==
    ASSUME TypeOK, [Next]_vars
    PROVE  /\ UNCHANGED <<root, updates>>
           /\ \/ Forks
              \/ \E s \in Sides : \E i \in DOMAIN updates[s], f \in Fact : Adds(s, i, f)
              \/ Keeps
<1>1. CASE Fork
  BY <1>1 DEF Fork, Forks
<1>2. ASSUME NEW s \in Sides, NEW i \in DOMAIN updates[s], ApplyUpdate(s, i)
      PROVE  UNCHANGED <<root, updates>> /\ \E f \in Fact : Adds(s, i, f)
  <2>1. updates[s] \in Seq(UpdateSpec) /\ facts[s] \in Seq(Fact)
    BY DEF TypeOK
  <2>2. updates[s][i] \in UpdateSpec
    BY <2>1, StreamFields
  <2>3. /\ pc = "apply" /\ NextUpdate(s, i) /\ UNCHANGED <<root, updates, pc>>
        /\ facts' = [facts EXCEPT ![s] = Updated(facts[s], s, updates[s][i])]
        /\ applied' = [applied EXCEPT ![s] = applied[s] \cup {i}]
    BY <1>2 DEF ApplyUpdate, TypeOK
  <2>4. PICK f \in Fact :
            /\ Updated(facts[s], s, updates[s][i]) = Append(facts[s], f)
            /\ f.id = <<s, Len(facts[s]) + 1>> /\ f.branch = s
            /\ f.key = updates[s][i].key /\ f.value = updates[s][i].value
            /\ f.ts = updates[s][i].ts /\ f.conf = updates[s][i].conf
            /\ f.anc = IF updates[s][i].key \in KeysOf(facts[s])
                       THEN CurrentFact(facts[s], updates[s][i].key).id ELSE None
    <3> DEFINE u == updates[s][i]
               branch == facts[s]
    <3>1. u \in UpdateSpec /\ branch \in Seq(Fact)
      BY <2>1, <2>2
    <3> HIDE DEF u, branch
    <3>2. \E f \in Fact :
              /\ Updated(branch, s, u) = Append(branch, f)
              /\ f.id = <<s, Len(branch) + 1>> /\ f.branch = s
              /\ f.key = u.key /\ f.value = u.value /\ f.ts = u.ts /\ f.conf = u.conf
              /\ f.anc = IF u.key \in KeysOf(branch) THEN CurrentFact(branch, u.key).id ELSE None
      BY <3>1, UpdatedOK
    <3> QED
      BY <3>2 DEF u, branch
  <2>5. Adds(s, i, f)
    BY <2>3, <2>4 DEF Adds
  <2> QED
    BY <2>3, <2>5
<1>3. CASE AllApplied
  BY <1>3 DEF AllApplied, Keeps
<1>4. CASE AddPair \/ RaiseDivergenceError \/ Return
  BY <1>4 DEF AddPair, RaiseDivergenceError, Return, Keeps
<1>5. CASE UNCHANGED vars
  BY <1>5 DEF vars, Keeps
<1>6. UNCHANGED <<root, updates>>
  BY <1>2 DEF Next, Fork, AllApplied, AddPair, RaiseDivergenceError, Return, vars
<1> QED
  BY <1>1, <1>2, <1>3, <1>4, <1>5, <1>6 DEF Next

-----------------------------------------------------------------------------
(* Where facts descend from.                                                *)

\* What LineageSound says of the fact in position n of a branch.
Descends(base, branch, s, n) ==
    LET f == branch[n]
        earlier == {m \in 1..(n - 1) : branch[m].key = f.key}
    IN  /\ f.id = <<s, n>> /\ f.branch = s
        /\ n \in DOMAIN base =>
               /\ f.anc = base[n].id
               /\ <<f.key, f.value, f.ts>> = <<base[n].key, base[n].value, base[n].ts>>
        /\ n \notin DOMAIN base =>
               IF earlier = {} THEN f.anc = None
               ELSE \E m \in earlier : f.anc = branch[m].id /\ IsLatest(branch, f.key, earlier, m)

\* A longer branch holds the facts it held, each with the same ones before it.
LEMMA DescendsStays ==
    ASSUME NEW base, NEW branch \in Seq(Fact), NEW f \in Fact, NEW s, NEW n \in DOMAIN branch,
           Descends(base, branch, s, n)
    PROVE  Descends(base, Append(branch, f), s, n)
<1> DEFINE longer == Append(branch, f)
           earlier == {m \in 1..(n - 1) : branch[m].key = branch[n].key}
<1>1. /\ DOMAIN branch = 1..Len(branch) /\ Len(branch) \in Nat
      /\ \A m \in DOMAIN branch : longer[m] = branch[m]
  OBVIOUS
<1> HIDE DEF longer
<1>2. \A m \in 1..(n - 1) : m \in DOMAIN branch
  BY <1>1
<1>3. earlier = {m \in 1..(n - 1) : longer[m].key = longer[n].key}
  BY <1>1, <1>2
<1>4. ASSUME NEW m \in earlier, IsLatest(branch, branch[n].key, earlier, m)
      PROVE  IsLatest(longer, branch[n].key, earlier, m)
  BY <1>1, <1>2, <1>4 DEF IsLatest
<1>5. \A m \in earlier : longer[m] = branch[m]
  BY <1>1, <1>2
<1>6. Descends(base, longer, s, n)
  <2>1. longer[n] = branch[n]
    BY <1>1
  <2>2. CASE n \in DOMAIN base
    BY <2>1, <2>2 DEF Descends
  <2>3. CASE n \notin DOMAIN base
    <3>1. IF earlier = {} THEN branch[n].anc = None
          ELSE \E m \in earlier : branch[n].anc = branch[m].id /\ IsLatest(branch, branch[n].key, earlier, m)
      BY <2>3 DEF Descends
    <3> HIDE DEF earlier
    <3>2. IF earlier = {} THEN longer[n].anc = None
          ELSE \E m \in earlier : longer[n].anc = longer[m].id /\ IsLatest(longer, longer[n].key, earlier, m)
      BY <1>4, <1>5, <2>1, <3>1
    <3>3. longer[n].id = <<s, n>> /\ longer[n].branch = s
      BY <2>1 DEF Descends
    <3> QED
      BY <1>3, <2>3, <3>2, <3>3 DEF Descends
  <2> QED
    BY <2>2, <2>3
<1> QED
  BY <1>6 DEF longer

\* The fact an update adds names the one that was current.
LEMMA AddedDescends ==
    ASSUME NEW base, NEW branch \in Seq(Fact), NEW f \in Fact, NEW s,
           Len(branch) + 1 \notin DOMAIN base,
           f.id = <<s, Len(branch) + 1>>, f.branch = s,
           f.anc = IF f.key \in KeysOf(branch) THEN CurrentFact(branch, f.key).id ELSE None
    PROVE  Descends(base, Append(branch, f), s, Len(branch) + 1)
<1> DEFINE longer == Append(branch, f)
           n == Len(branch) + 1
           earlier == {m \in 1..(n - 1) : longer[m].key = longer[n].key}
<1>1. /\ DOMAIN branch = 1..Len(branch) /\ Len(branch) \in Nat
      /\ longer[n] = f /\ \A m \in 1..Len(branch) : longer[m] = branch[m]
      /\ 1..(n - 1) = DOMAIN branch
  OBVIOUS
<1> HIDE DEF longer, n
<1>2. earlier = {m \in DOMAIN branch : branch[m].key = f.key}
  BY <1>1
<1>3. CASE f.key \notin KeysOf(branch)
  <2>1. earlier = {} /\ f.anc = None
    BY <1>2, <1>3 DEF KeysOf
  <2> QED
    BY <1>1, <2>1 DEF Descends, longer, n
<1>4. CASE f.key \in KeysOf(branch)
  <2>1. PICK m \in DOMAIN branch : IsLatest(branch, f.key, DOMAIN branch, m)
    BY <1>4, LatestExists
  <2>2. f.anc = branch[m].id
    BY <1>4, <2>1, CurrentIsLatest
  <2>3. m \in earlier
    BY <1>2, <2>1 DEF IsLatest
  <2>4. IsLatest(longer, f.key, earlier, m)
    <3>1. \A j \in earlier : j \in DOMAIN branch /\ longer[j] = branch[j]
      BY <1>1
    <3> QED
      BY <2>1, <2>3, <3>1 DEF IsLatest
  <2>5. longer[m] = branch[m] /\ earlier # {}
    BY <1>1, <2>3
  <2>6. \E j \in earlier : f.anc = longer[j].id /\ IsLatest(longer, f.key, earlier, j)
    BY <2>2, <2>3, <2>4, <2>5
  <2> QED
    BY <1>1, <2>5, <2>6 DEF Descends, longer, n
<1> QED
  BY <1>3, <1>4

\* Once forked a branch is at least as long as the root.
Forked == pc # "fork" => \A s \in Sides : Len(root) <= Len(facts[s])

LEMMA ForkedInductive == Spec => []Forked
<1>1. Init => Forked
  BY DEF Init, Forked
<1>2. TypeOK /\ Forked /\ [Next]_vars => Forked'
  <2> SUFFICES ASSUME TypeOK, Forked, [Next]_vars, pc' # "fork", NEW s \in Sides
               PROVE  Len(root') <= Len(facts'[s])
    BY DEF Forked
  <2>1. root' = root /\ Len(root) \in Nat /\ root \in Seq(Fact) /\ facts[s] \in Seq(Fact)
    BY RootOK, NextFacts DEF TypeOK
  <2>2. CASE Forks
    <3>1. Len(facts'[s]) = Len(root)
      BY <2>1, <2>2, ForkedOK DEF Forks
    <3> QED
      BY <2>1, <3>1
  <2>3. ASSUME NEW t \in Sides, NEW i \in DOMAIN updates[t], NEW f \in Fact, Adds(t, i, f)
        PROVE  Len(root') <= Len(facts'[s])
    <3>1. Len(root) <= Len(facts[s]) /\ Len(facts[s]) \in Nat
      BY <2>1, <2>3 DEF Forked, Adds
    <3>2. facts'[s] = IF t = s THEN Append(facts[s], f) ELSE facts[s]
      BY <2>3 DEF TypeOK, Adds
    <3>3. Len(Append(facts[s], f)) = Len(facts[s]) + 1
      BY <2>1
    <3> QED
      BY <2>1, <3>1, <3>2, <3>3
  <2>4. CASE Keeps
    BY <2>1, <2>4 DEF Forked, Keeps
  <2> QED
    BY <2>2, <2>3, <2>4, NextFacts
<1> QED
  BY <1>1, <1>2, TypeCorrect, PTL DEF Spec

\* Every fact of a branch names the fact it superseded, through any number of
\* updates, backdated ones and ones of equal time included.
THEOREM LineageIsSound == Spec => []LineageSound
<1> DEFINE Lineage == pc # "fork" => \A s \in Sides : \A n \in DOMAIN facts[s] : Descends(root, facts[s], s, n)
<1>0. LineageSound <=> Lineage
  BY DEF LineageSound, Descends
<1>1. Init => Lineage
  BY DEF Init
<1>2. TypeOK /\ Forked /\ Lineage /\ [Next]_vars => Lineage'
  <2> SUFFICES ASSUME TypeOK, Forked, Lineage, [Next]_vars, pc' # "fork",
                      NEW s \in Sides, NEW n \in DOMAIN facts'[s]
               PROVE  Descends(root', facts'[s], s, n)
    OBVIOUS
  <2>1. root' = root /\ root \in Seq(Fact) /\ facts[s] \in Seq(Fact)
    BY RootOK, NextFacts DEF TypeOK
  <2>3. CASE Forks
    <3>1. facts'[s] = ForkedFacts(root, s) /\ n \in DOMAIN root
      BY <2>1, <2>3, ForkedOK DEF Forks
    <3> QED
      BY <2>1, <3>1, ForkedOK DEF Descends
  <2>4. ASSUME NEW t \in Sides, NEW i \in DOMAIN updates[t], NEW f \in Fact, Adds(t, i, f)
        PROVE  Descends(root, facts'[s], s, n)
    <3>1. pc # "fork" /\ \A m \in DOMAIN facts[s] : Descends(root, facts[s], s, m)
      BY <2>4 DEF Adds
    <3>2. facts'[s] = IF t = s THEN Append(facts[s], f) ELSE facts[s]
      BY <2>4 DEF TypeOK, Adds
    <3>3. CASE t # s
      BY <3>1, <3>2, <3>3
    <3>4. CASE t = s /\ n \in DOMAIN facts[s]
      BY <2>1, <3>1, <3>2, <3>4, DescendsStays
    <3>5. CASE t = s /\ n \notin DOMAIN facts[s]
      <4>1. n = Len(facts[s]) + 1
        BY <2>1, <3>2, <3>5
      <4>2. Len(facts[s]) + 1 \notin DOMAIN root
        <5>1. Len(root) <= Len(facts[s]) /\ Len(root) \in Nat /\ Len(facts[s]) \in Nat
              /\ DOMAIN root = 1..Len(root)
          BY <2>1, <3>1 DEF Forked
        <5> QED
          BY <5>1
      <4> QED
        BY <2>1, <2>4, <3>2, <3>5, <4>1, <4>2, AddedDescends DEF Adds
    <3> QED
      BY <3>3, <3>4, <3>5
  <2>5. CASE Keeps
    BY <2>1, <2>5 DEF Keeps
  <2> QED
    BY <2>1, <2>3, <2>4, <2>5, NextFacts
<1> QED
  BY <1>0, <1>1, <1>2, TypeCorrect, ForkedInductive, PTL DEF Spec

-----------------------------------------------------------------------------
(* Which update is in effect.                                               *)

\* The order in which a stream is applied.
Earlier(stream, i, j) ==
    \/ stream[i].ts < stream[j].ts
    \/ stream[i].ts = stream[j].ts /\ i <= j

\* The updates of k among the positions A that can displace the ancestor's
\* fact, and the one of them that is in effect.
Late(base, stream, A, k) ==
    {i \in A : stream[i].key = k /\ (k \in KeysOf(base) => stream[i].ts > AncestorTime)}
Best(stream, T, i) ==
    i \in T /\ \A j \in T : stream[j].ts < stream[i].ts \/ (stream[j].ts = stream[i].ts /\ i <= j)

\* After the updates A, a branch forked from base holds f for k.
Effect(base, stream, A, k, f) ==
    \/ /\ Late(base, stream, A, k) = {}
       /\ k \in KeysOf(base) /\ f.value = CurrentFact(base, k).value /\ f.ts = AncestorTime
    \/ \E i \in Late(base, stream, A, k) :
           /\ Best(stream, Late(base, stream, A, k), i)
           /\ f.value = stream[i].value /\ f.ts = stream[i].ts /\ f.conf = stream[i].conf

\* An update that comes after those applied displaces the current fact of its
\* key exactly if it is strictly later.
LEMMA EffectAdded ==
    ASSUME NEW base, NEW stream \in Seq(UpdateSpec), NEW A \in SUBSET (DOMAIN stream),
           NEW i \in DOMAIN stream, \A j \in A : Earlier(stream, j, i),
           NEW k, k = stream[i].key, NEW cur, Effect(base, stream, A, k, cur),
           NEW f, f.value = stream[i].value, f.ts = stream[i].ts, f.conf = stream[i].conf
    PROVE  Effect(base, stream, A \cup {i}, k, IF f.ts > cur.ts THEN f ELSE cur)
<1> DEFINE late == Late(base, stream, A, k)
           later == Late(base, stream, A \cup {i}, k)
<1>1. \A j \in DOMAIN stream : j \in Nat /\ stream[j].ts \in Nat
  BY StreamFields
<1>2. AncestorTime \in Nat /\ i \in Nat /\ f.ts \in Nat
  BY <1>1, StreamsAssumption
<1>3. /\ late \subseteq A /\ late \subseteq later /\ later \subseteq late \cup {i}
      /\ i \in later <=> (k \in KeysOf(base) => f.ts > AncestorTime)
      /\ \A j \in late : k \in KeysOf(base) => stream[j].ts > AncestorTime
  BY DEF Late
<1>0. /\ Effect(base, stream, A, k, cur) <=>
             \/ /\ late = {}
                /\ k \in KeysOf(base) /\ cur.value = CurrentFact(base, k).value /\ cur.ts = AncestorTime
             \/ \E j \in late :
                    /\ Best(stream, late, j)
                    /\ cur.value = stream[j].value /\ cur.ts = stream[j].ts
                    /\ cur.conf = stream[j].conf
      /\ \A g : Effect(base, stream, A \cup {i}, k, g) <=>
             \/ /\ later = {}
                /\ k \in KeysOf(base) /\ g.value = CurrentFact(base, k).value /\ g.ts = AncestorTime
             \/ \E j \in later :
                    /\ Best(stream, later, j)
                    /\ g.value = stream[j].value /\ g.ts = stream[j].ts
                    /\ g.conf = stream[j].conf
  BY DEF Effect
<1> HIDE DEF late, later
<1>4. CASE late = {}
  <2>1. k \in KeysOf(base) /\ cur.value = CurrentFact(base, k).value /\ cur.ts = AncestorTime
    BY <1>0, <1>4
  <2>2. CASE f.ts > cur.ts
    <3>1. later = {i}
      BY <1>3, <1>4, <2>1, <2>2
    <3>2. Best(stream, later, i)
      BY <1>1, <1>2, <3>1 DEF Best
    <3> QED
      BY <1>0, <2>2, <3>1, <3>2
  <2>3. CASE ~(f.ts > cur.ts)
    <3>1. later = {}
      BY <1>3, <1>4, <2>1, <2>3
    <3> QED
      BY <1>0, <2>1, <2>3, <3>1
  <2> QED
    BY <2>2, <2>3
<1>5. CASE late # {}
  <2>1. PICK b \in late : /\ Best(stream, late, b)
                          /\ cur.value = stream[b].value /\ cur.ts = stream[b].ts
                          /\ cur.conf = stream[b].conf
    BY <1>0, <1>5
  <2>2. b \in A /\ b \in DOMAIN stream /\ b \in Nat /\ stream[b].ts \in Nat
    BY <1>1, <1>3
  <2>3. /\ stream[b].ts < f.ts \/ (stream[b].ts = f.ts /\ b <= i)
        /\ k \in KeysOf(base) => stream[b].ts > AncestorTime
    BY <1>3, <2>2 DEF Earlier
  <2>4. CASE f.ts > cur.ts
    <3>1. i \in later
      BY <1>2, <1>3, <2>1, <2>2, <2>3, <2>4
    <3>2. \A j \in late : stream[j].ts < f.ts
      <4> SUFFICES ASSUME NEW j \in late PROVE stream[j].ts < f.ts
        OBVIOUS
      <4>1. stream[j].ts \in Nat
        BY <1>1, <1>3
      <4>2. stream[j].ts <= stream[b].ts
        BY <2>1, <2>2, <4>1 DEF Best
      <4> QED
        BY <1>2, <2>1, <2>2, <2>4, <4>1, <4>2
    <3>3. Best(stream, later, i)
      BY <1>2, <1>3, <3>1, <3>2 DEF Best
    <3> QED
      BY <1>0, <2>4, <3>1, <3>3
  <2>5. CASE ~(f.ts > cur.ts)
    <3>1. f.ts = stream[b].ts /\ b <= i
      BY <1>2, <2>1, <2>2, <2>3, <2>5
    <3>2. Best(stream, later, b)
      BY <1>3, <2>1, <3>1 DEF Best
    <3> QED
      BY <1>0, <1>3, <2>1, <2>5, <3>2
  <2> QED
    BY <2>4, <2>5
<1> QED
  BY <1>4, <1>5

\* Updates are applied in order, a branch holds the keys of the root and of the
\* applied updates, and for each the value in effect.
InForce ==
    /\ pc = "fork" => \A s \in Sides : applied[s] = {}
    /\ pc \in {"check", "returned", "raised"} => \A s \in Sides : applied[s] = DOMAIN updates[s]
    /\ \A s \in Sides : \A i \in applied[s], j \in DOMAIN updates[s] \ applied[s] :
           Earlier(updates[s], i, j)
    /\ pc # "fork" => \A s \in Sides :
           /\ KeysOf(facts[s]) = KeysOf(root) \cup {updates[s][i].key : i \in applied[s]}
           /\ \A k \in KeysOf(facts[s]) :
                  Effect(root, updates[s], applied[s], k, CurrentFact(facts[s], k))

\* A step keeps the branches in the order of the streams.
LEMMA InForceStep ==
    ASSUME TypeOK, InForce, [Next]_vars
    PROVE  InForce'
<1>1. /\ UNCHANGED <<root, updates>> /\ root \in Seq(Fact)
      /\ \A n \in DOMAIN root : root[n].ts = AncestorTime
      /\ AncestorTime \in Nat
      /\ \A s \in Sides : facts[s] \in Seq(Fact) /\ updates[s] \in Seq(UpdateSpec)
      /\ \A s \in Sides : applied[s] \subseteq DOMAIN updates[s]
  BY RootOK, NextFacts, StreamsAssumption DEF TypeOK
<1>2. CASE Forks
  <2>1. ASSUME NEW s \in Sides
        PROVE  /\ applied[s] = {} /\ KeysOf(facts'[s]) = KeysOf(root)
               /\ \A k \in KeysOf(root) :
                      Effect(root, updates[s], applied[s], k, CurrentFact(facts'[s], k))
    <3>1. applied[s] = {} /\ facts'[s] = ForkedFacts(root, s)
      BY <1>2 DEF Forks, InForce
    <3>2. /\ DOMAIN facts'[s] = DOMAIN root
          /\ \A n \in DOMAIN root :
                 /\ facts'[s][n].key = root[n].key
                 /\ facts'[s][n].value = root[n].value
                 /\ facts'[s][n].ts = root[n].ts
      BY <1>1, <3>1, ForkedOK
    <3>3. /\ KeysOf(facts'[s]) = KeysOf(root)
          /\ \A k \in KeysOf(root) : \E n \in DOMAIN root :
                 CurrentFact(root, k) = root[n] /\ CurrentFact(facts'[s], k) = facts'[s][n]
      <4> DEFINE copies == facts'[s]
      <4>1. \A m, n \in DOMAIN root :
                /\ copies[m].ts < copies[n].ts <=> root[m].ts < root[n].ts
                /\ copies[m].ts = copies[n].ts <=> root[m].ts = root[n].ts
        BY <3>2
      <4>2. DOMAIN copies = DOMAIN root /\ \A n \in DOMAIN root : copies[n].key = root[n].key
        BY <3>2
      <4> HIDE DEF copies
      <4>3. /\ KeysOf(copies) = KeysOf(root)
            /\ \A k \in KeysOf(root) : \E n \in DOMAIN root :
                   CurrentFact(root, k) = root[n] /\ CurrentFact(copies, k) = copies[n]
        BY <1>1, <4>1, <4>2, SameLatest
      <4> QED
        BY <4>3 DEF copies
    <3>4. \A k : Late(root, updates[s], applied[s], k) = {}
      BY <3>1 DEF Late
    <3>5. \A k \in KeysOf(root) : /\ CurrentFact(facts'[s], k).value = CurrentFact(root, k).value
                                  /\ CurrentFact(facts'[s], k).ts = AncestorTime
      BY <1>1, <3>2, <3>3
    <3> QED
      BY <3>1, <3>3, <3>4, <3>5 DEF Effect
  <2>2. pc' = "apply" /\ applied' = applied
    BY <1>2 DEF Forks
  <2>3. \A s \in Sides : {updates[s][i].key : i \in applied[s]} = {}
    BY <2>1
  <2>4. \A s \in Sides :
            /\ KeysOf(facts'[s]) = KeysOf(root) \cup {updates[s][i].key : i \in applied[s]}
            /\ \A k \in KeysOf(facts'[s]) :
                   Effect(root, updates[s], applied[s], k, CurrentFact(facts'[s], k))
    BY <2>1, <2>3
  <2> QED
    BY <1>1, <2>1, <2>2, <2>4 DEF InForce
<1>3. ASSUME NEW s \in Sides, NEW i \in DOMAIN updates[s], NEW f \in Fact, Adds(s, i, f)
      PROVE  InForce'
  <2> DEFINE stream == updates[s]
             A == applied[s]
             branch == facts[s]
  <2>1. /\ pc = "apply" /\ pc' = "apply" /\ NextUpdate(s, i)
        /\ f.key = stream[i].key /\ f.value = stream[i].value
        /\ f.ts = stream[i].ts /\ f.conf = stream[i].conf
    BY <1>3 DEF Adds
  <2>2. \A t \in Sides : /\ applied'[t] = IF t = s THEN A \cup {i} ELSE applied[t]
                         /\ facts'[t] = IF t = s THEN Append(branch, f) ELSE facts[t]
    BY <1>3 DEF Adds, TypeOK
  <2>3. /\ \A j \in A : Earlier(stream, j, i)
        /\ \A j \in DOMAIN stream \ A : Earlier(stream, i, j)
        /\ i \in DOMAIN stream \ A
    BY <2>1 DEF NextUpdate, Earlier, InForce
  <2>4. /\ KeysOf(branch) = KeysOf(root) \cup {stream[j].key : j \in A}
        /\ \A k \in KeysOf(branch) : Effect(root, stream, A, k, CurrentFact(branch, k))
    BY <2>1 DEF InForce
  <2>5. KeysOf(Append(branch, f)) = KeysOf(root) \cup {stream[j].key : j \in A \cup {i}}
    BY <1>1, <2>1, <2>4, CurrentAppended
  <2>6. ASSUME NEW k \in KeysOf(Append(branch, f))
        PROVE  Effect(root, stream, A \cup {i}, k, CurrentFact(Append(branch, f), k))
    <3>1. CASE k # f.key
      <4>1. k \in KeysOf(branch) /\ CurrentFact(Append(branch, f), k) = CurrentFact(branch, k)
        BY <1>1, <3>1, CurrentAppended
      <4>2. Late(root, stream, A \cup {i}, k) = Late(root, stream, A, k)
        BY <2>1, <3>1 DEF Late
      <4> QED
        BY <2>4, <4>1, <4>2 DEF Effect
    <3>2. CASE k = f.key /\ k \in KeysOf(branch)
      <4>1. CurrentFact(Append(branch, f), k) =
                IF f.ts > CurrentFact(branch, k).ts THEN f ELSE CurrentFact(branch, k)
        BY <1>1, <3>2, CurrentAppended
      <4>2. Effect(root, stream, A, k, CurrentFact(branch, k))
        BY <2>4, <3>2
      <4>3. stream \in Seq(UpdateSpec) /\ A \in SUBSET (DOMAIN stream)
        BY <1>1
      <4> HIDE DEF stream, A, branch
      <4>4. Effect(root, stream, A \cup {i}, k,
                   IF f.ts > CurrentFact(branch, k).ts THEN f ELSE CurrentFact(branch, k))
        BY <2>1, <2>3, <3>2, <4>2, <4>3, EffectAdded
      <4> QED
        BY <4>1, <4>4
    <3>3. CASE k = f.key /\ k \notin KeysOf(branch)
      <4>1. CurrentFact(Append(branch, f), k) = f
        BY <1>1, <3>3, CurrentAppended
      <4>2. Late(root, stream, A \cup {i}, k) = {i}
        BY <2>1, <2>4, <3>3 DEF Late
      <4>3. i \in Nat /\ stream[i].ts \in Nat
        BY <1>1, StreamFields
      <4>4. Best(stream, {i}, i)
        BY <4>3 DEF Best
      <4> QED
        BY <2>1, <4>1, <4>2, <4>4 DEF Effect
    <3> QED
      BY <3>1, <3>2, <3>3
  <2>7. \A t \in Sides :
            /\ KeysOf(facts'[t]) = KeysOf(root) \cup {updates[t][j].key : j \in applied'[t]}
            /\ \A k \in KeysOf(facts'[t]) :
                   Effect(root, updates[t], applied'[t], k, CurrentFact(facts'[t], k))
    <3> SUFFICES ASSUME NEW t \in Sides
                 PROVE  /\ KeysOf(facts'[t]) = KeysOf(root) \cup {updates[t][j].key : j \in applied'[t]}
                        /\ \A k \in KeysOf(facts'[t]) :
                               Effect(root, updates[t], applied'[t], k, CurrentFact(facts'[t], k))
      OBVIOUS
    <3>1. CASE t = s
      BY <2>2, <2>5, <2>6, <3>1
    <3>2. CASE t # s
      BY <2>1, <2>2, <3>2 DEF InForce
    <3> QED
      BY <3>1, <3>2
  <2>8. \A t \in Sides : \A m \in applied'[t], j \in DOMAIN updates[t] \ applied'[t] :
            Earlier(updates[t], m, j)
    BY <2>2, <2>3 DEF InForce
  <2>9. UNCHANGED <<root, updates>> /\ pc' = "apply"
    BY <1>1, <2>1
  <2> HIDE DEF stream, A, branch
  <2> QED
    BY <2>7, <2>8, <2>9 DEF InForce
<1>4. CASE Keeps
  <2>1. facts' = facts /\ applied' = applied /\ (pc' = "fork" => pc = "fork") /\ (pc = "fork" => pc' = "fork")
    BY <1>4 DEF Keeps
  <2>2. pc' \in {"check", "returned", "raised"} => \A s \in Sides : applied[s] = DOMAIN updates[s]
    BY <1>4 DEF Keeps, InForce
  <2> QED
    BY <1>1, <2>1, <2>2 DEF InForce
<1> QED
  BY <1>2, <1>3, <1>4, NextFacts

LEMMA InForceInductive == Spec => []InForce
<1>1. Init => InForce
  BY DEF Init, InForce
<1>2. TypeOK /\ InForce /\ [Next]_vars => InForce'
  BY InForceStep
<1> QED
  BY <1>1, <1>2, TypeCorrect, PTL DEF Spec

\* A branch's current value is that of the update in effect, however streams
\* repeat times, go back in time or touch a key again.
THEOREM LatestIsInEffect == Spec => []LatestUpdateWins
<1>1. TypeOK /\ InForce => LatestUpdateWins
  <2> SUFFICES ASSUME TypeOK, InForce, pc \in {"check", "returned", "raised"},
                      NEW s \in Sides, NEW k \in KeysOf(root) \cup Touched(updates[s])
               PROVE  CurrentFact(facts[s], k).value =
                          IF InEffect(s, k) = 0 THEN CurrentFact(root, k).value
                          ELSE updates[s][InEffect(s, k)].value
    BY DEF LatestUpdateWins
  <2> DEFINE stream == updates[s]
             late == Late(root, stream, DOMAIN stream, k)
             best == {i \in late : Best(stream, late, i)}
  <2>1. applied[s] = DOMAIN stream /\ stream \in Seq(UpdateSpec)
    BY DEF InForce, TypeOK
  <2>2. k \in KeysOf(facts[s])
    BY <2>1 DEF InForce, Touched
  <2>3. Effect(root, stream, DOMAIN stream, k, CurrentFact(facts[s], k))
    BY <2>1, <2>2 DEF InForce
  <2>4. InEffect(s, k) = IF late = {} THEN 0 ELSE CHOOSE i \in best : TRUE
    <3>1. late = {i \in DOMAIN stream :
                      /\ stream[i].key = k
                      /\ k \in KeysOf(root) => stream[i].ts > AncestorTime}
      BY DEF Late
    <3>2. best = {i \in late : \A j \in late :
                      \/ stream[j].ts < stream[i].ts
                      \/ stream[j].ts = stream[i].ts /\ i <= j}
      BY DEF Best
    <3> HIDE DEF late, best
    <3> QED
      BY <3>1, <3>2 DEF InEffect
  <2>5. CASE late = {}
    <3>1. InEffect(s, k) = 0
      BY <2>4, <2>5
    <3>2. CurrentFact(facts[s], k).value = CurrentFact(root, k).value
      BY <2>3, <2>5 DEF Effect
    <3> QED
      BY <3>1, <3>2
  <2>6. CASE late # {}
    <3>1. PICK b \in late : Best(stream, late, b) /\ CurrentFact(facts[s], k).value = stream[b].value
      BY <2>3, <2>6 DEF Effect
    <3>2. \A i \in late : i \in Nat /\ i # 0 /\ stream[i].ts \in Nat
      <4>2. 0 \notin DOMAIN stream
        BY <2>1
      <4> QED
        BY <2>1, <4>2, StreamFields DEF Late
    <3>3. \A i \in best : i = b
      BY <3>1, <3>2 DEF Best
    <3>4. InEffect(s, k) = b
      <4>1. b \in best
        BY <3>1
      <4> HIDE DEF best, late
      <4> QED
        BY <2>4, <2>6, <3>3, <4>1
    <3> QED
      BY <3>1, <3>2, <3>4
  <2> QED
    BY <2>5, <2>6
<1> QED
  BY <1>1, TypeCorrect, InForceInductive, PTL

-----------------------------------------------------------------------------
(* The conflict pairs.                                                      *)

PairKeys == {pairs[n].key : n \in DOMAIN pairs}
SharedPairs == {Pair(k) : k \in SharedKeys}

\* The pairs made so far: one for each shared key that was checked, from its
\* current facts, after its two specs were found to be consistent.
PairsMade ==
    /\ pc \in {"fork", "apply"} => pairs = <<>>
    /\ pc \in {"check", "returned", "raised"} =>
           /\ pairs \in Seq(SharedPairs)
           /\ unchecked \subseteq SharedKeys
           /\ PairKeys = SharedKeys \ unchecked
           /\ \A m, n \in DOMAIN pairs : pairs[m].key = pairs[n].key => m = n
           /\ \A k \in PairKeys : ~Inconsistent(SpecFor(updates["a"], k), SpecFor(updates["b"], k))
    /\ pc = "returned" => unchecked = {}

\* Shared keys are keys of the memory.
LEMMA SharedKeysOK ==
    ASSUME TypeOK
    PROVE  SharedKeys \subseteq Keys /\ SharedKeys \subseteq Nat
<1>1. "a" \in Sides /\ updates["a"] \in Seq(UpdateSpec)
  BY DEF TypeOK, Sides
<1> QED
  BY <1>1, StreamFields, KeysAssumption DEF SharedKeys, Touched

\* A pair is the pair of its key.
LEMMA PairKey ==
    ASSUME NEW k
    PROVE  Pair(k).key = k
BY DEF Pair

\* A step makes at most the pair of the next shared key.
LEMMA PairsMadeStep ==
    ASSUME TypeOK, PairsMade, [Next]_vars
    PROVE  PairsMade'
<1>1. updates' = updates /\ SharedKeys' = SharedKeys
  BY NextFacts DEF SharedKeys
<1>2. CASE Fork
  BY <1>2 DEF Fork, PairsMade
<1>3. ASSUME NEW s \in Sides, NEW i \in DOMAIN updates[s], ApplyUpdate(s, i)
      PROVE  PairsMade'
  BY <1>3 DEF ApplyUpdate, PairsMade
<1>4. CASE AllApplied
  <2>1. pairs' = <<>> /\ pc' = "check" /\ unchecked' = SharedKeys
    BY <1>4 DEF AllApplied, PairsMade
  <2>2. DOMAIN pairs' = {} /\ PairKeys' = {}
    BY <2>1 DEF PairKeys
  <2> QED
    BY <1>1, <2>1, <2>2 DEF PairsMade
<1>5. CASE AddPair
  <2> DEFINE k == CheckedKey
  <2>1. /\ pc = "check" /\ unchecked # {} /\ UNCHANGED <<updates, facts, pc>>
        /\ ~Inconsistent(SpecFor(updates["a"], k), SpecFor(updates["b"], k))
        /\ pairs' = Append(pairs, Pair(k)) /\ unchecked' = unchecked \ {k}
    BY <1>5 DEF AddPair
  <2>2. /\ pairs \in Seq(SharedPairs) /\ unchecked \subseteq SharedKeys
        /\ PairKeys = SharedKeys \ unchecked
        /\ \A m, n \in DOMAIN pairs : pairs[m].key = pairs[n].key => m = n
        /\ \A q \in PairKeys : ~Inconsistent(SpecFor(updates["a"], q), SpecFor(updates["b"], q))
    BY <2>1 DEF PairsMade
  <2>3. k \in unchecked /\ k \in SharedKeys
    BY <2>1, <2>2, SharedKeysOK, LeastIn DEF CheckedKey
  <2>4. SharedPairs' = SharedPairs
    BY <1>1, <2>1 DEF Pair, SharedPairs
  <2> HIDE DEF k
  <2>5. Pair(k) \in SharedPairs /\ Pair(k).key = k
    BY <2>3, PairKey DEF SharedPairs
  <2>6. /\ pairs' \in Seq(SharedPairs) /\ DOMAIN pairs' = DOMAIN pairs \cup {Len(pairs) + 1}
        /\ pairs'[Len(pairs) + 1] = Pair(k) /\ Len(pairs) + 1 \notin DOMAIN pairs
        /\ \A n \in DOMAIN pairs : pairs'[n] = pairs[n]
    BY <2>1, <2>2, <2>5
  <2>7. PairKeys' = PairKeys \cup {k}
    BY <2>5, <2>6 DEF PairKeys
  <2>8. \A m, n \in DOMAIN pairs' : pairs'[m].key = pairs'[n].key => m = n
    <3>1. \A n \in DOMAIN pairs : pairs[n].key \in PairKeys
      BY DEF PairKeys
    <3>2. k \notin PairKeys
      BY <2>2, <2>3
    <3> QED
      BY <2>2, <2>5, <2>6, <3>1, <3>2
  <2>9. PairKeys' = SharedKeys \ unchecked'
    BY <2>1, <2>2, <2>3, <2>7
  <2>10. \A q \in PairKeys' : ~Inconsistent(SpecFor(updates["a"], q), SpecFor(updates["b"], q))
    BY <2>1, <2>2, <2>7
  <2>11. pairs' \in Seq(SharedPairs)'
    BY <2>4, <2>6
  <2>12. unchecked' \subseteq SharedKeys
    BY <2>1, <2>2
  <2> QED
    BY <1>1, <2>1, <2>8, <2>9, <2>10, <2>11, <2>12 DEF PairsMade
<1>6. CASE \/ RaiseDivergenceError \/ Return \/ UNCHANGED vars
  <2>1. /\ UNCHANGED <<updates, facts, unchecked, pairs>>
        /\ pc' = pc \/ (pc = "check" /\ pc' \in {"returned", "raised"})
        /\ pc' = "returned" => unchecked = {}
    BY <1>6 DEF RaiseDivergenceError, Return, vars, PairsMade
  <2>2. SharedPairs' = SharedPairs
    BY <1>1, <2>1 DEF Pair, SharedPairs
  <2>3. PairKeys' = PairKeys
    BY <2>1 DEF PairKeys
  <2> QED
    BY <1>1, <2>1, <2>2, <2>3 DEF PairsMade
<1> QED
  BY <1>2, <1>3, <1>4, <1>5, <1>6 DEF Next

LEMMA PairsMadeInductive == Spec => []PairsMade
<1>1. Init => PairsMade
  BY DEF Init, PairsMade
<1>2. TypeOK /\ PairsMade /\ [Next]_vars => PairsMade'
  BY PairsMadeStep
<1> QED
  BY <1>1, <1>2, TypeCorrect, PTL DEF Spec

\* Every collision a merge will see is a pair's, with the facts the pair names,
\* or one side's change to a key of the ancestor.
THEOREM CollisionsAreExplained == Spec => []CollisionsExplained
<1>1. TypeOK /\ InForce /\ PairsMade => CollisionsExplained
  <2> SUFFICES ASSUME TypeOK, InForce, PairsMade, pc = "returned",
                      NEW k \in Collisions(facts["a"], facts["b"])
               PROVE  IF k \in SharedKeys
                      THEN /\ Cardinality({n \in DOMAIN pairs : pairs[n].key = k}) = 1
                           /\ \A n \in DOMAIN pairs : pairs[n].key = k =>
                                  /\ pairs[n].a = CurrentFact(facts["a"], k).id
                                  /\ pairs[n].b = CurrentFact(facts["b"], k).id
                      ELSE /\ k \in KeysOf(root)
                           /\ \E s \in Sides : k \notin Touched(updates[s])
    BY DEF CollisionsExplained
  <2>1. CASE k \in SharedKeys
    <3>1. /\ pairs \in Seq(SharedPairs) /\ k \in PairKeys
          /\ \A m, n \in DOMAIN pairs : pairs[m].key = pairs[n].key => m = n
      BY <2>1 DEF PairsMade
    <3>2. PICK n \in DOMAIN pairs : pairs[n].key = k
      BY <3>1 DEF PairKeys
    <3>3. {m \in DOMAIN pairs : pairs[m].key = k} = {n}
      BY <3>1, <3>2
    <3>4. Cardinality({n}) = 1
      BY FS_Singleton
    <3>5. ASSUME NEW m \in DOMAIN pairs, pairs[m].key = k
          PROVE  /\ pairs[m].a = CurrentFact(facts["a"], k).id
                 /\ pairs[m].b = CurrentFact(facts["b"], k).id
      <4>1. pairs[m] \in SharedPairs
        BY <3>1
      <4>2. pairs[m] = Pair(k)
        BY <3>5, <4>1, PairKey DEF SharedPairs
      <4> QED
        BY <4>2 DEF Pair
    <3> QED
      BY <2>1, <3>3, <3>4, <3>5
  <2>2. CASE k \notin SharedKeys
    <3>1. PICK s \in Sides : k \notin Touched(updates[s])
      BY <2>2 DEF SharedKeys, Sides
    <3>2. k \in KeysOf(facts[s])
      BY DEF Collisions, CurrentFacts, Sides
    <3>3. KeysOf(facts[s]) = KeysOf(root) \cup Touched(updates[s])
      BY DEF InForce, Touched
    <3> QED
      BY <2>2, <3>1, <3>2, <3>3
  <2> QED
    BY <2>1, <2>2
<1> QED
  BY <1>1, TypeCorrect, InForceInductive, PairsMadeInductive, PTL
=============================================================================
