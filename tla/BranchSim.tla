----------------------------- MODULE BranchSim -----------------------------
(***************************************************************************)
(* BranchSimulator.diverge: fork a common ancestor, apply each side's      *)
(* stream of updates in the order of their timestamps, then derive the     *)
(* ground-truth ConflictPair of every key both streams touch, or reject    *)
(* the streams with DivergenceError.                                       *)
(*                                                                         *)
(* Both branches start as separate copies, and the ground truth is taken   *)
(* from the streams as they were listed while the facts follow timestamps: *)
(* the properties relate the two.                                          *)
(***************************************************************************)
EXTENDS Memory, FiniteSets

CONSTANTS
    Ancestors,   \* lists of (key, value) pairs a scenario may start from
    Streams,     \* lists of updates a side may be given
    AncestorTime \* timestamp of the common ancestor's facts

DivergenceTypes == {"orthogonal", "resolvable_conflict", "ambiguous_conflict"}

\* UpdateSpec; gt is ground_truth_value.
UpdateSpec == [key : Keys, value : Values, ts : Nat, conf : Nat,
               type : DivergenceTypes, gt : Values \cup {None}]

ASSUME StreamsAssumption ==
    /\ Ancestors \subseteq Seq([key : Keys, value : Values])
    /\ Streams \subseteq Seq(UpdateSpec)
    /\ AncestorTime \in Nat
    /\ None \notin {"resolvable", "ambiguous"}

VARIABLES
    root,       \* facts of the common ancestor
    updates,    \* the update stream of each side
    applied,    \* positions of each stream already applied
    facts,      \* facts of each side's branch, <<>> before the fork
    pc,         \* "fork", "apply", "check", "returned" or "raised"
    unchecked,  \* shared keys whose ground truth is not derived yet
    pairs       \* the conflict pairs derived so far, in order

vars == <<root, updates, applied, facts, pc, unchecked, pairs>>

-----------------------------------------------------------------------------
(* by_key_a, by_key_b: a dict comprehension keeps the last spec listed.     *)

Touched(stream) == {stream[i].key : i \in DOMAIN stream}

SpecFor(stream, k) ==
    stream[CHOOSE i \in DOMAIN stream :
               stream[i].key = k /\ \A j \in DOMAIN stream : stream[j].key = k => j <= i]

SharedKeys == Touched(updates["a"]) \cap Touched(updates["b"])

\* The tests that raise DivergenceError for one shared key.
Inconsistent(specA, specB) ==
    \/ specA.type # specB.type
    \/ /\ specA.type = "resolvable_conflict"
       /\ specA.gt # specB.gt \/ specA.gt = None
    \/ /\ specA.type = "ambiguous_conflict"
       /\ specA.gt # None \/ specB.gt # None

ConflictType(type) ==
    CASE type = "resolvable_conflict" -> "resolvable"
      [] type = "ambiguous_conflict" -> "ambiguous"
      [] OTHER -> None

\* Mutant of Pair: both ids are looked up on branch A.
PairFromA(k) ==
    LET specA == SpecFor(updates["a"], k) IN
    [key |-> k,
     a |-> CurrentFact(facts["a"], k).id,
     b |-> CurrentFact(facts["a"], k).id,
     is_conflict |-> specA.type # "orthogonal",
     type |-> ConflictType(specA.type),
     gt |-> specA.gt]

Pair(k) ==
    LET specA == SpecFor(updates["a"], k) IN
    [key |-> k,
     a |-> CurrentFact(facts["a"], k).id,
     b |-> CurrentFact(facts["b"], k).id,
     is_conflict |-> specA.type # "orthogonal",
     type |-> ConflictType(specA.type),
     gt |-> specA.gt]

-----------------------------------------------------------------------------

Init ==
    /\ root \in {AncestorFacts(p, AncestorTime) : p \in Ancestors}
    /\ updates \in [Sides -> Streams]
    /\ applied = [s \in Sides |-> {}]
    /\ facts = [s \in Sides |-> <<>>]
    /\ pc = "fork"
    /\ unchecked = {}
    /\ pairs = <<>>

Fork ==
    /\ pc = "fork"
    /\ facts' = [s \in Sides |-> ForkedFacts(root, s)]
    /\ pc' = "apply"
    /\ UNCHANGED <<root, updates, applied, unchecked, pairs>>

\* sorted() is stable: earliest timestamp first, then the order listed.
NextUpdate(s, i) ==
    LET left == DOMAIN updates[s] \ applied[s] IN
    /\ i \in left
    /\ \A j \in left :
           \/ updates[s][i].ts < updates[s][j].ts
           \/ updates[s][i].ts = updates[s][j].ts /\ i <= j

ApplyUpdate(s, i) ==
    /\ pc = "apply"
    /\ s = "b" => applied["a"] = DOMAIN updates["a"]
    /\ NextUpdate(s, i)
    /\ facts' = [facts EXCEPT ![s] = Updated(@, s, updates[s][i])]
    /\ applied' = [applied EXCEPT ![s] = @ \cup {i}]
    /\ UNCHANGED <<root, updates, pc, unchecked, pairs>>

AllApplied ==
    /\ pc = "apply"
    /\ \A s \in Sides : applied[s] = DOMAIN updates[s]
    /\ unchecked' = SharedKeys
    /\ pc' = "check"
    /\ UNCHANGED <<root, updates, applied, facts, pairs>>

CheckedKey == Least(unchecked)

AddPair ==
    /\ pc = "check"
    /\ unchecked # {}
    /\ ~Inconsistent(SpecFor(updates["a"], CheckedKey), SpecFor(updates["b"], CheckedKey))
    /\ pairs' = Append(pairs, Pair(CheckedKey))
    /\ unchecked' = unchecked \ {CheckedKey}
    /\ UNCHANGED <<root, updates, applied, facts, pc>>

RaiseDivergenceError ==
    /\ pc = "check"
    /\ unchecked # {}
    /\ Inconsistent(SpecFor(updates["a"], CheckedKey), SpecFor(updates["b"], CheckedKey))
    /\ pc' = "raised"
    /\ UNCHANGED <<root, updates, applied, facts, unchecked, pairs>>

Return ==
    /\ pc = "check"
    /\ unchecked = {}
    /\ pc' = "returned"
    /\ UNCHANGED <<root, updates, applied, facts, unchecked, pairs>>

Next ==
    \/ Fork
    \/ \E s \in Sides : \E i \in DOMAIN updates[s] : ApplyUpdate(s, i)
    \/ AllApplied \/ AddPair \/ RaiseDivergenceError \/ Return

Spec == Init /\ [][Next]_vars

-----------------------------------------------------------------------------

\* Provenance: common_ancestor_id always names the fact that was current for
\* the key when this one was made: the copied fact of the root for the part a
\* fork copied, an earlier fact of the same branch for an update, and nothing
\* exactly when the update is the first fact of its key.
LineageSound ==
    pc # "fork" => \A s \in Sides : \A n \in DOMAIN facts[s] :
        LET f == facts[s][n]
            earlier == {m \in 1..(n - 1) : facts[s][m].key = f.key}
        IN  /\ f.id = <<s, n>> /\ f.branch = s
            /\ n \in DOMAIN root =>
                   /\ f.anc = root[n].id
                   /\ <<f.key, f.value, f.ts>> = <<root[n].key, root[n].value, root[n].ts>>
            /\ n \notin DOMAIN root =>
                   IF earlier = {} THEN f.anc = None
                   ELSE \E m \in earlier :
                            /\ f.anc = facts[s][m].id
                            /\ IsLatest(facts[s], f.key, earlier, m)

\* The update of side s whose value is in effect for k, said of the stream
\* alone: the latest one later than the ancestor's fact, the first listed of
\* those that tie; 0 if the ancestor's value stands.
InEffect(s, k) ==
    LET stream == updates[s]
        late == {i \in DOMAIN stream : /\ stream[i].key = k
                                       /\ k \in KeysOf(root) => stream[i].ts > AncestorTime}
        best == {i \in late : \A j \in late : \/ stream[j].ts < stream[i].ts
                                              \/ stream[j].ts = stream[i].ts /\ i <= j}
    IN IF late = {} THEN 0 ELSE CHOOSE i \in best : TRUE

\* Sorting, appending and taking the latest fact amount to this: a branch's
\* current value is that of the update in effect, whatever the other side does,
\* and a backdated update never displaces the ancestor's value.
LatestUpdateWins ==
    pc \in {"check", "returned", "raised"} => \A s \in Sides :
        \A k \in KeysOf(root) \cup Touched(updates[s]) :
            CurrentFact(facts[s], k).value =
                IF InEffect(s, k) = 0 THEN CurrentFact(root, k).value
                ELSE updates[s][InEffect(s, k)].value

\* Every disagreement a merge will see is accounted for: a key both streams
\* touched has exactly one pair and it names the two facts in collision, and a
\* collision without a pair is a key of the ancestor that one side alone changed.
CollisionsExplained ==
    pc = "returned" => \A k \in Collisions(facts["a"], facts["b"]) :
        IF k \in SharedKeys
        THEN /\ Cardinality({n \in DOMAIN pairs : pairs[n].key = k}) = 1
             /\ \A n \in DOMAIN pairs : pairs[n].key = k =>
                    /\ pairs[n].a = CurrentFact(facts["a"], k).id
                    /\ pairs[n].b = CurrentFact(facts["b"], k).id
        ELSE /\ k \in KeysOf(root)
             /\ \E s \in Sides : k \notin Touched(updates[s])
=============================================================================
