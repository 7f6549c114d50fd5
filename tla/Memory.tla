------------------------------ MODULE Memory ------------------------------
(***************************************************************************)
(* The data BranchMem's components share: facts, the append-only list of   *)
(* facts that makes a branch, how a fork copies it and an update extends   *)
(* it, and the two questions every merge strategy asks of branches: which  *)
(* fact is current for a key, and on which keys two branches disagree.     *)
(*                                                                         *)
(* A fact's (entity, predicate) key is a number, so that Python's sorted() *)
(* on keys is the order of numbers.  Free text (value) is a member of      *)
(* Values; provenance and source are left out: no code of the repository   *)
(* branches on them.  The uuid of a fact is the branch it was made on and  *)
(* its position there, which is as unique and keeps the state space small. *)
(***************************************************************************)
EXTENDS Naturals, Sequences

CONSTANTS
    Keys,      \* (entity, predicate) pairs, numbered in their sorted order
    Values,    \* values a fact may carry
    None       \* Python's None

Sides == {"a", "b"}
Branches == Sides \cup {"root"}
Ids == Branches \X Nat

ASSUME KeysAssumption == Keys \subseteq Nat
ASSUME NoneAssumption ==
    None \notin Keys /\ None \notin Values /\ None \notin Ids /\ None \notin Branches

\* MemoryFact: anc is common_ancestor_id, the fact this one descends from.
Fact == [id : Ids, key : Keys, value : Values, branch : Branches,
         ts : Nat, conf : Nat, anc : Ids \cup {None}]

\* The default confidence of facts and updates, 1.0, in hundredths.
Certain == 100

KeysOf(facts) == {facts[i].key : i \in DOMAIN facts}

\* Mutant of IsLatest: of facts with one timestamp the last counts.
IsLatestOnTie(facts, k, I, i) ==
    /\ i \in I
    /\ facts[i].key = k
    /\ \A j \in I : facts[j].key = k =>
           \/ facts[j].ts < facts[i].ts
           \/ facts[j].ts = facts[i].ts /\ j <= i

\* Position i holds the latest fact for k among the positions in I; of
\* several facts with one timestamp it is the first that counts.
IsLatest(facts, k, I, i) ==
    /\ i \in I
    /\ facts[i].key = k
    /\ \A j \in I : facts[j].key = k =>
           \/ facts[j].ts < facts[i].ts
           \/ facts[j].ts = facts[i].ts /\ i <= j

\* _current_fact: max() over the matches, the first of those that tie.
CurrentFact(facts, k) ==
    facts[CHOOSE i \in DOMAIN facts : IsLatest(facts, k, DOMAIN facts, i)]

\* current_facts_by_key: one fact per key that occurs on the branch.
CurrentFacts(facts) == [k \in KeysOf(facts) |-> CurrentFact(facts, k)]

\* find_collisions: the keys both branches hold with different values.
Collisions(factsA, factsB) ==
    LET curA == CurrentFacts(factsA)
        curB == CurrentFacts(factsB)
    IN {k \in DOMAIN curA \cap DOMAIN curB : curA[k].value # curB[k].value}

\* create_common_ancestor, from (key, value) pairs and one timestamp.
AncestorFacts(pairs, ts) ==
    [i \in DOMAIN pairs |->
        [id |-> <<"root", i>>, key |-> pairs[i].key, value |-> pairs[i].value,
         branch |-> "root", ts |-> ts, conf |-> Certain, anc |-> None]]

\* fork: the copy of every ancestor fact that starts the given side.
ForkedFacts(root, side) ==
    [i \in DOMAIN root |->
        [root[i] EXCEPT !.id = <<side, i>>, !.branch = side, !.anc = root[i].id]]

\* Mutant of Updated: the new fact names the first fact of its key.
UpdatedFromFirst(facts, side, u) ==
    LET old == {i \in DOMAIN facts : facts[i].key = u.key} IN
    Append(facts,
        [id |-> <<side, Len(facts) + 1>>, key |-> u.key, value |-> u.value,
         branch |-> side, ts |-> u.ts, conf |-> u.conf,
         anc |-> IF old = {} THEN None
                 ELSE facts[CHOOSE i \in old : \A j \in old : i <= j].id])

\* One iteration of apply_updates: the new fact names the fact it supersedes.
Updated(facts, side, u) ==
    Append(facts,
        [id |-> <<side, Len(facts) + 1>>, key |-> u.key, value |-> u.value,
         branch |-> side, ts |-> u.ts, conf |-> u.conf,
         anc |-> IF u.key \in KeysOf(facts) THEN CurrentFact(facts, u.key).id ELSE None])

Least(K) == CHOOSE k \in K : \A j \in K : k <= j
=============================================================================
