----------------------------- MODULE MergeBase -----------------------------
(***************************************************************************)
(* What all merge strategies share: the entries of a MergeResult and the   *)
(* rule for the keys on which the branches do not disagree.                *)
(***************************************************************************)
EXTENDS Memory

Resolutions == {"kept", "dropped", "merged", "flagged_unresolved"}
ASSUME ResolutionsAssumption == None \notin Resolutions

\* A fact of a MergeResult; its free-text justification is left out.
ResolvedFact == [fact : Fact, resolution : Resolutions, sources : SUBSET Sides]

Entry(fact, resolution, sources) ==
    [fact |-> fact, resolution |-> resolution, sources |-> sources]

\* What a merge is given: the facts of the ancestor and of both branches.
ScenarioOK(sc) ==
    /\ sc = [root |-> sc.root, a |-> sc.a, b |-> sc.b]
    /\ sc.root \in Seq(Fact) /\ sc.a \in Seq(Fact) /\ sc.b \in Seq(Fact)
    /\ \A i \in DOMAIN sc.a : sc.a[i].branch = "a"
    /\ \A i \in DOMAIN sc.b : sc.b[i].branch = "b"

AllKeys(sc) == KeysOf(sc.a) \cup KeysOf(sc.b)
CollisionsOf(sc) == Collisions(sc.a, sc.b)

\* A key both branches agree on, or that one branch alone holds, is settled
\* without a decision: the fact of A if A has one, else the fact of B.
SettledEntry(sc, k) ==
    LET fact == IF k \in KeysOf(sc.a) THEN CurrentFact(sc.a, k) ELSE CurrentFact(sc.b, k)
    IN Entry(fact, "kept",
             IF k \in KeysOf(sc.a) \cap KeysOf(sc.b) THEN Sides ELSE {fact.branch})

\* Positions of the entries of result for k, dropped ones aside.
Survivors(result, k) ==
    {n \in DOMAIN result : result[n].fact.key = k /\ result[n].resolution # "dropped"}
=============================================================================
