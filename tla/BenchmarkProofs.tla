-------------------------- MODULE BenchmarkProofs --------------------------
(* The rule-based merges, alone and inside the benchmark, for branches and  *)
(* streams of any length: who survives a merge, what is lost, and that the  *)
(* published scores measure what they are said to measure.                  *)
EXTENDS Benchmark, BranchSimProofs

-----------------------------------------------------------------------------
(* What one iteration of a merge's loop does.                               *)

Kept == KeptSide(strategy, scenario)
Discarded == DiscardedSide(strategy, scenario)

\* The loops each strategy goes through.
Stages ==
    CASE strategy = "last_writer_wins" -> {"each key"}
      [] strategy = "naive_concat" -> {"all of a", "all of b"}
      [] strategy = "confidence_rule" -> {"settled", "conflicts"}
      [] OTHER -> IF Collide = {} THEN {"union"} ELSE {"kept branch", "discarded branch"}

MergeTyped ==
    /\ strategy \in Strategies
    /\ ScenarioOK(scenario)
    /\ stage \in Stages \cup {"returned"}
    /\ todo \subseteq StageKeys(strategy, scenario, stage)
    /\ resolved \in Seq(ResolvedFact)

\* One entry, the current fact of a side for a key it holds.
Says(side, k, resolution, entries) ==
    /\ k \in KeysOf(Facts(side))
    /\ \E sources \in SUBSET Sides : entries = <<Entry(Cur(side, k), resolution, sources)>>

\* The entries a loop may add for a key.
Emission(k, entries) ==
    \/ /\ stage \in {"each key", "union", "settled"} /\ k \notin Collide
       /\ \E side \in Sides : Says(side, k, "kept", entries)
    \/ /\ stage = "each key" /\ k \in Collide
       /\ \E winner \in Sides, loser \in Sides :
              /\ winner # loser
              /\ entries = <<Entry(Cur(winner, k), "kept", {winner}),
                             Entry(Cur(loser, k), "dropped", {loser})>>
    \/ stage = "all of a" /\ Says("a", k, "kept", entries)
    \/ stage = "all of b" /\ Says("b", k, "kept", entries)
    \/ stage = "kept branch" /\ Says(Kept, k, "kept", entries)
    \/ /\ stage = "discarded branch" /\ InBoth(k) /\ k \notin Collide
       /\ entries = <<>>
    \/ /\ stage = "discarded branch" /\ ~(InBoth(k) /\ k \notin Collide)
       /\ Says(Discarded, k, "dropped", entries)
    \/ /\ stage = "conflicts" /\ k \in Collide /\ Cur("a", k).conf # Cur("b", k).conf
       /\ \E side \in Sides : Says(side, k, "kept", entries)
    \/ /\ stage = "conflicts" /\ k \in Collide /\ Cur("a", k).conf = Cur("b", k).conf
       /\ Says("a", k, "flagged_unresolved", entries)

\* An iteration: a key less, and its entries more.
Iterates(k, entries) ==
    /\ Emission(k, entries)
    /\ resolved' = resolved \o entries
    /\ todo' = todo \ {k}
    /\ UNCHANGED <<strategy, scenario, stage>>

\* What is given to a merge, by side.
LEMMA SideOK ==
    ASSUME ScenarioOK(scenario), NEW side \in Sides
    PROVE  /\ Facts(side) \in Seq(Fact)
           /\ KeysOf(Facts(side)) \subseteq AllKeys(scenario)
           /\ \A k \in KeysOf(Facts(side)) :
                  Cur(side, k) \in Fact /\ Cur(side, k).key = k /\ Cur(side, k).branch = side
<1>1. /\ Facts(side) \in Seq(Fact)
      /\ \A i \in DOMAIN Facts(side) : Facts(side)[i].branch = side
  BY DEF ScenarioOK, Facts, Sides
<1>2. KeysOf(Facts(side)) \subseteq AllKeys(scenario)
  BY DEF Facts, AllKeys
<1>3. ASSUME NEW k \in KeysOf(Facts(side))
      PROVE  Cur(side, k) \in Fact /\ Cur(side, k).key = k /\ Cur(side, k).branch = side
  BY <1>1, CurrentFactKey, CurrentFactListed DEF Cur
<1> QED
  BY <1>1, <1>2, <1>3

\* A key of either branch is a key of one of the sides, and one in collision is
\* a key of both, with different values; elsewhere they agree.
LEMMA KeySides ==
    ASSUME ScenarioOK(scenario), NEW k \in AllKeys(scenario)
    PROVE  /\ \E side \in Sides : k \in KeysOf(Facts(side))
           /\ InBoth(k) <=> \A side \in Sides : k \in KeysOf(Facts(side))
           /\ k \in Collide <=> InBoth(k) /\ Cur("a", k).value # Cur("b", k).value
BY DEF AllKeys, Facts, Sides, InBoth, Collide, CollisionsOf, Collisions, CurrentFacts, Cur

\* The side thrown away is the one that is not kept.
LEMMA OtherSide ==
    /\ Kept \in Sides /\ Discarded \in Sides /\ Kept # Discarded
    /\ \A side \in Sides : side = Kept \/ side = Discarded
BY DEF Kept, Discarded, KeptSide, DiscardedSide, Sides

\* The key of an iteration is one the loop has left.
LEMMA KeyLeft ==
    ASSUME MergeTyped, todo # {}
    PROVE  Key \in todo
<1> DEFINE side == LoopSide(strategy, scenario, stage)
<1>1. todo \subseteq AllKeys(scenario) /\ todo \subseteq Nat
  <2>1. /\ KeysOf(scenario.a) \subseteq AllKeys(scenario)
        /\ KeysOf(scenario.b) \subseteq AllKeys(scenario)
        /\ CollisionsOf(scenario) \subseteq AllKeys(scenario)
        /\ AllKeys(scenario) \subseteq Nat
    BY CollisionKeys DEF MergeTyped, AllKeys
  <2>2. StageKeys(strategy, scenario, stage) \subseteq AllKeys(scenario)
    BY <2>1 DEF StageKeys
  <2> QED
    BY <2>1, <2>2 DEF MergeTyped
<1>2. CASE side = None
  BY <1>1, <1>2, LeastIn DEF Key
<1>3. CASE side # None
  <2> DEFINE T == {i \in DOMAIN Facts(side) : Facts(side)[i].key \in todo}
  <2>1. side \in Sides /\ todo \subseteq KeysOf(Facts(side))
    <3>1. stage \in {"all of a", "all of b", "kept branch", "discarded branch"}
      BY <1>3 DEF LoopSide
    <3>2. side \in Sides
      BY <3>1, OtherSide DEF LoopSide, Sides, Kept, Discarded
    <3>3. StageKeys(strategy, scenario, stage) = KeysOf(Facts(side))
      BY <3>1, <3>2 DEF StageKeys, Facts, Sides
    <3> QED
      BY <3>2, <3>3 DEF MergeTyped
  <2>2. Facts(side) \in Seq(Fact)
    BY <2>1, SideOK DEF MergeTyped
  <2>3. T # {} /\ T \in SUBSET Nat /\ DOMAIN Facts(side) = 1..Len(Facts(side)) /\ Len(Facts(side)) \in Nat
    BY <2>1, <2>2 DEF KeysOf
  <2>4. PICK i \in T : \A j \in T : i <= j
    <3> HIDE DEF T
    <3> QED
      BY <2>3, LeastNumber
  <2>5. i \in DOMAIN Facts(side) /\ Facts(side)[i].key \in todo
        /\ \A j \in 1..(i - 1) : Facts(side)[j].key \notin todo
    <3>1. \A j \in 1..(i - 1) : j \in DOMAIN Facts(side) /\ ~(i <= j)
      BY <2>3, <2>4
    <3> QED
      BY <2>4, <3>1
  <2>6. FirstListed(Facts(side), todo) \in todo
    BY <2>5 DEF FirstListed
  <2> QED
    BY <1>3, <2>6 DEF Key
<1> QED
  BY <1>2, <1>3

\* A step of a merge is an iteration or the end of a loop.
LEMMA MergeSteps ==
    ASSUME MergeTyped, MergeNext
    PROVE  /\ UNCHANGED <<strategy, scenario>>
           /\ EndLoop \/ \E k \in todo : \E entries : Iterates(k, entries)
<1>0. ASSUME todo # {} PROVE Key \in todo /\ Key \in StageKeys(strategy, scenario, stage)
  BY <1>0, KeyLeft DEF MergeTyped
<1>1. \A k : k \in Collide => InBoth(k)
  BY CollisionKeys DEF MergeTyped, Collide, InBoth
<1>2. ASSUME stage \in {"each key", "union", "settled"}, todo # {}
      PROVE  Key \in AllKeys(scenario)
  BY <1>0, <1>2 DEF StageKeys
<1>3. CASE LWWAgree
  <2>1. Says("a", Key, "kept", <<Entry(Cur("a", Key), "kept", Sides)>>)
    BY <1>3 DEF LWWAgree, Says, InBoth, Facts
  <2>2. Emission(Key, <<Entry(Cur("a", Key), "kept", Sides)>>)
    BY <1>3, <2>1 DEF LWWAgree, Emission, InStage, Sides
  <2> QED
    BY <1>0, <1>3, <2>2 DEF LWWAgree, InStage, Emit, Iterates
<1>4. CASE LWWConflict
  <2> DEFINE winner == IF Cur("a", Key).ts >= Cur("b", Key).ts THEN "a" ELSE "b"
             loser == IF winner = "a" THEN "b" ELSE "a"
             entries == <<Entry(Cur(winner, Key), "kept", {winner}),
                          Entry(Cur(loser, Key), "dropped", {loser})>>
  <2>1. winner \in Sides /\ loser \in Sides /\ winner # loser
    BY DEF Sides
  <2>2. InStage("each key") /\ Key \in Collide /\ Emit(entries)
    BY <1>4 DEF LWWConflict
  <2> HIDE DEF winner, loser
  <2>3. Emission(Key, entries)
    BY <2>1, <2>2 DEF Emission, InStage
  <2> QED
    BY <1>0, <2>2, <2>3 DEF InStage, Emit, Iterates
<1>5. CASE LWWOneSided \/ DiscardNothing
  <2> DEFINE side == IF Key \in KeysOf(scenario.a) THEN "a" ELSE "b"
             entries == <<Entry(Cur(side, Key), "kept", {side})>>
  <2>1. /\ stage \in {"each key", "union"} /\ todo # {} /\ Emit(entries)
        /\ stage = "each key" => ~InBoth(Key)
    BY <1>5 DEF LWWOneSided, DiscardNothing, InStage
  <2>2. side \in Sides /\ Key \in KeysOf(Facts(side))
    BY <1>2, <2>1 DEF Sides, Facts, AllKeys
  <2>3. Key \notin Collide
    BY <1>1, <2>1 DEF MergeTyped, Stages
  <2> HIDE DEF side
  <2>4. Says(side, Key, "kept", entries)
    BY <2>2 DEF Says
  <2>5. Emission(Key, entries)
    BY <2>1, <2>2, <2>3, <2>4 DEF Emission
  <2> QED
    BY <1>0, <2>1, <2>5 DEF Emit, Iterates
<1>6. CASE ConcatFact
  <2>1. PICK side \in Sides : /\ InStage(IF side = "a" THEN "all of a" ELSE "all of b")
                              /\ Emit(<<Entry(Cur(side, Key), "kept", {side})>>)
    BY <1>6 DEF ConcatFact
  <2>2. Key \in KeysOf(Facts(side))
    BY <1>0, <2>1 DEF InStage, StageKeys, LoopSide, Facts, Sides
  <2>3. Emission(Key, <<Entry(Cur(side, Key), "kept", {side})>>)
    BY <2>1, <2>2 DEF Emission, Says, InStage, Sides
  <2> QED
    BY <1>0, <2>1, <2>3 DEF InStage, Emit, Iterates
<1>7. CASE DiscardKeep
  <2>1. InStage("kept branch") /\ Emit(<<Entry(Cur(Kept, Key), "kept", {Kept})>>)
    BY <1>7 DEF DiscardKeep, Kept
  <2>2. Key \in KeysOf(Facts(Kept))
    BY <1>0, <2>1, OtherSide DEF InStage, StageKeys, LoopSide, Facts, Sides, Kept
  <2>3. Emission(Key, <<Entry(Cur(Kept, Key), "kept", {Kept})>>)
    BY <2>1, <2>2, OtherSide DEF Emission, Says, InStage
  <2> QED
    BY <1>0, <2>1, <2>3 DEF InStage, Emit, Iterates
<1>8. CASE DiscardDrop
  <2>1. InStage("discarded branch")
    BY <1>8 DEF DiscardDrop
  <2>2. Key \in KeysOf(Facts(Discarded))
    BY <1>0, <2>1, OtherSide DEF InStage, StageKeys, LoopSide, Facts, Sides, Discarded
  <2>3. CASE InBoth(Key) /\ Key \notin Collide
    <3>1. Emit(<<>>) /\ Emission(Key, <<>>)
      BY <1>8, <2>1, <2>3 DEF DiscardDrop, Emission, InStage
    <3> QED
      BY <1>0, <2>1, <3>1 DEF InStage, Emit, Iterates
  <2>4. CASE ~(InBoth(Key) /\ Key \notin Collide)
    <3> DEFINE entries == <<Entry(Cur(Discarded, Key), "dropped", {Discarded})>>
    <3>1. Emit(entries)
      BY <1>8, <2>4 DEF DiscardDrop, Discarded
    <3>2. Says(Discarded, Key, "dropped", entries)
      BY <2>2, OtherSide DEF Says
    <3>3. Emission(Key, entries)
      BY <2>1, <2>4, <3>2 DEF Emission, InStage
    <3> QED
      BY <1>0, <2>1, <3>1, <3>3 DEF InStage, Emit, Iterates
  <2> QED
    BY <2>3, <2>4
<1>9. CASE ConfidenceSettle
  <2> DEFINE side == IF Key \in KeysOf(scenario.a) THEN "a" ELSE "b"
             entries == <<SettledEntry(scenario, Key)>>
  <2>1. stage = "settled" /\ todo # {} /\ Emit(entries)
    BY <1>9 DEF ConfidenceSettle, InStage
  <2>2. side \in Sides /\ Key \in KeysOf(Facts(side)) /\ Key \notin Collide /\ Key \in AllKeys(scenario)
    BY <1>0, <1>2, <2>1 DEF Sides, Facts, AllKeys, StageKeys, Collide
  <2>3. \E sources : SettledEntry(scenario, Key) = Entry(Cur(side, Key), "kept", sources)
    BY DEF SettledEntry, Cur, Facts
  <2> HIDE DEF side
  <2>4. PICK sources : SettledEntry(scenario, Key) = Entry(Cur(side, Key), "kept", sources)
    BY <2>3
  <2>5. sources \in SUBSET Sides
    <3>1. SettledEntry(scenario, Key) \in ResolvedFact
      BY <2>2, SettledEntryOK DEF MergeTyped
    <3> QED
      BY <2>4, <3>1 DEF ResolvedFact, Entry
  <2>6. Emission(Key, entries)
    BY <2>1, <2>2, <2>4, <2>5 DEF Emission, Says
  <2> QED
    BY <1>0, <2>1, <2>6 DEF Emit, Iterates
<1>10. CASE ConfidenceKeep
  <2>1. PICK side \in Sides, other \in Sides :
            /\ Cur(side, Key).conf > Cur(other, Key).conf
            /\ Emit(<<Entry(Cur(side, Key), "kept", {side})>>)
    BY <1>10 DEF ConfidenceKeep
  <2>2. stage = "conflicts" /\ todo # {}
    BY <1>10 DEF ConfidenceKeep, InStage
  <2>3. Key \in Collide /\ InBoth(Key)
    BY <1>0, <1>1, <2>2 DEF StageKeys, Collide
  <2>4. \A s \in Sides : Key \in KeysOf(Facts(s)) /\ Cur(s, Key).conf \in Nat
    <3>1. \A s \in Sides : Key \in KeysOf(Facts(s))
      BY <2>3 DEF InBoth, Facts, Sides
    <3>2. \A s \in Sides : Cur(s, Key) \in Fact
      BY <3>1, SideOK DEF MergeTyped
    <3> QED
      BY <3>1, <3>2 DEF Fact
  <2>5. Cur("a", Key).conf # Cur("b", Key).conf
    BY <2>1, <2>4 DEF Sides
  <2>6. Emission(Key, <<Entry(Cur(side, Key), "kept", {side})>>)
    BY <2>1, <2>2, <2>3, <2>4, <2>5 DEF Emission, Says
  <2> QED
    BY <1>0, <2>1, <2>2, <2>6 DEF Emit, Iterates
<1>11. CASE ConfidenceTie
  <2> DEFINE entries == <<Entry(Cur("a", Key), "flagged_unresolved", Sides)>>
  <2>1. /\ stage = "conflicts" /\ todo # {} /\ Emit(entries)
        /\ Cur("a", Key).conf = Cur("b", Key).conf
    BY <1>11 DEF ConfidenceTie, InStage
  <2>2. Key \in Collide /\ Key \in KeysOf(Facts("a"))
    BY <1>0, <1>1, <2>1 DEF StageKeys, Collide, InBoth, Facts
  <2>3. Says("a", Key, "flagged_unresolved", entries)
    BY <2>2 DEF Says
  <2>4. Emission(Key, entries)
    BY <2>1, <2>2, <2>3 DEF Emission
  <2> QED
    BY <1>0, <2>1, <2>4 DEF Emit, Iterates
<1>12. CASE EndLoop
  BY <1>12 DEF EndLoop
<1> QED
  BY <1>3, <1>4, <1>5, <1>6, <1>7, <1>8, <1>9, <1>10, <1>11, <1>12 DEF MergeNext, Iterates

-----------------------------------------------------------------------------
(* The entries of an iteration.                                             *)

\* An entry of a merge is a current fact of a branch, as the strategy allows.
EntryOK(e) ==
    /\ \E side \in Sides :
           /\ e.fact.key \in KeysOf(Facts(side))
           /\ e.fact = Cur(side, e.fact.key)
           /\ WholeBranchDiscarded =>
                  \/ e.resolution = "kept" /\ side = Kept
                  \/ /\ e.resolution = "dropped" /\ side = Discarded
                     /\ ~(InBoth(e.fact.key) /\ e.fact.key \notin Collide)
    /\ e.resolution \in {"kept", "dropped", "flagged_unresolved"}
    /\ e.resolution = "flagged_unresolved" => strategy = "confidence_rule" /\ e.fact.key \in Collide
    /\ strategy = "confidence_rule" /\ e.fact.key \in Collide =>
           (e.resolution = "flagged_unresolved" <=>
                Cur("a", e.fact.key).conf = Cur("b", e.fact.key).conf)

\* The stages tell the strategies apart.
LEMMA StageTells ==
    ASSUME MergeTyped
    PROVE  /\ stage = "each key" => strategy = "last_writer_wins"
           /\ stage \in {"all of a", "all of b"} => strategy = "naive_concat"
           /\ stage \in {"settled", "conflicts"} => strategy = "confidence_rule"
           /\ stage = "union" => strategy \in Discarding /\ Collide = {}
           /\ stage \in {"kept branch", "discarded branch"} => WholeBranchDiscarded
           /\ WholeBranchDiscarded => stage \in {"kept branch", "discarded branch", "returned"}
           /\ WholeBranchDiscarded => strategy \notin {"last_writer_wins", "naive_concat", "confidence_rule"}
           /\ stage \in {"each key", "union", "settled", "conflicts", "all of a", "all of b",
                         "kept branch", "discarded branch", "returned"}
BY DEF MergeTyped, Stages, Strategies, WholeBranchDiscarded, Discarding

\* What an entry made from a side's current fact is.
LEMMA SaysOK ==
    ASSUME ScenarioOK(scenario), NEW side \in Sides, NEW k, NEW resolution \in Resolutions,
           NEW entries, Says(side, k, resolution, entries)
    PROVE  /\ entries \in Seq(ResolvedFact) /\ DOMAIN entries = {1}
           /\ entries[1].fact = Cur(side, k) /\ entries[1].fact.key = k
           /\ entries[1].resolution = resolution
<1>1. PICK sources \in SUBSET Sides : entries = <<Entry(Cur(side, k), resolution, sources)>>
  BY DEF Says
<1>2. Cur(side, k) \in Fact /\ Cur(side, k).key = k
  BY SideOK DEF Says
<1>3. Entry(Cur(side, k), resolution, sources) \in ResolvedFact
  BY <1>2 DEF Entry, ResolvedFact
<1>4. /\ Entry(Cur(side, k), resolution, sources).fact = Cur(side, k)
      /\ Entry(Cur(side, k), resolution, sources).resolution = resolution
  BY DEF Entry
<1> DEFINE e == Entry(Cur(side, k), resolution, sources)
<1> HIDE DEF e
<1>5. entries = <<e>>
  BY <1>1 DEF e
<1>6. entries \in Seq(ResolvedFact) /\ DOMAIN entries = {1} /\ entries[1] = e
  BY <1>3, <1>5 DEF e
<1> QED
  BY <1>2, <1>4, <1>6 DEF e

\* The entries an iteration adds are about its key and allowed; every loop but
\* the last of a discarding merge adds exactly one that survives.
LEMMA EmissionOK ==
    ASSUME MergeTyped, NEW k \in todo, NEW entries, Emission(k, entries)
    PROVE  /\ entries \in Seq(ResolvedFact)
           /\ \A n \in DOMAIN entries : entries[n].fact.key = k /\ EntryOK(entries[n])
           /\ stage = "discarded branch" => \A n \in DOMAIN entries : entries[n].resolution = "dropped"
           /\ stage # "discarded branch" => \E n \in DOMAIN entries :
                  /\ entries[n].resolution # "dropped"
                  /\ \A m \in DOMAIN entries : entries[m].resolution # "dropped" => m = n
<1>0. ScenarioOK(scenario)
  BY DEF MergeTyped
<1>1. ASSUME NEW side \in Sides, NEW resolution \in {"kept", "dropped", "flagged_unresolved"},
             Says(side, k, resolution, entries),
             WholeBranchDiscarded =>
                  \/ resolution = "kept" /\ side = Kept
                  \/ resolution = "dropped" /\ side = Discarded /\ ~(InBoth(k) /\ k \notin Collide),
             resolution = "flagged_unresolved" => strategy = "confidence_rule" /\ k \in Collide,
             strategy = "confidence_rule" /\ k \in Collide =>
                 (resolution = "flagged_unresolved" <=> Cur("a", k).conf = Cur("b", k).conf),
             stage = "discarded branch" <=> resolution = "dropped"
      PROVE  /\ entries \in Seq(ResolvedFact)
             /\ \A n \in DOMAIN entries : entries[n].fact.key = k /\ EntryOK(entries[n])
             /\ stage = "discarded branch" => \A n \in DOMAIN entries : entries[n].resolution = "dropped"
             /\ stage # "discarded branch" => \E n \in DOMAIN entries :
                    /\ entries[n].resolution # "dropped"
                    /\ \A m \in DOMAIN entries : entries[m].resolution # "dropped" => m = n
  <2>1. resolution \in Resolutions /\ Says(side, k, resolution, entries)
    BY <1>1 DEF Resolutions
  <2>2. /\ entries \in Seq(ResolvedFact) /\ DOMAIN entries = {1}
        /\ entries[1].fact = Cur(side, k) /\ entries[1].fact.key = k
        /\ entries[1].resolution = resolution
    BY <1>0, <2>1, SaysOK
  <2>3. k \in KeysOf(Facts(side))
    BY <1>1 DEF Says
  <2>4. EntryOK(entries[1])
    BY <1>1, <2>2, <2>3 DEF EntryOK
  <2> QED
    BY <1>1, <2>2, <2>4
<1>2. CASE stage \in {"each key", "union", "settled"} /\ k \notin Collide
  <2>1. PICK side \in Sides : Says(side, k, "kept", entries)
    BY <1>2 DEF Emission
  <2> QED
    BY <1>1, <1>2, <2>1, StageTells
<1>3. CASE stage = "each key" /\ k \in Collide
  <2>1. PICK winner \in Sides, loser \in Sides :
            /\ winner # loser
            /\ entries = <<Entry(Cur(winner, k), "kept", {winner}), Entry(Cur(loser, k), "dropped", {loser})>>
    BY <1>3 DEF Emission
  <2>2. \A side \in Sides : k \in KeysOf(Facts(side))
    BY <1>0, <1>3, CollisionKeys DEF Collide, Facts, Sides
  <2>3. \A side \in Sides : Cur(side, k) \in Fact /\ Cur(side, k).key = k
    BY <1>0, <2>2, SideOK
  <2> DEFINE e1 == Entry(Cur(winner, k), "kept", {winner})
             e2 == Entry(Cur(loser, k), "dropped", {loser})
  <2>4. /\ e1 \in ResolvedFact /\ e1.fact = Cur(winner, k) /\ e1.resolution = "kept"
        /\ e2 \in ResolvedFact /\ e2.fact = Cur(loser, k) /\ e2.resolution = "dropped"
    BY <2>1, <2>3 DEF Entry, ResolvedFact, Resolutions
  <2>5. entries = <<e1, e2>>
    BY <2>1
  <2> HIDE DEF e1, e2
  <2>6. /\ entries \in Seq(ResolvedFact) /\ DOMAIN entries = 1..2
        /\ entries[1] = e1 /\ entries[2] = e2
    BY <2>4, <2>5
  <2>7. e1.fact.key = k /\ e2.fact.key = k
    BY <2>1, <2>3, <2>4
  <2>8. strategy = "last_writer_wins" /\ ~WholeBranchDiscarded
    BY <1>3, StageTells
  <2>9. EntryOK(e1) /\ EntryOK(e2)
    BY <2>1, <2>2, <2>4, <2>7, <2>8 DEF EntryOK
  <2>10. /\ \A n \in DOMAIN entries : n = 1 \/ n = 2
         /\ 1 \in DOMAIN entries /\ 2 \in DOMAIN entries
    BY <2>6
  <2>11. stage # "discarded branch"
    BY <1>3
  <2>12. \A n \in DOMAIN entries : entries[n].fact.key = k /\ EntryOK(entries[n])
    BY <2>6, <2>7, <2>9, <2>10
  <2>13. /\ entries[1].resolution # "dropped"
         /\ \A m \in DOMAIN entries : entries[m].resolution # "dropped" => m = 1
    BY <2>4, <2>6, <2>10
  <2> QED
    BY <2>6, <2>10, <2>11, <2>12, <2>13
<1>4. CASE stage \in {"all of a", "all of b"}
  <2>1. PICK side \in Sides : Says(side, k, "kept", entries)
    BY <1>4 DEF Emission, Sides
  <2> QED
    BY <1>1, <1>4, <2>1, StageTells
<1>5. CASE stage = "kept branch"
  <2>1. Says(Kept, k, "kept", entries)
    BY <1>5 DEF Emission
  <2> QED
    BY <1>1, <1>5, <2>1, OtherSide, StageTells
<1>6. CASE stage = "discarded branch"
  <2>1. CASE InBoth(k) /\ k \notin Collide
    <3>1. entries = <<>>
      BY <1>6, <2>1 DEF Emission
    <3>2. entries \in Seq(ResolvedFact) /\ DOMAIN entries = {}
      BY <3>1
    <3> QED
      BY <1>6, <3>2
  <2>2. CASE ~(InBoth(k) /\ k \notin Collide)
    <3>1. Says(Discarded, k, "dropped", entries)
      BY <1>6, <2>2 DEF Emission
    <3> QED
      BY <1>1, <1>6, <2>2, <3>1, OtherSide, StageTells
  <2> QED
    BY <2>1, <2>2
<1>7. CASE stage = "conflicts"
  <2>1. k \in Collide
    BY <1>7 DEF Emission
  <2>2. CASE Cur("a", k).conf = Cur("b", k).conf
    <3>1. Says("a", k, "flagged_unresolved", entries) /\ "a" \in Sides
      BY <1>7, <2>2 DEF Emission, Sides
    <3> QED
      BY <1>1, <1>7, <2>1, <2>2, <3>1, StageTells
  <2>3. CASE Cur("a", k).conf # Cur("b", k).conf
    <3>1. PICK side \in Sides : Says(side, k, "kept", entries)
      BY <1>7, <2>3 DEF Emission
    <3> QED
      BY <1>1, <1>7, <2>1, <2>3, <3>1, StageTells
  <2> QED
    BY <2>2, <2>3
<1> QED
  BY <1>2, <1>3, <1>4, <1>5, <1>6, <1>7 DEF Emission

\* The entries of a result with more entries added.
LEMMA Concatenated ==
    ASSUME NEW r \in Seq(ResolvedFact), NEW entries \in Seq(ResolvedFact)
    PROVE  /\ r \o entries \in Seq(ResolvedFact)
           /\ \A n \in DOMAIN r : n \in DOMAIN (r \o entries) /\ (r \o entries)[n] = r[n]
           /\ \A n \in DOMAIN entries :
                  /\ Len(r) + n \in DOMAIN (r \o entries) /\ (r \o entries)[Len(r) + n] = entries[n]
                  /\ Len(r) + n \notin DOMAIN r
           /\ \A n \in DOMAIN (r \o entries) :
                  n \in DOMAIN r \/ \E m \in DOMAIN entries : n = Len(r) + m
<1>1. /\ DOMAIN r = 1..Len(r) /\ Len(r) \in Nat
      /\ DOMAIN entries = 1..Len(entries) /\ Len(entries) \in Nat
      /\ Len(r \o entries) = Len(r) + Len(entries) /\ r \o entries \in Seq(ResolvedFact)
      /\ DOMAIN (r \o entries) = 1..(Len(r) + Len(entries))
  OBVIOUS
<1>2. \A n \in DOMAIN r : (r \o entries)[n] = r[n]
  OBVIOUS
<1>3. ASSUME NEW n \in DOMAIN entries
      PROVE  (r \o entries)[Len(r) + n] = entries[n]
  BY <1>1
<1>4. ASSUME NEW n \in DOMAIN (r \o entries), n \notin DOMAIN r
      PROVE  \E m \in DOMAIN entries : n = Len(r) + m
  <2>1. n - Len(r) \in DOMAIN entries /\ n = Len(r) + (n - Len(r))
    BY <1>1, <1>4
  <2> QED
    BY <2>1
<1> QED
  BY <1>1, <1>2, <1>3, <1>4

\* How the merge of a scenario starts.
Started ==
    /\ strategy \in Strategies
    /\ ScenarioOK(scenario)
    /\ stage = FirstStage(strategy, scenario)
    /\ todo = StageKeys(strategy, scenario, stage)
    /\ resolved = <<>>

LEMMA StartTyped == Started => MergeTyped
<1> SUFFICES ASSUME Started PROVE MergeTyped
  OBVIOUS
<1>1. stage \in Stages
  BY DEF Started, FirstStage, Stages, Strategies, Collide
<1> QED
  BY <1>1 DEF Started, MergeTyped

LEMMA StepTyped ==
    ASSUME MergeTyped, MergeNext
    PROVE  MergeTyped'
<1>0. UNCHANGED <<strategy, scenario>>
  BY MergeSteps
<1>1. CASE EndLoop
  <2>1. stage' = NextStage /\ todo' = StageKeys(strategy, scenario, stage') /\ UNCHANGED <<strategy, scenario, resolved>>
    BY <1>1 DEF EndLoop
  <2>2. stage # "returned"
    BY <1>1 DEF EndLoop
  <2>3. NextStage \in Stages \cup {"returned"}
    BY <2>2, StageTells DEF NextStage, Stages, MergeTyped, WholeBranchDiscarded, Discarding
  <2>4. Stages' = Stages
    BY <2>1 DEF Stages, Collide
  <2>5. StageKeys(strategy, scenario, stage)' = StageKeys(strategy, scenario, stage')
    BY <2>1 DEF StageKeys, LoopSide, KeptSide, DiscardedSide
  <2> QED
    BY <2>1, <2>3, <2>4, <2>5 DEF MergeTyped
<1>2. ASSUME NEW k \in todo, NEW entries, Iterates(k, entries) PROVE MergeTyped'
  <2>1. resolved' \in Seq(ResolvedFact)
    BY <1>2, EmissionOK, Concatenated DEF Iterates, MergeTyped
  <2>2. Stages' = Stages
    BY <1>0 DEF Stages, Collide
  <2> QED
    BY <1>0, <1>2, <2>1, <2>2 DEF Iterates, MergeTyped
<1> QED
  BY <1>1, <1>2, MergeSteps

-----------------------------------------------------------------------------
(* Who survives a merge.                                                    *)

\* Every entry is one the strategy allows.
Contents == \A n \in DOMAIN resolved : EntryOK(resolved[n])

\* The keys that no survivor answers yet, or ever.
Waiting ==
    CASE stage \in {"each key", "union", "conflicts"} -> todo
      [] stage = "settled" -> todo \cup Collide
      [] stage = "all of a" -> todo \cup (AllKeys(scenario) \ KeysOf(scenario.a))
      [] stage = "all of b" -> todo \ KeysOf(scenario.a)
      [] stage = "kept branch" -> todo \cup (AllKeys(scenario) \ KeysOf(Facts(Kept)))
      [] stage = "discarded branch" -> AllKeys(scenario) \ KeysOf(Facts(Kept))
      [] OTHER -> IF WholeBranchDiscarded THEN AllKeys(scenario) \ KeysOf(Facts(Kept)) ELSE {}

\* Every other key has a survivor, and unless both branches are kept whole it
\* has one alone.
Served == \A k \in AllKeys(scenario) \ Waiting : Survivors(resolved, k) # {}
ServedOnce ==
    strategy # "naive_concat" => \A k \in AllKeys(scenario) :
        /\ k \in Waiting => Survivors(resolved, k) = {}
        /\ \A m, n \in Survivors(resolved, k) : m = n

LEMMA StepContents ==
    ASSUME MergeTyped, Contents, MergeNext
    PROVE  Contents'
<1>1. UNCHANGED <<strategy, scenario>> /\ resolved \in Seq(ResolvedFact)
  BY MergeSteps DEF MergeTyped
<1>2. (\A n \in DOMAIN resolved' : EntryOK(resolved'[n])) => Contents'
  BY <1>1 DEF Contents, EntryOK, Facts, Cur, WholeBranchDiscarded, Collide, Kept, Discarded, InBoth
<1>3. CASE EndLoop
  BY <1>2, <1>3 DEF EndLoop, Contents
<1>4. ASSUME NEW k \in todo, NEW entries, Iterates(k, entries) PROVE Contents'
  <2>1. resolved' = resolved \o entries /\ Emission(k, entries)
    BY <1>4 DEF Iterates
  <2>2. entries \in Seq(ResolvedFact) /\ \A n \in DOMAIN entries : EntryOK(entries[n])
    BY <2>1, EmissionOK
  <2>3. ASSUME NEW n \in DOMAIN resolved' PROVE EntryOK(resolved'[n])
    BY <1>1, <2>1, <2>2, <2>3, Concatenated DEF Contents
  <2> QED
    BY <1>2, <2>3
<1> QED
  BY <1>3, <1>4, MergeSteps

\* At the end of a loop the keys that wait are those of the loops to come, and
\* an iteration serves its key.
LEMMA StepWaiting ==
    ASSUME MergeTyped, MergeNext
    PROVE  /\ EndLoop => Waiting' = Waiting
           /\ \A k \in todo : \A entries : Iterates(k, entries) =>
                  /\ stage = "discarded branch" => Waiting' = Waiting
                  /\ stage # "discarded branch" => Waiting' = Waiting \ {k}
                  /\ stage # "discarded branch" /\ strategy # "naive_concat" => k \in Waiting
<1>1. /\ UNCHANGED <<strategy, scenario>> /\ ScenarioOK(scenario)
      /\ todo \subseteq StageKeys(strategy, scenario, stage)
  BY MergeSteps DEF MergeTyped
<1>2. /\ Collide' = Collide /\ Facts(Kept)' = Facts(Kept)
      /\ AllKeys(scenario)' = AllKeys(scenario) /\ (WholeBranchDiscarded' <=> WholeBranchDiscarded)
  BY <1>1 DEF Collide, Facts, Kept, WholeBranchDiscarded
<1>3. AllKeys(scenario) = KeysOf(scenario.a) \cup KeysOf(scenario.b)
  BY DEF AllKeys
<1>4. ASSUME EndLoop PROVE Waiting' = Waiting
  <2>1. todo = {} /\ stage # "returned" /\ stage' = NextStage /\ todo' = StageKeys(strategy, scenario, stage')
    BY <1>4 DEF EndLoop
  <2>2. CASE stage = "settled"
    <3>1. stage' = "conflicts" /\ todo' = Collide
      BY <2>1, <2>2 DEF NextStage, StageKeys, Collide
    <3> QED
      BY <2>1, <2>2, <3>1 DEF Waiting
  <2>3. CASE stage = "all of a"
    <3>1. stage' = "all of b" /\ todo' = KeysOf(scenario.b)
      BY <2>1, <2>3 DEF NextStage, StageKeys, LoopSide
    <3>2. Waiting = AllKeys(scenario) \ KeysOf(scenario.a)
      BY <2>1, <2>3 DEF Waiting
    <3>3. Waiting' = KeysOf(scenario.b) \ KeysOf(scenario.a)
      BY <1>1, <3>1 DEF Waiting
    <3> QED
      BY <1>3, <3>2, <3>3
  <2>4. CASE stage = "kept branch"
    <3>1. stage' = "discarded branch"
      BY <2>1, <2>4 DEF NextStage
    <3> QED
      BY <1>2, <2>1, <2>4, <3>1 DEF Waiting
  <2>5. CASE stage = "discarded branch"
    <3>1. stage' = "returned" /\ WholeBranchDiscarded
      BY <2>1, <2>5, StageTells DEF NextStage
    <3> QED
      BY <1>2, <2>5, <3>1 DEF Waiting
  <2>6. CASE stage \in {"each key", "union", "conflicts", "all of b"}
    <3>1. stage' = "returned" /\ ~WholeBranchDiscarded
      BY <2>1, <2>6, StageTells DEF NextStage
    <3> QED
      BY <1>2, <2>1, <2>6, <3>1 DEF Waiting
  <2> QED
    BY <2>1, <2>2, <2>3, <2>4, <2>5, <2>6, StageTells
<1>5. ASSUME NEW k \in todo, NEW entries, Iterates(k, entries)
      PROVE  /\ stage = "discarded branch" => Waiting' = Waiting
             /\ stage # "discarded branch" => Waiting' = Waiting \ {k}
             /\ stage # "discarded branch" /\ strategy # "naive_concat" => k \in Waiting
  <2>1. todo' = todo \ {k} /\ stage' = stage /\ k \in StageKeys(strategy, scenario, stage)
    BY <1>1, <1>5 DEF Iterates
  <2>2. CASE stage \in {"each key", "union", "conflicts"}
    BY <2>1, <2>2 DEF Waiting
  <2>3. CASE stage = "settled"
    <3>1. k \notin Collide
      BY <2>1, <2>3 DEF StageKeys, Collide
    <3> QED
      BY <1>2, <2>1, <2>3, <3>1 DEF Waiting
  <2>4. CASE stage = "all of a"
    <3>1. k \in KeysOf(scenario.a) /\ strategy = "naive_concat"
      BY <2>1, <2>4, StageTells DEF StageKeys, LoopSide
    <3> QED
      BY <1>1, <1>2, <2>1, <2>4, <3>1 DEF Waiting
  <2>5. CASE stage = "all of b"
    <3>1. strategy = "naive_concat"
      BY <2>5, StageTells
    <3> QED
      BY <1>1, <2>1, <2>5, <3>1 DEF Waiting
  <2>6. CASE stage = "kept branch"
    <3>1. k \in KeysOf(Facts(Kept))
      BY <2>1, <2>6, OtherSide DEF StageKeys, LoopSide, Facts, Kept, Sides
    <3> QED
      BY <1>2, <2>1, <2>6, <3>1 DEF Waiting
  <2>7. CASE stage = "discarded branch"
    BY <1>2, <2>1, <2>7 DEF Waiting
  <2>8. CASE stage = "returned"
    BY <2>1, <2>8 DEF StageKeys
  <2> QED
    BY <2>2, <2>3, <2>4, <2>5, <2>6, <2>7, <2>8, StageTells
<1> QED
  BY <1>4, <1>5

\* An iteration leaves the survivors of other keys as they are and adds one for
\* its own, or none in the last loop of a discarding merge.
LEMMA StepSurvivors ==
    ASSUME MergeTyped, NEW k \in todo, NEW entries, Iterates(k, entries)
    PROVE  /\ \A q : q # k \/ stage = "discarded branch" =>
                  Survivors(resolved', q) = Survivors(resolved, q)
           /\ stage # "discarded branch" => \E n : /\ n \notin DOMAIN resolved
                                                   /\ Survivors(resolved', k) = Survivors(resolved, k) \cup {n}
<1> DEFINE longer == resolved \o entries
<1>1. resolved' = longer /\ Emission(k, entries) /\ resolved \in Seq(ResolvedFact)
  BY DEF Iterates, MergeTyped
<1> HIDE DEF longer
<1>2. /\ entries \in Seq(ResolvedFact)
      /\ \A n \in DOMAIN entries : entries[n].fact.key = k /\ EntryOK(entries[n])
      /\ stage = "discarded branch" => \A n \in DOMAIN entries : entries[n].resolution = "dropped"
      /\ stage # "discarded branch" => \E n \in DOMAIN entries :
             /\ entries[n].resolution # "dropped"
             /\ \A m \in DOMAIN entries : entries[m].resolution # "dropped" => m = n
  BY <1>1, EmissionOK
<1>3. /\ \A n \in DOMAIN resolved : n \in DOMAIN longer /\ longer[n] = resolved[n]
      /\ \A n \in DOMAIN entries :
             /\ Len(resolved) + n \in DOMAIN longer /\ longer[Len(resolved) + n] = entries[n]
             /\ Len(resolved) + n \notin DOMAIN resolved
      /\ \A n \in DOMAIN longer :
             n \in DOMAIN resolved \/ \E m \in DOMAIN entries : n = Len(resolved) + m
  BY <1>1, <1>2, Concatenated DEF longer
<1>4. ASSUME NEW q, q # k \/ stage = "discarded branch"
      PROVE  Survivors(longer, q) = Survivors(resolved, q)
  <2>1. \A n \in DOMAIN entries : entries[n].fact.key # q \/ entries[n].resolution = "dropped"
    BY <1>2, <1>4
  <2> QED
    BY <1>3, <2>1 DEF Survivors
<1>5. ASSUME stage # "discarded branch"
      PROVE  \E n : /\ n \notin DOMAIN resolved
                    /\ Survivors(longer, k) = Survivors(resolved, k) \cup {n}
  <2>1. PICK m \in DOMAIN entries :
            /\ entries[m].resolution # "dropped"
            /\ \A j \in DOMAIN entries : entries[j].resolution # "dropped" => j = m
    BY <1>2, <1>5
  <2>2. Len(resolved) + m \in Survivors(longer, k)
    BY <1>2, <1>3, <2>1 DEF Survivors
  <2>3. Survivors(resolved, k) \subseteq Survivors(longer, k)
    BY <1>3 DEF Survivors
  <2>4. ASSUME NEW n \in Survivors(longer, k), n \notin DOMAIN resolved
        PROVE  n = Len(resolved) + m
    <3>1. PICK j \in DOMAIN entries : n = Len(resolved) + j
      BY <1>3, <2>4 DEF Survivors
    <3>2. longer[n] = entries[j] /\ longer[n].resolution # "dropped"
      BY <1>3, <3>1 DEF Survivors
    <3> QED
      BY <2>1, <3>1, <3>2
  <2>5. Survivors(longer, k) = Survivors(resolved, k) \cup {Len(resolved) + m}
    BY <1>3, <2>2, <2>3, <2>4 DEF Survivors
  <2> QED
    BY <1>3, <2>5
<1> QED
  BY <1>1, <1>4, <1>5 DEF longer

LEMMA StepServed ==
    ASSUME MergeTyped, Served, MergeNext
    PROVE  Served'
<1>1. AllKeys(scenario)' = AllKeys(scenario)
  BY MergeSteps
<1>2. CASE EndLoop
  <2>1. Waiting' = Waiting /\ resolved' = resolved
    BY <1>2, StepWaiting DEF EndLoop
  <2> QED
    BY <1>1, <2>1 DEF Served
<1>3. ASSUME NEW k \in todo, NEW entries, Iterates(k, entries) PROVE Served'
  <2> SUFFICES ASSUME NEW q \in AllKeys(scenario) \ Waiting' PROVE Survivors(resolved', q) # {}
    BY <1>1 DEF Served
  <2>1. /\ \A x : x # k \/ stage = "discarded branch" =>
               Survivors(resolved', x) = Survivors(resolved, x)
        /\ stage # "discarded branch" => \E n : /\ n \notin DOMAIN resolved
                                                /\ Survivors(resolved', k) = Survivors(resolved, k) \cup {n}
    BY <1>3, StepSurvivors
  <2>2. /\ stage = "discarded branch" => Waiting' = Waiting
        /\ stage # "discarded branch" => Waiting' = Waiting \ {k}
    BY <1>3, StepWaiting
  <2>3. CASE q = k /\ stage # "discarded branch"
    BY <2>1, <2>3
  <2>4. CASE ~(q = k /\ stage # "discarded branch")
    BY <2>1, <2>2, <2>4 DEF Served
  <2> QED
    BY <2>3, <2>4
<1> QED
  BY <1>2, <1>3, MergeSteps

LEMMA StepServedOnce ==
    ASSUME MergeTyped, ServedOnce, MergeNext
    PROVE  ServedOnce'
<1>1. AllKeys(scenario)' = AllKeys(scenario) /\ strategy' = strategy
  BY MergeSteps
<1>2. CASE EndLoop
  <2>1. Waiting' = Waiting /\ resolved' = resolved
    BY <1>2, StepWaiting DEF EndLoop
  <2> QED
    BY <1>1, <2>1 DEF ServedOnce
<1>3. ASSUME NEW k \in todo, NEW entries, Iterates(k, entries) PROVE ServedOnce'
  <2> SUFFICES ASSUME strategy # "naive_concat", NEW q \in AllKeys(scenario)
               PROVE  /\ q \in Waiting' => Survivors(resolved', q) = {}
                      /\ \A m, n \in Survivors(resolved', q) : m = n
    BY <1>1 DEF ServedOnce
  <2>1. /\ \A x : x # k \/ stage = "discarded branch" =>
               Survivors(resolved', x) = Survivors(resolved, x)
        /\ stage # "discarded branch" => \E n : /\ n \notin DOMAIN resolved
                                                /\ Survivors(resolved', k) = Survivors(resolved, k) \cup {n}
    BY <1>3, StepSurvivors
  <2>2. /\ stage = "discarded branch" => Waiting' = Waiting
        /\ stage # "discarded branch" => Waiting' = Waiting \ {k} /\ k \in Waiting
    BY <1>3, StepWaiting
  <2>3. CASE q = k /\ stage # "discarded branch"
    <3>1. Survivors(resolved, k) = {}
      BY <2>2, <2>3 DEF ServedOnce
    <3> QED
      BY <2>1, <2>2, <2>3, <3>1
  <2>4. CASE ~(q = k /\ stage # "discarded branch")
    BY <2>1, <2>2, <2>4 DEF ServedOnce
  <2> QED
    BY <2>3, <2>4
<1> QED
  BY <1>2, <1>3, MergeSteps

-----------------------------------------------------------------------------
(* What is lost in a merge.                                                 *)

\* The keys of a side that are not reported yet, or never are.
Owed(side) ==
    CASE stage \in {"each key", "union"} -> todo
      [] stage = "settled" -> todo \cup Collide
      [] stage = "conflicts" -> Collide
      [] stage = "all of a" -> IF side = "a" THEN todo ELSE AllKeys(scenario)
      [] stage = "all of b" -> IF side = "a" THEN {} ELSE todo
      [] stage = "kept branch" -> IF side = Kept THEN todo ELSE AllKeys(scenario)
      [] stage = "discarded branch" -> IF side = Kept THEN {} ELSE todo
      [] OTHER -> IF strategy = "confidence_rule" THEN Collide ELSE {}

\* A result reports a side's current fact: it has the fact, or its value.
Reports(result, side, k) ==
    \E n \in DOMAIN result :
        \/ result[n].fact = Cur(side, k)
        \/ /\ result[n].fact.key = k
           /\ result[n].fact.value = Cur(side, k).value
           /\ result[n].resolution = "kept"

Accounted ==
    \A side \in Sides : \A k \in KeysOf(Facts(side)) \ Owed(side) : Reports(resolved, side, k)

\* The end of a loop leaves nothing unreported.
LEMMA OwedAtTheEnd ==
    ASSUME MergeTyped, EndLoop, NEW side \in Sides
    PROVE  KeysOf(Facts(side)) \ Owed(side)' \subseteq KeysOf(Facts(side)) \ Owed(side)
<1>1. /\ todo = {} /\ stage # "returned" /\ stage' = NextStage
      /\ todo' = StageKeys(strategy, scenario, stage') /\ UNCHANGED <<strategy, scenario>>
      /\ KeysOf(Facts(side)) \subseteq AllKeys(scenario)
  BY SideOK DEF EndLoop, MergeTyped
<1>2. Collide' = Collide /\ Kept' = Kept /\ Kept # Discarded
  BY <1>1, OtherSide DEF Collide, Kept
<1>3. CASE stage = "settled"
  BY <1>1, <1>2, <1>3 DEF NextStage, StageKeys, Owed, Collide
<1>4. CASE stage = "conflicts"
  <2>1. stage' = "returned" /\ strategy = "confidence_rule"
    BY <1>1, <1>4, StageTells DEF NextStage
  <2> QED
    BY <1>1, <1>2, <1>4, <2>1 DEF Owed
<1>5. CASE stage = "all of a"
  <2>1. stage' = "all of b" /\ todo' = KeysOf(scenario.b)
    BY <1>1, <1>5 DEF NextStage, StageKeys, LoopSide
  <2> QED
    BY <1>1, <1>5, <2>1 DEF Owed, Facts
<1>6. CASE stage = "kept branch"
  <2>1. stage' = "discarded branch" /\ todo' = KeysOf(Facts(Discarded))
    BY <1>1, <1>6, OtherSide DEF NextStage, StageKeys, LoopSide, Discarded, Facts, Sides
  <2>2. CASE side = Kept
    BY <1>1, <1>6, <2>2 DEF Owed
  <2>3. CASE side = Discarded
    <3>1. Owed(side)' = KeysOf(Facts(side))
      BY <1>2, <2>1, <2>3 DEF Owed
    <3> QED
      BY <3>1
  <2> QED
    BY <2>2, <2>3, OtherSide
<1>7. CASE stage \in {"each key", "union", "all of b", "discarded branch"}
  <2>1. Owed(side) = {}
    BY <1>1, <1>7 DEF Owed
  <2> QED
    BY <2>1
<1> QED
  BY <1>1, <1>3, <1>4, <1>5, <1>6, <1>7, StageTells

\* A key both branches hold without colliding has one value.
LEMMA OneValue ==
    ASSUME ScenarioOK(scenario), NEW k, k \notin Collide,
           NEW s \in Sides, NEW t \in Sides, k \in KeysOf(Facts(s)), k \in KeysOf(Facts(t))
    PROVE  Cur(s, k).value = Cur(t, k).value
<1>1. CASE s = t
  BY <1>1
<1>2. CASE s # t
  <2>1. k \in KeysOf(scenario.a) \cap KeysOf(scenario.b)
    BY <1>2 DEF Facts, Sides
  <2>2. k \in AllKeys(scenario) /\ InBoth(k)
    BY <2>1 DEF AllKeys, InBoth
  <2>3. Cur("a", k).value = Cur("b", k).value
    BY <2>2, KeySides
  <2> QED
    BY <1>2, <2>3 DEF Sides
<1> QED
  BY <1>1, <1>2

\* An iteration reports what is owed for its key no longer.
LEMMA KeyReported ==
    ASSUME MergeTyped, Contents, Served, NEW k \in todo, NEW entries, Iterates(k, entries),
           NEW side \in Sides, k \in KeysOf(Facts(side)), k \in Owed(side), k \notin Owed(side)'
    PROVE  Reports(entries, side, k) \/ Reports(resolved, side, k)
<1>0. /\ Emission(k, entries) /\ todo' = todo \ {k} /\ UNCHANGED <<strategy, scenario, stage>>
      /\ ScenarioOK(scenario) /\ Collide' = Collide /\ Kept' = Kept
  BY DEF Iterates, MergeTyped, Collide, Kept
<1>1. ASSUME NEW s \in Sides, NEW resolution \in Resolutions, Says(s, k, resolution, entries),
             s = side \/ (k \notin Collide /\ resolution = "kept")
      PROVE  Reports(entries, side, k)
  <2>1. /\ DOMAIN entries = {1} /\ entries[1].fact = Cur(s, k) /\ entries[1].fact.key = k
        /\ entries[1].resolution = resolution
    <3>1. ScenarioOK(scenario) /\ Says(s, k, resolution, entries)
      BY <1>0, <1>1
    <3> QED
      BY <3>1, SaysOK
  <2>2. CASE s = side
    BY <2>1, <2>2 DEF Reports
  <2>3. CASE k \notin Collide /\ resolution = "kept"
    <3>1. Cur(s, k).value = Cur(side, k).value
      BY <1>0, <1>1, <2>3, OneValue DEF Says
    <3> QED
      BY <2>1, <2>3, <3>1 DEF Reports
  <2> QED
    BY <1>1, <2>2, <2>3
<1>2. "kept" \in Resolutions /\ "dropped" \in Resolutions
  BY DEF Resolutions
<1>3. CASE stage \in {"each key", "union", "settled"} /\ k \notin Collide
  <2>1. PICK s \in Sides : Says(s, k, "kept", entries)
    BY <1>0, <1>3 DEF Emission
  <2> QED
    BY <1>1, <1>2, <1>3, <2>1
<1>4. CASE stage = "each key" /\ k \in Collide
  <2>1. PICK winner \in Sides, loser \in Sides :
            /\ winner # loser
            /\ entries = <<Entry(Cur(winner, k), "kept", {winner}), Entry(Cur(loser, k), "dropped", {loser})>>
    BY <1>0, <1>4 DEF Emission
  <2> DEFINE e1 == Entry(Cur(winner, k), "kept", {winner})
             e2 == Entry(Cur(loser, k), "dropped", {loser})
  <2>2. e1.fact = Cur(winner, k) /\ e2.fact = Cur(loser, k)
    BY DEF Entry
  <2>3. entries = <<e1, e2>> /\ (side = winner \/ side = loser)
    BY <2>1 DEF Sides
  <2> HIDE DEF e1, e2
  <2>4. 1 \in DOMAIN entries /\ 2 \in DOMAIN entries /\ entries[1] = e1 /\ entries[2] = e2
    BY <2>3
  <2> QED
    BY <2>2, <2>3, <2>4 DEF Reports
<1>5. CASE stage \in {"all of a", "all of b"}
  <2>1. \/ side = "a" /\ Says("a", k, "kept", entries)
        \/ side = "b" /\ Says("b", k, "kept", entries)
    BY <1>0, <1>5 DEF Emission, Owed, Sides
  <2> QED
    BY <1>1, <1>2, <2>1
<1>6. CASE stage = "kept branch"
  <2>1. Says(Kept, k, "kept", entries)
    BY <1>0, <1>6 DEF Emission
  <2>2. side = Kept
    BY <1>0, <1>6 DEF Owed
  <2> QED
    BY <1>1, <1>2, <2>1, <2>2
<1>7. CASE stage = "discarded branch"
  <2>1. side = Discarded /\ WholeBranchDiscarded
    BY <1>7, OtherSide, StageTells DEF Owed
  <2>2. CASE ~(InBoth(k) /\ k \notin Collide)
    <3>1. Says(Discarded, k, "dropped", entries)
      BY <1>0, <1>7, <2>2 DEF Emission
    <3> QED
      BY <1>1, <1>2, <2>1, <3>1
  <2>3. CASE InBoth(k) /\ k \notin Collide
    <3>1. k \in AllKeys(scenario) /\ k \in KeysOf(Facts(Kept))
      BY <2>3, OtherSide DEF InBoth, AllKeys, Facts
    <3>2. PICK n \in Survivors(resolved, k) : TRUE
      BY <1>7, <3>1 DEF Served, Waiting
    <3>3. n \in DOMAIN resolved /\ resolved[n].fact.key = k /\ EntryOK(resolved[n])
          /\ resolved[n].resolution # "dropped"
      BY <3>2 DEF Survivors, Contents
    <3>4. resolved[n].resolution = "kept" /\ resolved[n].fact = Cur(Kept, k)
      BY <2>1, <3>3 DEF EntryOK
    <3>5. Cur(Kept, k).value = Cur(side, k).value
      BY <1>0, <2>3, <3>1, OneValue, OtherSide
    <3> QED
      BY <3>3, <3>4, <3>5 DEF Reports
  <2> QED
    BY <2>2, <2>3
<1>8. CASE stage = "conflicts"
  BY <1>0, <1>8 DEF Owed
<1> QED
  BY <1>0, <1>3, <1>4, <1>5, <1>6, <1>7, <1>8 DEF Emission

LEMMA StepAccounted ==
    ASSUME MergeTyped, Contents, Served, Accounted, MergeNext
    PROVE  Accounted'
<1>1. UNCHANGED <<strategy, scenario>> /\ resolved \in Seq(ResolvedFact)
  BY MergeSteps DEF MergeTyped
<1>2. ASSUME \A side \in Sides : \A k \in KeysOf(Facts(side)) \ Owed(side)' : Reports(resolved', side, k)
      PROVE  Accounted'
  BY <1>1, <1>2 DEF Accounted, Reports, Facts, Cur
<1>3. CASE EndLoop
  <2>1. resolved' = resolved
    BY <1>3 DEF EndLoop
  <2>2. ASSUME NEW side \in Sides, NEW k \in KeysOf(Facts(side)) \ Owed(side)'
        PROVE  Reports(resolved', side, k)
    <3>1. k \in KeysOf(Facts(side)) \ Owed(side)
      BY <1>3, OwedAtTheEnd
    <3> QED
      BY <2>1, <3>1 DEF Accounted
  <2> QED
    BY <1>2, <2>2
<1>4. ASSUME NEW k \in todo, NEW entries, Iterates(k, entries) PROVE Accounted'
  <2>1. resolved' = resolved \o entries /\ Emission(k, entries) /\ todo' = todo \ {k} /\ stage' = stage
    BY <1>4 DEF Iterates
  <2>2. entries \in Seq(ResolvedFact)
    BY <2>1, EmissionOK
  <2>3. ASSUME NEW side \in Sides, NEW q, Reports(resolved, side, q) \/ Reports(entries, side, q)
        PROVE  Reports(resolved', side, q)
    <3>1. CASE Reports(resolved, side, q)
      <4>1. \A n \in DOMAIN resolved : n \in DOMAIN resolved' /\ resolved'[n] = resolved[n]
        BY <1>1, <2>1, <2>2, Concatenated
      <4> QED
        BY <3>1, <4>1 DEF Reports
    <3>2. CASE Reports(entries, side, q)
      <4>1. \A n \in DOMAIN entries :
                Len(resolved) + n \in DOMAIN resolved' /\ resolved'[Len(resolved) + n] = entries[n]
        BY <1>1, <2>1, <2>2, Concatenated
      <4> QED
        BY <3>2, <4>1 DEF Reports
    <3> QED
      BY <2>3, <3>1, <3>2
  <2>4. ASSUME NEW side \in Sides, NEW q \in KeysOf(Facts(side)) \ Owed(side)'
        PROVE  Reports(resolved', side, q)
    <3>1. CASE q \notin Owed(side)
      BY <2>3, <3>1 DEF Accounted
    <3>2. CASE q \in Owed(side)
      <4>1. q = k
        <5>1. Collide' = Collide /\ Kept' = Kept /\ AllKeys(scenario)' = AllKeys(scenario)
          BY <1>1 DEF Collide, Kept
        <5> QED
          BY <1>1, <2>1, <2>4, <3>2, <5>1 DEF Owed
      <4>2. Reports(entries, side, q) \/ Reports(resolved, side, q)
        BY <1>4, <2>4, <3>2, <4>1, KeyReported
      <4> QED
        BY <2>3, <4>2
    <3> QED
      BY <3>1, <3>2
  <2> QED
    BY <1>2, <2>4
<1> QED
  BY <1>3, <1>4, MergeSteps

-----------------------------------------------------------------------------
(* The invariant of a merge, by itself and in the benchmark.                *)

MergeInv == MergeTyped /\ Contents /\ Served /\ ServedOnce /\ Accounted

LEMMA StartInv == Started => MergeInv
<1> SUFFICES ASSUME Started PROVE MergeInv
  OBVIOUS
<1>1. MergeTyped
  BY StartTyped
<1>2. /\ resolved = <<>> /\ DOMAIN resolved = {} /\ todo = StageKeys(strategy, scenario, stage)
      /\ stage \in {"each key", "all of a", "settled", "union", "kept branch"}
  <2>1. stage \in {"each key", "all of a", "settled", "union", "kept branch"}
    BY DEF Started, FirstStage
  <2>2. DOMAIN <<>> = {}
    OBVIOUS
  <2> QED
    BY <2>1, <2>2 DEF Started
<1>3. AllKeys(scenario) = KeysOf(scenario.a) \cup KeysOf(scenario.b) /\ ScenarioOK(scenario)
  BY <1>1 DEF AllKeys, MergeTyped
<1>4. stage = "kept branch" => todo = KeysOf(Facts(Kept))
  BY <1>2, OtherSide DEF StageKeys, LoopSide, Kept, Facts, Sides
<1>5. stage = "all of a" => todo = KeysOf(scenario.a) /\ todo = KeysOf(Facts("a"))
  BY <1>2 DEF StageKeys, LoopSide, Facts
<1>6. stage \in {"each key", "union"} => todo = AllKeys(scenario)
  BY <1>2 DEF StageKeys
<1>7. stage = "settled" => todo = AllKeys(scenario) \ Collide
  BY <1>2 DEF StageKeys, Collide
<1>8. \A k : Survivors(resolved, k) = {}
  BY <1>2 DEF Survivors
<1>9. AllKeys(scenario) \subseteq Waiting
  BY <1>2, <1>4, <1>5, <1>6, <1>7 DEF Waiting
<1>10. ASSUME NEW side \in Sides PROVE KeysOf(Facts(side)) \subseteq Owed(side)
  <2>1. KeysOf(Facts(side)) \subseteq AllKeys(scenario)
    BY <1>3, SideOK
  <2> QED
    BY <1>2, <1>4, <1>5, <1>6, <1>7, <2>1 DEF Owed
<1>11. Contents /\ Served /\ ServedOnce
  BY <1>2, <1>8, <1>9 DEF Contents, Served, ServedOnce
<1>12. Accounted
  BY <1>10 DEF Accounted
<1> QED
  BY <1>1, <1>11, <1>12 DEF MergeInv

LEMMA StepInv == MergeInv /\ [MergeNext]_mergeVars => MergeInv'
<1>1. ASSUME MergeInv, MergeNext PROVE MergeInv'
  BY <1>1, StepTyped, StepContents, StepServed, StepServedOnce, StepAccounted DEF MergeInv
<1>2. ASSUME MergeInv, UNCHANGED mergeVars PROVE MergeInv'
  <2>1. /\ UNCHANGED <<strategy, scenario, stage, todo, resolved>>
        /\ Collide' = Collide /\ Kept' = Kept /\ Discarded' = Discarded
        /\ (WholeBranchDiscarded' <=> WholeBranchDiscarded) /\ AllKeys(scenario)' = AllKeys(scenario)
    BY <1>2 DEF mergeVars, Collide, Kept, Discarded, WholeBranchDiscarded
  <2>2. MergeTyped'
    BY <1>2, <2>1 DEF MergeInv, MergeTyped, Stages
  <2>3. Contents'
    BY <1>2, <2>1 DEF MergeInv, Contents, EntryOK, Facts, Cur, InBoth
  <2>4. Waiting' = Waiting
    BY <2>1 DEF Waiting, Facts
  <2>5. Served' /\ ServedOnce'
    BY <1>2, <2>1, <2>4 DEF MergeInv, Served, ServedOnce
  <2>6. Accounted'
    <3>1. \A side : Owed(side)' = Owed(side)
      BY <2>1 DEF Owed
    <3>2. Accounted
      BY <1>2 DEF MergeInv
    <3> QED
      BY <2>1, <3>1, <3>2 DEF Accounted, Reports, Facts, Cur
  <2> QED
    BY <2>2, <2>3, <2>5, <2>6 DEF MergeInv
<1> QED
  BY <1>1, <1>2

LEMMA MergeInductive == MergeSpec => []MergeInv
<1>1. MergeInit => Started
  BY ScenariosAssumption DEF MergeInit, Started
<1> QED
  BY <1>1, StartInv, StepInv, PTL DEF MergeSpec

\* The simulator is not disturbed by what follows it.
LEMMA Simulates == BenchSpec => Spec
<1>1. BenchInit => Init
  BY DEF BenchInit
<1>2. [BenchNext]_benchVars => [Next]_vars
  BY DEF BenchNext, benchVars, Simulate, StartMerge, Merge
<1> QED
  BY <1>1, <1>2, PTL DEF BenchSpec, Spec

\* A merge in the benchmark is given the simulator's branches.
BenchInv ==
    /\ resolved = <<>> \/ stage # "waiting"
    /\ stage # "waiting" =>
           /\ pc = "returned"
           /\ scenario = SimulatedScenario
           /\ questions = S!Questions(SimulatedScenario, pairs)
           /\ MergeInv

LEMMA SimulatedOK ==
    ASSUME TypeOK, LineageSound, pc = "returned"
    PROVE  ScenarioOK(SimulatedScenario)
<1>1. root \in Seq(Fact) /\ facts["a"] \in Seq(Fact) /\ facts["b"] \in Seq(Fact)
  BY RootOK DEF TypeOK, Sides
<1>2. \A s \in Sides : \A n \in DOMAIN facts[s] : facts[s][n].branch = s
  BY DEF LineageSound
<1> QED
  BY <1>1, <1>2 DEF ScenarioOK, SimulatedScenario, Sides

LEMMA BenchInductive == BenchSpec => []BenchInv
<1>1. BenchInit => BenchInv
  BY DEF BenchInit, BenchInv
<1>2. TypeOK /\ LineageSound /\ BenchInv /\ BenchNext /\ (Started' => MergeInv') => BenchInv'
  <2> SUFFICES ASSUME TypeOK, LineageSound, BenchInv, BenchNext, Started' => MergeInv'
               PROVE  BenchInv'
    OBVIOUS
  <2>1. CASE Simulate
    <3>1. pc # "returned"
      BY <2>1 DEF Simulate, Next, Fork, ApplyUpdate, AllApplied, AddPair, RaiseDivergenceError, Return
    <3>2. stage = "waiting" /\ resolved = <<>> /\ UNCHANGED <<stage, resolved>>
      BY <2>1, <3>1 DEF Simulate, mergeVars, BenchInv
    <3> QED
      BY <3>2 DEF BenchInv
  <2>2. CASE StartMerge
    <3>1. ScenarioOK(SimulatedScenario) /\ SimulatedScenario' = SimulatedScenario
      BY <2>2, SimulatedOK DEF StartMerge, SimulatedScenario, vars
    <3>2. Started'
      BY <2>2, <3>1 DEF StartMerge, Started, BenchInv
    <3>3. /\ pc' = "returned" /\ scenario' = SimulatedScenario'
          /\ questions' = S!Questions(SimulatedScenario, pairs) /\ pairs' = pairs
      BY <2>2, <3>1 DEF StartMerge, vars
    <3>4. questions' = S!Questions(SimulatedScenario, pairs)'
      BY <3>1, <3>3
    <3>5. stage' # "waiting"
      BY <2>2 DEF StartMerge, FirstStage
    <3> QED
      BY <3>2, <3>3, <3>4, <3>5 DEF BenchInv
  <2>3. CASE Merge
    <3>1. /\ stage # "waiting" /\ MergeNext /\ UNCHANGED <<root, facts, pc, pairs, questions>>
      BY <2>3 DEF Merge, vars
    <3>2. MergeInv' /\ scenario' = scenario
      BY <3>1, StepInv, MergeSteps DEF BenchInv, MergeInv
    <3>3. stage' # "waiting"
      BY <3>2, StageTells DEF MergeInv, MergeTyped, Stages
    <3>4. SimulatedScenario' = SimulatedScenario
      BY <3>1 DEF SimulatedScenario
    <3>5. S!Questions(SimulatedScenario, pairs)' = S!Questions(SimulatedScenario, pairs)
      BY <3>1, <3>4
    <3> QED
      BY <3>1, <3>2, <3>3, <3>4, <3>5 DEF BenchInv
  <2> QED
    BY <2>1, <2>2, <2>3 DEF BenchNext
<1>3. BenchInv /\ UNCHANGED benchVars => BenchInv'
  <2> SUFFICES ASSUME BenchInv, UNCHANGED benchVars PROVE BenchInv'
    OBVIOUS
  <2>1. UNCHANGED <<root, facts, pc, pairs, questions, strategy, scenario, stage, todo, resolved>>
    BY DEF benchVars, vars, mergeVars
  <2>2. MergeInv => MergeInv'
    BY <2>1, StepInv DEF mergeVars
  <2>3. SimulatedScenario' = SimulatedScenario
    BY <2>1 DEF SimulatedScenario
  <2>4. S!Questions(SimulatedScenario, pairs)' = S!Questions(SimulatedScenario, pairs)
    BY <2>1, <2>3
  <2> QED
    BY <2>1, <2>2, <2>3, <2>4 DEF BenchInv
<1>4. BenchSpec => []TypeOK /\ []LineageSound
  BY Simulates, TypeCorrect, LineageIsSound, PTL
<1> QED
  BY <1>1, <1>2, <1>3, <1>4, StartInv, PTL DEF BenchSpec

\* OneSurvivorPerKey: whatever the branches, a reconciling strategy answers
\* each key of either branch exactly once, alone and in the benchmark.
THEOREM EachKeyOnce == /\ MergeSpec => []OneSurvivorPerKey
                       /\ BenchSpec => []OneSurvivorPerKey
<1>1. (stage = "returned" => MergeInv) => OneSurvivorPerKey
  <2> SUFFICES ASSUME MergeInv, stage = "returned", strategy # "naive_concat", ~WholeBranchDiscarded,
                      NEW k \in AllKeys(scenario)
               PROVE  Cardinality(Survivors(resolved, k)) = 1
    BY DEF OneSurvivorPerKey
  <2>1. Waiting = {}
    BY DEF Waiting
  <2>2. PICK n \in Survivors(resolved, k) : TRUE
    BY <2>1 DEF MergeInv, Served
  <2>3. Survivors(resolved, k) = {n}
    BY <2>2 DEF MergeInv, ServedOnce
  <2> QED
    BY <2>3, FS_Singleton
<1>2. BenchInv => (stage = "returned" => MergeInv)
  BY DEF BenchInv
<1> QED
  BY <1>1, <1>2, MergeInductive, BenchInductive, PTL

\* NothingSilentlyLost: whatever the branches, every current fact of either is
\* reported in the result, or its value is kept.
THEOREM NoSilentLoss == /\ MergeSpec => []NothingSilentlyLost
                        /\ BenchSpec => []NothingSilentlyLost
<1>1. (stage = "returned" => MergeInv) => NothingSilentlyLost
  <2> SUFFICES ASSUME MergeInv, stage = "returned", NEW side \in Sides, NEW k \in KeysOf(Facts(side)),
                      ~(strategy = "confidence_rule" /\ k \in Collide)
               PROVE  Reports(resolved, side, k)
    BY DEF NothingSilentlyLost, Reports
  <2>1. k \notin Owed(side)
    BY DEF Owed
  <2> QED
    BY <2>1 DEF MergeInv, Accounted
<1>2. BenchInv => (stage = "returned" => MergeInv)
  BY DEF BenchInv
<1> QED
  BY <1>1, <1>2, MergeInductive, BenchInductive, PTL

\* DiscardIsAtomic: whatever the branches, the survivors of a discarding merge
\* are the current facts of one branch, and no drop repeats what is kept.
THEOREM DiscardsAreAtomic == /\ MergeSpec => []DiscardIsAtomic
                             /\ BenchSpec => []DiscardIsAtomic
<1>1. (stage = "returned" => MergeInv) => DiscardIsAtomic
  <2> SUFFICES ASSUME MergeInv, stage = "returned", WholeBranchDiscarded PROVE DiscardIsAtomic
    BY DEF DiscardIsAtomic
  <2> DEFINE survivors == {resolved[n].fact : n \in {m \in DOMAIN resolved : resolved[m].resolution = "kept"}}
             current == {Cur(Kept, k) : k \in KeysOf(Facts(Kept))}
  <2>0. ScenarioOK(scenario)
    BY DEF MergeInv, MergeTyped
  <2>1. ASSUME NEW n \in DOMAIN resolved, resolved[n].resolution # "dropped"
        PROVE  /\ resolved[n].fact.key \in KeysOf(Facts(Kept)) /\ resolved[n].resolution = "kept"
               /\ resolved[n].fact = Cur(Kept, resolved[n].fact.key)
    BY <2>1 DEF MergeInv, Contents, EntryOK
  <2>2. ASSUME NEW m \in DOMAIN resolved, resolved[m].resolution = "dropped"
        PROVE  /\ resolved[m].fact.key \in KeysOf(Facts(Discarded))
               /\ resolved[m].fact = Cur(Discarded, resolved[m].fact.key)
               /\ ~(InBoth(resolved[m].fact.key) /\ resolved[m].fact.key \notin Collide)
    BY <2>2 DEF MergeInv, Contents, EntryOK
  <2>3. ASSUME NEW k \in KeysOf(Facts(Kept))
        PROVE  \E n \in DOMAIN resolved : resolved[n].resolution = "kept" /\ resolved[n].fact = Cur(Kept, k)
    <3>1. k \in AllKeys(scenario) /\ k \notin Waiting
      BY <2>0, SideOK, OtherSide DEF Waiting
    <3>2. PICK n \in Survivors(resolved, k) : TRUE
      BY <3>1 DEF MergeInv, Served
    <3> QED
      BY <2>1, <3>2 DEF Survivors
  <2>4. survivors = current
    BY <2>1, <2>3
  <2>5. ASSUME NEW m \in DOMAIN resolved, NEW n \in DOMAIN resolved,
               resolved[m].resolution = "dropped", resolved[n].resolution = "kept"
        PROVE  /\ resolved[m].fact.branch # resolved[n].fact.branch
               /\ <<resolved[m].fact.key, resolved[m].fact.value>>
                      # <<resolved[n].fact.key, resolved[n].fact.value>>
    <3> DEFINE km == resolved[m].fact.key
               kn == resolved[n].fact.key
    <3>1. /\ km \in KeysOf(Facts(Discarded)) /\ resolved[m].fact = Cur(Discarded, km)
          /\ ~(InBoth(km) /\ km \notin Collide)
      BY <2>2, <2>5
    <3>2. kn \in KeysOf(Facts(Kept)) /\ resolved[n].fact = Cur(Kept, kn)
      BY <2>1, <2>5
    <3> HIDE DEF km, kn
    <3>3. resolved[m].fact.branch = Discarded /\ resolved[n].fact.branch = Kept
      BY <2>0, <3>1, <3>2, SideOK, OtherSide
    <3>4. ASSUME km = kn PROVE Cur(Discarded, km).value # Cur(Kept, kn).value
      <4>1. \A side \in Sides : km \in KeysOf(Facts(side))
        BY <3>1, <3>2, <3>4, OtherSide
      <4>2. km \in AllKeys(scenario)
        BY <2>0, <3>1, SideOK, OtherSide
      <4>3. InBoth(km)
        BY <2>0, <4>1, <4>2, KeySides
      <4>4. Cur("a", km).value # Cur("b", km).value
        BY <2>0, <3>1, <4>2, <4>3, KeySides
      <4> QED
        BY <3>4, <4>4, OtherSide DEF Sides
    <3> QED
      BY <3>1, <3>2, <3>3, <3>4, OtherSide DEF km, kn
  <2> HIDE DEF survivors, current
  <2>6. \E side \in Sides : survivors = {Cur(side, k) : k \in KeysOf(Facts(side))}
    BY <2>4, OtherSide DEF current
  <2> QED
    BY <2>5, <2>6 DEF DiscardIsAtomic, survivors
<1>2. BenchInv => (stage = "returned" => MergeInv)
  BY DEF BenchInv
<1> QED
  BY <1>1, <1>2, MergeInductive, BenchInductive, PTL

-----------------------------------------------------------------------------
(* The questions.                                                           *)

\* What the simulator promises, and what the merge was given.
Asked ==
    /\ TypeOK /\ InForce /\ PairsMade /\ BenchInv
    /\ stage # "waiting"

LEMMA AskedAlways == BenchSpec => [](stage # "waiting" => Asked)
<1>1. TypeOK /\ InForce /\ PairsMade /\ BenchInv => (stage # "waiting" => Asked)
  BY DEF Asked
<1> QED
  BY <1>1, Simulates, TypeCorrect, InForceInductive, PairsMadeInductive, BenchInductive, PTL

\* The operators that come with Scoring are those of the merges.
LEMMA SameOperators ==
    /\ \A T : S!Cardinality(T) = Cardinality(T)
    /\ \A result, k : S!Survivors(result, k) = Survivors(result, k)
    /\ \A branch : S!KeysOf(branch) = KeysOf(branch)
    /\ \A branch, k : S!CurrentFact(branch, k) = CurrentFact(branch, k)
<1>1. \A T : S!Cardinality(T) = Cardinality(T)
  BY DEF S!Cardinality, Cardinality
<1>2. \A result, k : S!Survivors(result, k) = Survivors(result, k)
  BY DEF S!Survivors, Survivors
<1>3. \A branch : S!KeysOf(branch) = KeysOf(branch)
  BY DEF S!KeysOf, KeysOf
<1>4. \A branch, k : S!CurrentFact(branch, k) = CurrentFact(branch, k)
  BY DEF S!CurrentFact, CurrentFact, S!IsLatest, IsLatest
<1> QED
  BY <1>1, <1>2, <1>3, <1>4

\* The branches of the scenario are the simulator's.
LEMMA AskedFacts ==
    ASSUME Asked
    PROVE  /\ pc = "returned" /\ MergeInv /\ ScenarioOK(scenario)
           /\ scenario.root = root /\ scenario.a = facts["a"] /\ scenario.b = facts["b"]
           /\ \A s \in Sides :
                  /\ Facts(s) = facts[s]
                  /\ KeysOf(Facts(s)) = KeysOf(root) \cup Touched(updates[s])
<1>1. /\ pc = "returned" /\ MergeInv /\ ScenarioOK(scenario)
      /\ scenario = SimulatedScenario /\ InForce
  BY DEF Asked, BenchInv, MergeInv, MergeTyped
<1>2. scenario.root = root /\ scenario.a = facts["a"] /\ scenario.b = facts["b"]
  BY <1>1 DEF SimulatedScenario
<1>3. \A s \in Sides : Facts(s) = facts[s]
  BY <1>2 DEF Facts, Sides
<1>4. \A s \in Sides : KeysOf(facts[s]) = KeysOf(root) \cup Touched(updates[s])
  BY <1>1 DEF InForce, Touched
<1> QED
  BY <1>1, <1>2, <1>3, <1>4

\* The question that a pair leads to.
AboutPair(p) ==
    S!Question(p.key, p.gt, IF p.type = None THEN "resolvable" ELSE p.type, "pair")

\* A pair's question is the one of its key; an ambiguous one expects a flag.
LEMMA PairQuestion ==
    ASSUME Asked
    PROVE  /\ S!PairQuestions(pairs) = {AboutPair(Pair(k)) : k \in SharedKeys}
           /\ \A k \in SharedKeys :
                  LET q == AboutPair(Pair(k)) IN
                  /\ q.key = k /\ q.from = "pair"
                  /\ q.category \in {"resolvable", "ambiguous"}
                  /\ q.category = "ambiguous" => q.expected = None
<1>1. /\ pairs \in Seq(SharedPairs) /\ PairKeys = SharedKeys
      /\ \A k \in SharedKeys : ~Inconsistent(SpecFor(updates["a"], k), SpecFor(updates["b"], k))
  BY AskedFacts DEF Asked, PairsMade
<1>2. \A n \in DOMAIN pairs : pairs[n].key \in SharedKeys /\ pairs[n] = Pair(pairs[n].key)
  <2>1. ASSUME NEW n \in DOMAIN pairs
        PROVE  pairs[n].key \in SharedKeys /\ pairs[n] = Pair(pairs[n].key)
    <3>1. pairs[n] \in SharedPairs
      BY <1>1
    <3>2. PICK k \in SharedKeys : pairs[n] = Pair(k)
      BY <3>1 DEF SharedPairs
    <3> QED
      BY <3>2, PairKey
  <2> QED
    BY <2>1
<1>3. \A k \in SharedKeys : \E n \in DOMAIN pairs : pairs[n] = Pair(k)
  BY <1>1, <1>2 DEF PairKeys
<1>4. S!PairQuestions(pairs) = {AboutPair(pairs[n]) : n \in DOMAIN pairs}
  BY DEF S!PairQuestions, AboutPair
<1>5. S!PairQuestions(pairs) = {AboutPair(Pair(k)) : k \in SharedKeys}
  BY <1>2, <1>3, <1>4
<1>6. ASSUME NEW k \in SharedKeys
      PROVE  LET q == AboutPair(Pair(k)) IN
             /\ q.key = k /\ q.from = "pair"
             /\ q.category \in {"resolvable", "ambiguous"}
             /\ q.category = "ambiguous" => q.expected = None
  <2> DEFINE specA == SpecFor(updates["a"], k)
             specB == SpecFor(updates["b"], k)
             q == AboutPair(Pair(k))
  <2>1. /\ q.key = k /\ q.from = "pair" /\ q.expected = specA.gt
        /\ q.category = IF ConflictType(specA.type) = None THEN "resolvable" ELSE ConflictType(specA.type)
    BY DEF AboutPair, Pair, S!Question
  <2>2. ~Inconsistent(specA, specB)
    BY <1>1
  <2> HIDE DEF specA, specB, q
  <2>3. ConflictType(specA.type) \in {"resolvable", "ambiguous", None}
    BY DEF ConflictType
  <2>4. ConflictType(specA.type) = "ambiguous" /\ "ambiguous" # None => specA.type = "ambiguous_conflict"
    BY DEF ConflictType
  <2>5. specA.type = "ambiguous_conflict" => specA.gt = None
    BY <2>2 DEF Inconsistent
  <2>6. q.category = "ambiguous" => ConflictType(specA.type) = "ambiguous" /\ "ambiguous" # None
    BY <2>1
  <2>7. q.category \in {"resolvable", "ambiguous"}
    BY <2>1, <2>3
  <2>8. q.category = "ambiguous" => q.expected = None
    BY <2>1, <2>4, <2>5, <2>6
  <2> QED
    BY <2>1, <2>7, <2>8 DEF q
<1> QED
  BY <1>5, <1>6

\* A branch's question is about a key that it alone holds.
LEMMA BranchQuestion ==
    ASSUME Asked, NEW side \in Sides, NEW q \in S!BranchQuestions(SimulatedScenario, pairs, side)
    PROVE  /\ q = S!Question(q.key, Cur(side, q.key).value, "orthogonal", side)
           /\ q.from = side /\ q.category = "orthogonal" /\ q.expected = Cur(side, q.key).value
           /\ q.key \in Touched(updates[side]) /\ q.key \notin SharedKeys
           /\ \A s \in Sides : q.key \in KeysOf(Facts(s)) <=> s = side
<1>1. /\ SimulatedScenario.root = root
      /\ Facts(side) = IF side = "a" THEN SimulatedScenario.a ELSE SimulatedScenario.b
      /\ \A s \in Sides : KeysOf(Facts(s)) = KeysOf(root) \cup Touched(updates[s])
  BY AskedFacts DEF SimulatedScenario, Sides
<1>2. PICK k \in KeysOf(Facts(side)) \ (PairKeys \cup KeysOf(root)) :
          q = S!Question(k, Cur(side, k).value, "orthogonal", side)
  BY <1>1, SameOperators DEF S!BranchQuestions, PairKeys, Cur
<1>3. /\ q.key = k /\ q.from = side /\ q.category = "orthogonal"
      /\ q.expected = Cur(side, k).value
  BY <1>2 DEF S!Question
<1>4. PairKeys = SharedKeys
  BY AskedFacts DEF Asked, PairsMade
<1>5. k \in Touched(updates[side]) /\ k \notin SharedKeys /\ k \notin KeysOf(root)
  BY <1>1, <1>2, <1>4
<1>6. \A s \in Sides : s # side => k \notin Touched(updates[s])
  BY <1>5 DEF SharedKeys, Sides
<1> QED
  BY <1>1, <1>2, <1>3, <1>5, <1>6

\* Every question is a pair's or a branch's.
LEMMA QuestionOrigin ==
    ASSUME Asked
    PROVE  questions = S!PairQuestions(pairs)
                           \cup UNION {S!BranchQuestions(SimulatedScenario, pairs, side) : side \in Sides}
<1>1. questions = S!Questions(SimulatedScenario, pairs)
  BY DEF Asked, BenchInv
<1> QED
  BY <1>1 DEF S!Questions, Sides

\* OneQuestionPerKey: whatever the streams, no key is asked about twice, and a
\* collision is asked about exactly when both streams touched its key.
THEOREM QuestionsDistinct == BenchSpec => []OneQuestionPerKey
<1>1. Asked => OneQuestionPerKey
  <2> SUFFICES ASSUME Asked PROVE OneQuestionPerKey
    OBVIOUS
  <2> DEFINE PQ == S!PairQuestions(pairs)
             BQ(side) == S!BranchQuestions(SimulatedScenario, pairs, side)
  <2>1. \A q \in questions : q \in PQ \/ \E side \in Sides : q \in BQ(side)
    BY QuestionOrigin
  <2>2. PQ \subseteq questions
    BY QuestionOrigin
  <2>3. ASSUME NEW q \in PQ PROVE q.key \in SharedKeys /\ q = AboutPair(Pair(q.key))
    BY <2>3, PairQuestion
  <2>4. ASSUME NEW side \in Sides, NEW q \in BQ(side)
        PROVE  /\ q = S!Question(q.key, Cur(side, q.key).value, "orthogonal", side)
               /\ q.key \in Touched(updates[side]) /\ q.key \notin SharedKeys
               /\ \A s \in Sides : q.key \in KeysOf(Facts(s)) <=> s = side
    BY <2>4, BranchQuestion
  <2>5. \A k \in SharedKeys : \E q \in PQ : q.key = k
    BY PairQuestion
  <2> HIDE DEF PQ, BQ
  <2>6. ASSUME NEW p \in questions, NEW q \in questions, p.key = q.key PROVE p = q
    <3>1. CASE p \in PQ
      BY <2>1, <2>3, <2>4, <2>6, <3>1
    <3>2. CASE p \notin PQ
      <4>1. PICK s \in Sides : p \in BQ(s)
        BY <2>1, <3>2
      <4>2. PICK t \in Sides : q \in BQ(t)
        BY <2>1, <2>3, <2>4, <2>6, <4>1
      <4>3. p.key \in KeysOf(Facts(s)) /\ s = t
        BY <2>4, <2>6, <4>1, <4>2
      <4> QED
        BY <2>4, <2>6, <4>1, <4>2, <4>3
    <3> QED
      BY <3>1, <3>2
  <2>7. ASSUME NEW k \in Collisions(scenario.a, scenario.b)
        PROVE  (\E q \in questions : q.key = k) <=> k \in SharedKeys
    <3>1. \A s \in Sides : k \in KeysOf(Facts(s))
      BY <2>7 DEF Collisions, CurrentFacts, Facts, Sides
    <3>2. ASSUME NEW q \in questions, q.key = k PROVE k \in SharedKeys
      <4>1. ASSUME NEW side \in Sides, q \in BQ(side) PROVE FALSE
        <5>1. \A s \in Sides : s = side
          BY <2>4, <3>1, <3>2, <4>1
        <5> QED
          BY <5>1 DEF Sides
      <4> QED
        BY <2>1, <2>3, <3>2, <4>1
    <3> QED
      BY <2>2, <2>5, <3>2
  <2>8. ASSUME NEW q \in questions
        PROVE  q.key \in Touched(updates["a"]) \cup Touched(updates["b"])
    BY <2>1, <2>3, <2>4 DEF SharedKeys, Sides
  <2> QED
    BY <2>6, <2>7, <2>8 DEF OneQuestionPerKey
<1>2. ~(stage # "waiting") => OneQuestionPerKey
  BY DEF OneQuestionPerKey
<1> QED
  BY <1>1, <1>2, AskedAlways, PTL

-----------------------------------------------------------------------------
(* The scores.                                                              *)

\* score_downstream finds an entry for a key exactly if one survives; what it
\* finds is the current fact of a side, as the strategy allows.
LEMMA GotEntry ==
    ASSUME MergeInv, NEW k
    PROVE  /\ Survivors(resolved, k) = {} =>
                  S!Got(resolved, k) = [value |-> None, resolution |-> None]
           /\ Survivors(resolved, k) # {} => \E e \in ResolvedFact :
                  /\ EntryOK(e) /\ e.fact.key = k /\ e.resolution # "dropped"
                  /\ S!Got(resolved, k) = [value |-> e.fact.value, resolution |-> e.resolution]
<1> DEFINE entries == Survivors(resolved, k)
<1>1. Survivors(resolved, k) = {} => S!Got(resolved, k) = [value |-> None, resolution |-> None]
  BY SameOperators DEF S!Got
<1>2. ASSUME entries # {}
      PROVE  \E e \in ResolvedFact :
                 /\ EntryOK(e) /\ e.fact.key = k /\ e.resolution # "dropped"
                 /\ S!Got(resolved, k) = [value |-> e.fact.value, resolution |-> e.resolution]
  <2> DEFINE last == CHOOSE n \in entries : \A m \in entries : m <= n
  <2>1. resolved \in Seq(ResolvedFact)
    BY DEF MergeInv, MergeTyped
  <2>2. /\ Len(resolved) \in Nat /\ DOMAIN resolved = 1..Len(resolved)
        /\ \A n \in DOMAIN resolved : resolved[n] \in ResolvedFact
    BY <2>1
  <2>3. entries \in SUBSET (1..Len(resolved))
    BY <2>2 DEF Survivors
  <2> HIDE DEF entries
  <2>4. last \in entries
    BY <1>2, <2>2, <2>3, LastPosition
  <2>5. S!Got(resolved, k) =
            [value |-> resolved[last].fact.value, resolution |-> resolved[last].resolution]
    BY <1>2, SameOperators DEF S!Got, entries
  <2> HIDE DEF last
  <2>6. /\ resolved[last] \in ResolvedFact /\ EntryOK(resolved[last])
        /\ resolved[last].fact.key = k /\ resolved[last].resolution # "dropped"
    BY <2>2, <2>4 DEF entries, Survivors, MergeInv, Contents
  <2> QED
    BY <2>5, <2>6
<1> QED
  BY <1>1, <1>2

\* OrthogonalMeasuresLoss: whatever the streams and the strategy, a fact that
\* one side alone learned is answered wrongly exactly if its branch was dropped.
THEOREM OrthogonalIsLoss == BenchSpec => []OrthogonalMeasuresLoss
<1>1. ASSUME Asked, stage = "returned" PROVE OrthogonalMeasuresLoss
  <2> SUFFICES ASSUME NEW q \in S!InCategory(questions, {"orthogonal"})
               PROVE  ~Answered(q) <=> BranchLost /\ q.from = DiscardedSide(strategy, scenario)
    BY DEF OrthogonalMeasuresLoss
  <2>1. q \in questions /\ q.category = "orthogonal"
    BY DEF S!InCategory
  <2>2. q \notin S!PairQuestions(pairs)
    BY <1>1, <2>1, PairQuestion
  <2>3. PICK side \in Sides : q \in S!BranchQuestions(SimulatedScenario, pairs, side)
    BY <1>1, <2>1, <2>2, QuestionOrigin
  <2> DEFINE k == q.key
  <2>4. /\ q.from = side /\ q.expected = Cur(side, k).value
        /\ \A s \in Sides : k \in KeysOf(Facts(s)) <=> s = side
    BY <1>1, <2>3, BranchQuestion
  <2> HIDE DEF k
  <2>5. MergeInv /\ ScenarioOK(scenario)
    BY <1>1, AskedFacts
  <2>6. k \in KeysOf(Facts(side)) /\ k \in AllKeys(scenario)
    BY <2>4, <2>5, SideOK
  <2>7. q.expected \in Values /\ q.expected # None
    <3>1. Cur(side, k) \in Fact
      BY <2>5, <2>6, SideOK
    <3> QED
      BY <2>4, <3>1, NoneAssumption DEF Fact
  <2>8. k \notin Collide
    <3>1. ~InBoth(k)
      BY <2>4, <2>5, <2>6, KeySides DEF Sides
    <3> QED
      BY <2>5, <2>6, <3>1, KeySides
  <2>9. BranchLost <=> WholeBranchDiscarded
    BY DEF BranchLost, WholeBranchDiscarded, Collide, CollisionsOf
  <2>10. k \in Waiting <=> WholeBranchDiscarded /\ side = Discarded
    <3>1. k \in KeysOf(Facts(Kept)) <=> side = Kept
      BY <2>4, OtherSide
    <3>2. side = Kept <=> side # Discarded
      BY OtherSide
    <3> QED
      BY <1>1, <2>6, <3>1, <3>2 DEF Waiting
  <2>11. CASE k \in Waiting
    <3>1. strategy # "naive_concat"
      BY <2>10, <2>11 DEF WholeBranchDiscarded, Discarding
    <3>2. Survivors(resolved, k) = {}
      BY <2>5, <2>6, <2>11, <3>1 DEF MergeInv, ServedOnce
    <3>3. S!Got(resolved, k).value = None
      BY <2>5, <3>2, GotEntry
    <3>4. ~Answered(q)
      BY <2>7, <3>3 DEF Answered, S!Correct, k
    <3> QED
      BY <2>4, <2>9, <2>10, <2>11, <3>4 DEF Discarded
  <2>12. CASE k \notin Waiting
    <3>1. Survivors(resolved, k) # {}
      BY <2>5, <2>6, <2>12 DEF MergeInv, Served
    <3>2. PICK e \in ResolvedFact :
              /\ EntryOK(e) /\ e.fact.key = k /\ e.resolution # "dropped"
              /\ S!Got(resolved, k) = [value |-> e.fact.value, resolution |-> e.resolution]
      BY <2>5, <3>1, GotEntry
    <3>3. e.fact = Cur(side, k) /\ e.resolution # "flagged_unresolved"
      BY <2>4, <2>8, <3>2 DEF EntryOK
    <3>4. S!Got(resolved, k).value = q.expected /\ ~S!Flagged(q, resolved)
      BY <2>4, <3>2, <3>3 DEF S!Flagged, k
    <3>5. Answered(q)
      BY <2>7, <3>4 DEF Answered, S!Correct, k
    <3> QED
      BY <2>4, <2>9, <2>10, <2>12, <3>5 DEF Discarded
  <2> QED
    BY <2>11, <2>12
<1>2. (stage # "waiting" => Asked) => OrthogonalMeasuresLoss
  BY <1>1 DEF OrthogonalMeasuresLoss
<1> QED
  BY <1>2, AskedAlways, PTL

\* A pair's key has an entry after every merge, and it is flagged exactly in a
\* tie of the confidence rule.
LEMMA PairAnswered ==
    ASSUME Asked, stage = "returned", NEW q \in S!PairQuestions(pairs)
    PROVE  /\ S!Got(resolved, q.key).resolution \in Resolutions
           /\ S!Flagged(q, resolved) <=>
                  /\ strategy = "confidence_rule" /\ q.key \in Collide
                  /\ Cur("a", q.key).conf = Cur("b", q.key).conf
<1> DEFINE k == q.key
<1>1. MergeInv /\ ScenarioOK(scenario)
  BY AskedFacts
<1>2. k \in SharedKeys
  BY PairQuestion
<1> HIDE DEF k
<1>3. \A s \in Sides : k \in KeysOf(Facts(s))
  BY <1>2, AskedFacts DEF SharedKeys, Sides
<1>4. k \in AllKeys(scenario) /\ k \notin Waiting
  <2>1. k \in AllKeys(scenario)
    BY <1>3 DEF AllKeys, Facts, Sides
  <2> QED
    BY <1>3, <2>1, OtherSide DEF Waiting
<1>5. PICK e \in ResolvedFact :
          /\ EntryOK(e) /\ e.fact.key = k /\ e.resolution # "dropped"
          /\ S!Got(resolved, k) = [value |-> e.fact.value, resolution |-> e.resolution]
  BY <1>1, <1>4, GotEntry DEF MergeInv, Served
<1>6. S!Got(resolved, k).resolution = e.resolution /\ e.resolution \in Resolutions
  BY <1>5 DEF ResolvedFact
<1>7. e.resolution = "flagged_unresolved" <=>
          strategy = "confidence_rule" /\ k \in Collide /\ Cur("a", k).conf = Cur("b", k).conf
  BY <1>5 DEF EntryOK
<1> QED
  BY <1>6, <1>7 DEF S!Flagged, k

\* AmbiguousNeedsFlag: whatever the streams, an ambiguous question is answered
\* by the ties of the confidence rule alone.
THEOREM AmbiguousIsFlagged == BenchSpec => []AmbiguousNeedsFlag
<1>1. ASSUME Asked, stage = "returned" PROVE AmbiguousNeedsFlag
  <2> SUFFICES ASSUME NEW q \in S!InCategory(questions, {"ambiguous"})
               PROVE  Answered(q) <=>
                          /\ strategy = "confidence_rule"
                          /\ q.key \in Collisions(scenario.a, scenario.b)
                          /\ CurrentFact(scenario.a, q.key).conf = CurrentFact(scenario.b, q.key).conf
    BY DEF AmbiguousNeedsFlag
  <2>1. q \in questions /\ q.category = "ambiguous"
    BY DEF S!InCategory
  <2>2. \A side \in Sides : q \notin S!BranchQuestions(SimulatedScenario, pairs, side)
    BY <1>1, <2>1, BranchQuestion
  <2>3. q \in S!PairQuestions(pairs)
    BY <1>1, <2>1, <2>2, QuestionOrigin
  <2>4. q.expected = None
    BY <1>1, <2>1, <2>3, PairQuestion
  <2>5. Answered(q) <=> S!Flagged(q, resolved)
    BY <2>4 DEF Answered, S!Correct
  <2> QED
    BY <1>1, <2>3, <2>5, PairAnswered DEF Collide, CollisionsOf, Cur, Facts
<1>2. (stage # "waiting" => Asked) => AmbiguousNeedsFlag
  BY <1>1 DEF AmbiguousNeedsFlag
<1> QED
  BY <1>2, AskedAlways, PTL

\* Two parts that share nothing count for the whole.
LEMMA PartsCount ==
    ASSUME NEW T, IsFiniteSet(T), NEW A, NEW B, T = A \cup B, A \cap B = {}
    PROVE  Cardinality(T) = Cardinality(A) + Cardinality(B)
<1>1. IsFiniteSet(A) /\ IsFiniteSet(B) /\ Cardinality(A) \in Nat /\ Cardinality(B) \in Nat
  BY FS_Subset, FS_CardinalityType
<1>2. Cardinality(A \cup B) = Cardinality(A) + Cardinality(B) - Cardinality(A \cap B)
  BY <1>1, FS_Union
<1>3. Cardinality(A \cap B) = 0
  BY FS_EmptySet
<1> QED
  BY <1>1, <1>2, <1>3

\* MetricsAgree: whatever the streams and the strategy, every question in scope
\* is addressed and the two counts of the published metrics agree.
THEOREM MetricsDoAgree == BenchSpec => []MetricsAgree
<1>1. ASSUME Asked, stage = "returned" PROVE MetricsAgree
  <2> DEFINE PQ == S!PairQuestions(pairs)
             rows == S!InCategory(questions, S!InScope)
             committed == {q \in rows : ~S!Flagged(q, resolved)}
             flagged == {q \in rows : S!Flagged(q, resolved)}
             right == {q \in committed : S!Correct(q, resolved)}
             ambiguous == S!InCategory(questions, {"ambiguous"})
             resolvable == S!InCategory(questions, {"resolvable"})
             correct == {q \in rows : S!Correct(q, resolved)}
  <2>1. rows \subseteq PQ /\ rows = ambiguous \cup resolvable /\ ambiguous \cap resolvable = {}
    <3>1. \A side \in Sides : \A q \in S!BranchQuestions(SimulatedScenario, pairs, side) :
              q.category = "orthogonal"
      BY <1>1, BranchQuestion
    <3>2. rows \subseteq PQ
      BY <1>1, <3>1, QuestionOrigin DEF S!InCategory, S!InScope
    <3> QED
      BY <3>2 DEF S!InCategory, S!InScope
  <2>2. \A q \in rows : S!Got(resolved, q.key).resolution # None
    BY <1>1, <2>1, PairAnswered, ResolutionsAssumption
  <2>3. \A q \in ambiguous : q.expected = None
    BY <1>1, <2>1, PairQuestion DEF S!InCategory
  <2>4. IsFiniteSet(PQ)
    <3> DEFINE f == [n \in DOMAIN pairs |-> AboutPair(pairs[n])]
    <3>1. PQ = {AboutPair(pairs[n]) : n \in DOMAIN pairs}
      BY DEF S!PairQuestions, AboutPair
    <3>2. f \in [DOMAIN pairs -> PQ] /\ \A q \in PQ : \E n \in DOMAIN pairs : f[n] = q
      BY <3>1
    <3> HIDE DEF f, PQ
    <3>3. f \in Surjection(DOMAIN pairs, PQ)
      BY <3>2 DEF Surjection
    <3>4. pairs \in Seq(SharedPairs)
      BY <1>1, AskedFacts DEF Asked, PairsMade
    <3>5. DOMAIN pairs = 1..Len(pairs) /\ Len(pairs) \in Int /\ 1 \in Int
      BY <3>4
    <3>6. IsFiniteSet(DOMAIN pairs)
      BY <3>5, FS_Interval
    <3> QED
      BY <3>3, <3>6, FS_Surjection
  <2>5. IsFiniteSet(rows)
    BY <2>1, <2>4, FS_Subset
  <2>6. \A q : S!Correct(q, resolved) <=>
            \/ q.expected = None /\ S!Flagged(q, resolved)
            \/ q.expected # None /\ S!Got(resolved, q.key).value = q.expected /\ ~S!Flagged(q, resolved)
    BY DEF S!Correct
  <2>7. /\ \A q \in rows : q \in committed \/ q \in flagged
        /\ committed \cap flagged = {} /\ rows = committed \cup flagged
    OBVIOUS
  <2> DEFINE ambiguousFlagged == {q \in ambiguous : S!Flagged(q, resolved)}
             othersFlagged == {q \in rows \ ambiguous : S!Flagged(q, resolved)}
             resolvableRight == {q \in resolvable : S!Correct(q, resolved)}
             ambiguousRight == {q \in ambiguous : S!Correct(q, resolved)}
             abstained == {q \in rows : q.expected = None /\ S!Flagged(q, resolved)}
  <2>8. flagged = ambiguousFlagged \cup othersFlagged /\ ambiguousFlagged \cap othersFlagged = {}
    BY <2>1
  <2>9. ambiguousRight = ambiguousFlagged
    BY <2>3, <2>6
  <2>10. correct = resolvableRight \cup ambiguousRight /\ resolvableRight \cap ambiguousRight = {}
    BY <2>1
  <2>11. correct = right \cup abstained /\ right \cap abstained = {}
    BY <2>6
  <2>12. /\ Metrics.flagged = Cardinality(rows) - Cardinality(committed)
         /\ Metrics.correct_committed = Cardinality(right)
         /\ Metrics.ambiguous_flagged = Cardinality(ambiguousFlagged)
         /\ Metrics.others_flagged = Cardinality(othersFlagged)
    BY SameOperators DEF Metrics, S!Abstention
  <2>13. /\ Score("ambiguous").correct = Cardinality(ambiguousRight)
         /\ Score("resolvable").correct = Cardinality(resolvableRight)
    BY SameOperators DEF Score, S!Score
  <2>14. IsFiniteSet(flagged) /\ IsFiniteSet(correct) /\ IsFiniteSet(committed)
    BY <2>5, FS_Subset
  <2> HIDE DEF rows, committed, flagged, right, ambiguous, resolvable, correct, PQ,
               ambiguousFlagged, othersFlagged, resolvableRight, ambiguousRight, abstained
  <2>15. /\ Cardinality(rows) = Cardinality(committed) + Cardinality(flagged)
         /\ Cardinality(flagged) = Cardinality(ambiguousFlagged) + Cardinality(othersFlagged)
         /\ Cardinality(correct) = Cardinality(resolvableRight) + Cardinality(ambiguousRight)
         /\ Cardinality(correct) = Cardinality(right) + Cardinality(abstained)
    <3>1. Cardinality(rows) = Cardinality(committed) + Cardinality(flagged)
      BY <2>5, <2>7, PartsCount
    <3>2. Cardinality(flagged) = Cardinality(ambiguousFlagged) + Cardinality(othersFlagged)
      BY <2>8, <2>14, PartsCount
    <3>3. Cardinality(correct) = Cardinality(resolvableRight) + Cardinality(ambiguousRight)
      BY <2>10, <2>14, PartsCount
    <3>4. Cardinality(correct) = Cardinality(right) + Cardinality(abstained)
      BY <2>11, <2>14, PartsCount
    <3> QED
      BY <3>1, <3>2, <3>3, <3>4
  <2>16. Cardinality(committed) \in Nat /\ Cardinality(flagged) \in Nat
    BY <2>14, FS_CardinalityType
  <2>17. Metrics.flagged = Metrics.ambiguous_flagged + Metrics.others_flagged
    BY <2>12, <2>15, <2>16
  <2>18. Score("ambiguous").correct = Metrics.ambiguous_flagged
    BY <2>9, <2>12, <2>13
  <2>19. Score("resolvable").correct + Score("ambiguous").correct
             = Metrics.correct_committed + Cardinality(abstained)
    BY <2>12, <2>13, <2>15
  <2> QED
    BY <1>1, <2>2, <2>17, <2>18, <2>19 DEF MetricsAgree, rows, abstained
<1>2. (stage # "waiting" => Asked) => MetricsAgree
  BY <1>1 DEF MetricsAgree
<1> QED
  BY <1>2, AskedAlways, PTL

=============================================================================
