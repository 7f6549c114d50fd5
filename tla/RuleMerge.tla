----------------------------- MODULE RuleMerge -----------------------------
(***************************************************************************)
(* The merge strategies that ask no model: LastWriterWins, NaiveConcat,    *)
(* BranchDiscard under its two policies, ConfidenceRuleMerge.  Each is one *)
(* or two loops over keys; a stage is a loop and todo the keys it has left.*)
(***************************************************************************)
EXTENDS MergeBase, FiniteSets

CONSTANT Scenarios
ASSUME ScenariosAssumption == \A sc \in Scenarios : ScenarioOK(sc)

Strategies == {"last_writer_wins", "naive_concat", "branch_discard_always_b",
               "branch_discard_fewer_updates", "confidence_rule"}
Discarding == {"branch_discard_always_b", "branch_discard_fewer_updates"}

VARIABLES
    strategy,   \* the MergeStrategy, and for BranchDiscard its policy
    scenario,   \* its arguments
    stage,      \* the loop it is in, or "returned"
    todo,       \* the keys that loop has left
    resolved    \* resulting_facts so far

mergeVars == <<strategy, scenario, stage, todo, resolved>>

Facts(side) == IF side = "a" THEN scenario.a ELSE scenario.b
Cur(side, k) == CurrentFact(Facts(side), k)
InBoth(k) == k \in KeysOf(scenario.a) \cap KeysOf(scenario.b)
Collide == CollisionsOf(scenario)

-----------------------------------------------------------------------------
(* BranchDiscard._pick_discard_branch counts the keys a branch holds.       *)

DiscardedSide(s, sc) ==
    IF \/ s = "branch_discard_always_b"
       \/ Cardinality(KeysOf(sc.b)) <= Cardinality(KeysOf(sc.a))
    THEN "b" ELSE "a"

KeptSide(s, sc) == IF DiscardedSide(s, sc) = "a" THEN "b" ELSE "a"

-----------------------------------------------------------------------------
(* The loops of each strategy, the keys of each loop, the order it takes.   *)

FirstStage(s, sc) ==
    CASE s = "last_writer_wins" -> "each key"
      [] s = "naive_concat"     -> "all of a"
      [] s = "confidence_rule"  -> "settled"
      [] OTHER -> IF CollisionsOf(sc) = {} THEN "union" ELSE "kept branch"

NextStage ==
    CASE stage = "all of a"    -> "all of b"
      [] stage = "settled"     -> "conflicts"
      [] stage = "kept branch" -> "discarded branch"
      [] OTHER -> "returned"

\* The branch whose dict the loop runs through, in insertion order; None if
\* the loop runs through sorted keys.
LoopSide(s, sc, st) ==
    CASE st = "all of a" -> "a"
      [] st = "all of b" -> "b"
      [] st = "kept branch" -> KeptSide(s, sc)
      [] st = "discarded branch" -> DiscardedSide(s, sc)
      [] OTHER -> None

StageKeys(s, sc, st) ==
    CASE st \in {"each key", "union"} -> AllKeys(sc)
      [] st = "settled" -> AllKeys(sc) \ CollisionsOf(sc)
      [] st = "conflicts" -> CollisionsOf(sc)
      [] st = "returned" -> {}
      [] OTHER -> IF LoopSide(s, sc, st) = "a" THEN KeysOf(sc.a) ELSE KeysOf(sc.b)

FirstListed(facts, K) ==
    facts[CHOOSE i \in DOMAIN facts :
              facts[i].key \in K /\ \A j \in 1..(i - 1) : facts[j].key \notin K].key

Key ==
    LET side == LoopSide(strategy, scenario, stage)
    IN IF side = None THEN Least(todo) ELSE FirstListed(Facts(side), todo)

-----------------------------------------------------------------------------

MergeInit ==
    /\ strategy \in Strategies
    /\ scenario \in Scenarios
    /\ stage = FirstStage(strategy, scenario)
    /\ todo = StageKeys(strategy, scenario, stage)
    /\ resolved = <<>>

InStage(st) == stage = st /\ todo # {}

\* One iteration: the entries appended for the key (none for a skip).
Emit(entries) ==
    /\ resolved' = resolved \o entries
    /\ todo' = todo \ {Key}
    /\ UNCHANGED <<strategy, scenario, stage>>

EndLoop ==
    /\ todo = {}
    /\ stage # "returned"
    /\ stage' = NextStage
    /\ todo' = StageKeys(strategy, scenario, stage')
    /\ UNCHANGED <<strategy, scenario, resolved>>

(* LastWriterWins *)

LWWAgree ==
    /\ InStage("each key")
    /\ InBoth(Key) /\ Key \notin Collide
    /\ Emit(<<Entry(Cur("a", Key), "kept", Sides)>>)

\* Mutant of LWWConflict: the loser is kept as well.
LWWConflictKeepsLoser ==
    /\ InStage("each key")
    /\ Key \in Collide
    /\ Emit(<<Entry(Cur("a", Key), "kept", {"a"}), Entry(Cur("b", Key), "kept", {"b"})>>)

LWWConflict ==
    /\ InStage("each key")
    /\ Key \in Collide
    /\ LET winner == IF Cur("a", Key).ts >= Cur("b", Key).ts THEN "a" ELSE "b"
           loser == IF winner = "a" THEN "b" ELSE "a"
       IN Emit(<<Entry(Cur(winner, Key), "kept", {winner}),
                    Entry(Cur(loser, Key), "dropped", {loser})>>)

\* Mutant of LWWOneSided: the loop over B's own keys is missing.
LWWOneSidedOnlyA ==
    /\ InStage("each key")
    /\ ~InBoth(Key)
    /\ Emit(IF Key \in KeysOf(scenario.a) THEN <<Entry(Cur("a", Key), "kept", {"a"})>> ELSE <<>>)

LWWOneSided ==
    /\ InStage("each key")
    /\ ~InBoth(Key)
    /\ LET side == IF Key \in KeysOf(scenario.a) THEN "a" ELSE "b"
       IN Emit(<<Entry(Cur(side, Key), "kept", {side})>>)

(* NaiveConcat *)

ConcatFact ==
    \E side \in Sides :
        /\ InStage(IF side = "a" THEN "all of a" ELSE "all of b")
        /\ Emit(<<Entry(Cur(side, Key), "kept", {side})>>)

(* BranchDiscard *)

DiscardNothing ==
    /\ InStage("union")
    /\ LET side == IF Key \in KeysOf(scenario.a) THEN "a" ELSE "b"
       IN Emit(<<Entry(Cur(side, Key), "kept", {side})>>)

DiscardKeep ==
    /\ InStage("kept branch")
    /\ LET side == KeptSide(strategy, scenario)
       IN Emit(<<Entry(Cur(side, Key), "kept", {side})>>)

\* Mutant of DiscardDrop: a key the kept branch has is not reported.
DiscardDropOwnKeys ==
    /\ InStage("discarded branch")
    /\ LET side == DiscardedSide(strategy, scenario)
       IN Emit(IF InBoth(Key) THEN <<>> ELSE <<Entry(Cur(side, Key), "dropped", {side})>>)

\* Mutant of DiscardDrop: the keys both branches hold with one value as well.
DiscardDropEverything ==
    /\ InStage("discarded branch")
    /\ LET side == DiscardedSide(strategy, scenario)
       IN Emit(<<Entry(Cur(side, Key), "dropped", {side})>>)

DiscardDrop ==
    /\ InStage("discarded branch")
    /\ IF InBoth(Key) /\ Key \notin Collide
       THEN Emit(<<>>)
       ELSE LET side == DiscardedSide(strategy, scenario)
            IN Emit(<<Entry(Cur(side, Key), "dropped", {side})>>)

(* ConfidenceRuleMerge *)

ConfidenceSettle ==
    /\ InStage("settled")
    /\ Emit(<<SettledEntry(scenario, Key)>>)

ConfidenceKeep ==
    /\ InStage("conflicts")
    /\ \E side \in Sides, other \in Sides :
           /\ Cur(side, Key).conf > Cur(other, Key).conf
           /\ Emit(<<Entry(Cur(side, Key), "kept", {side})>>)

ConfidenceTie ==
    /\ InStage("conflicts")
    /\ Cur("a", Key).conf = Cur("b", Key).conf
    /\ Emit(<<Entry(Cur("a", Key), "flagged_unresolved", Sides)>>)

MergeNext ==
    \/ LWWAgree \/ LWWConflict \/ LWWOneSided
    \/ ConcatFact
    \/ DiscardNothing \/ DiscardKeep \/ DiscardDrop
    \/ ConfidenceSettle \/ ConfidenceKeep \/ ConfidenceTie
    \/ EndLoop

MergeSpec == MergeInit /\ [][MergeNext]_mergeVars

-----------------------------------------------------------------------------

WholeBranchDiscarded == strategy \in Discarding /\ Collide # {}

\* A reader of kept_facts() finds one belief per key: every strategy that
\* reconciles answers each key of either branch exactly once, whichever loop
\* it fell in.  (NaiveConcat keeps both by design, BranchDiscard may lose keys
\* that only the discarded branch has.)
OneSurvivorPerKey ==
    (stage = "returned" /\ strategy # "naive_concat" /\ ~WholeBranchDiscarded) =>
        \A k \in AllKeys(scenario) : Cardinality(Survivors(resolved, k)) = 1

\* No current fact of a branch disappears unreported: it is in the result, as
\* kept, flagged or dropped, or the result keeps its value from the other
\* branch.  ConfidenceRuleMerge is the exception, for the facts that collide.
NothingSilentlyLost ==
    stage = "returned" => \A side \in Sides : \A k \in KeysOf(Facts(side)) :
        \/ strategy = "confidence_rule" /\ k \in Collide
        \/ \E n \in DOMAIN resolved :
               \/ resolved[n].fact = Cur(side, k)
               \/ /\ resolved[n].fact.key = k
                  /\ resolved[n].fact.value = Cur(side, k).value
                  /\ resolved[n].resolution = "kept"

\* BranchDiscard is all or nothing, like an aborted transaction: after a
\* collision the survivors are exactly the current facts of one branch, and
\* every fact reported as dropped is a loss: the survivors lack its value.
DiscardIsAtomic ==
    (stage = "returned" /\ WholeBranchDiscarded) =>
        /\ \E side \in Sides :
               {resolved[n].fact : n \in {m \in DOMAIN resolved : resolved[m].resolution = "kept"}}
                   = {Cur(side, k) : k \in KeysOf(Facts(side))}
        /\ \A m, n \in DOMAIN resolved :
               (resolved[m].resolution = "dropped" /\ resolved[n].resolution = "kept") =>
                   /\ resolved[m].fact.branch # resolved[n].fact.branch
                   /\ <<resolved[m].fact.key, resolved[m].fact.value>>
                          # <<resolved[n].fact.key, resolved[n].fact.value>>

\* The module doc of BranchDiscard: "fewer_updates" discards whichever branch
\* made fewer post-fork updates.  A branch's updates are the facts it holds
\* beyond the copy of the ancestor's.
DiscardsFewerUpdates ==
    (stage = "discarded branch" /\ strategy = "branch_discard_fewer_updates") =>
        Len(Facts(DiscardedSide(strategy, scenario))) - Len(scenario.root)
            <= Len(Facts(KeptSide(strategy, scenario))) - Len(scenario.root)
=============================================================================
