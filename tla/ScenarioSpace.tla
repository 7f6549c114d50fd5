--------------------------- MODULE ScenarioSpace ---------------------------
(***************************************************************************)
(* The scenarios the merge models are checked on: every one the simulator  *)
(* makes of a small ancestor and at most two updates a side, each stream   *)
(* in the order of its timestamps.                                         *)
(***************************************************************************)
EXTENDS Memory, SequencesExt

Update(k, v, t, c) == [key |-> k, value |-> v, ts |-> t, conf |-> c]

InTimeOrder(stream) == \A i \in 1..(Len(stream) - 1) : stream[i].ts <= stream[i + 1].ts

StreamsOver(updates, maxLen) == {s \in BoundedSeq(updates, maxLen) : InTimeOrder(s)}

Grown(root, side, stream) ==
    FoldLeft(LAMBDA facts, u : Updated(facts, side, u), ForkedFacts(root, side), stream)

ScenariosOver(ancestors, streams) ==
    {[root |-> AncestorFacts(p, 0),
      a |-> Grown(AncestorFacts(p, 0), "a", sa),
      b |-> Grown(AncestorFacts(p, 0), "b", sb)] :
        p \in ancestors, sa \in streams, sb \in streams}
=============================================================================
