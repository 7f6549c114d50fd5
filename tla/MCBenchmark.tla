---------------------------- MODULE MCBenchmark ----------------------------
(***************************************************************************)
(* Key 1 is in the ancestor and key 2 is not.  Streams of at most two      *)
(* updates: on key 1 every declaration diverge tells apart, at the         *)
(* ancestor's own time and later; on key 2 ambiguous values at two times;  *)
(* and an orthogonal update of either.  Scenarios, the inputs of a merge   *)
(* that runs by itself, is empty: the simulator makes them.                *)
(***************************************************************************)
EXTENDS Benchmark, SequencesExt

CONSTANTS v1, v2

MCAncestors == {<<[key |-> 1, value |-> v1]>>}

Update(k, v, t, c, type, gt) ==
    [key |-> k, value |-> v, ts |-> t, conf |-> c, type |-> type, gt |-> gt]

MCUpdates ==
    {Update(1, x[1], 1, x[2], "resolvable_conflict", v2) :
            x \in {<<v1, 70>>, <<v1, Certain>>, <<v2, Certain>>}}
        \cup {Update(1, v2, 0, Certain, "resolvable_conflict", v2),
              Update(1, v1, 1, Certain, "resolvable_conflict", None),
              Update(1, v2, 1, Certain, "ambiguous_conflict", None),
              Update(1, v1, 1, Certain, "ambiguous_conflict", v2)}
        \cup {Update(2, v, t, Certain, "ambiguous_conflict", None) : v \in {v1, v2}, t \in {1, 2}}
        \cup {Update(k, v2, 2, Certain, "orthogonal", None) : k \in {1, 2}}

MCStreams == BoundedSeq(MCUpdates, 2)
=============================================================================
