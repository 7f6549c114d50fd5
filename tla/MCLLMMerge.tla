---------------------------- MODULE MCLLMMerge ----------------------------
(***************************************************************************)
(* Three keys: 1 is in the ancestor, 2 is not, 3 is only ever settled.     *)
(* v3 is a value no branch holds.  Replies have at most two items, among   *)
(* them malformed ones, duplicates and answers about key 3.                *)
(***************************************************************************)
EXTENDS LLMMerge, ScenarioSpace

CONSTANTS v1, v2, v3

MCUpdates == {Update(1, v1, 1, Certain), Update(1, v2, 1, 70),
              Update(2, v1, 1, Certain), Update(2, v2, 2, Certain)}

MCAncestors == {<<[key |-> 1, value |-> v1], [key |-> 3, value |-> v1]>>}

MCScenarios == ScenariosOver(MCAncestors, StreamsOver(MCUpdates, 2))

Said(k, r, v, j) == [key |-> k, resolution |-> r, value |-> v, just |-> j]

MCItems ==
    {Said(1, r, v, "text") : r \in {"kept_from_a", "kept_from_b"}, v \in {v1, v2}}
        \cup {Said(1, "merged", v3, "text"), Said(1, "kept_from_a", None, "text"),
              Said(1, "flagged_unresolved", v1, "null"), Said(1, "flagged_unresolved", None, "object"), Said(1, "kept_from_a", v1, "null")}
        \cup {Said(2, "kept_from_b", v2, "text"), Said(2, "merged", v3, "null")}
        \cup {Said(3, "merged", v3, "text"), Said(None, "merged", v3, "text")}

MCReplies ==
    [form : {"garbage", "not a list"}, items : {<<>>}]
        \cup [form : {"list"}, items : BoundedSeq(MCItems, 2)]
=============================================================================
