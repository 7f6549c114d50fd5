-------------------------- MODULE MCStoredBranch --------------------------
(***************************************************************************)
(* One ancestor key.  A new fact on it ties with the ancestor's fact or is *)
(* later; a new fact on the other key may be the first there.  The first   *)
(* list scanned is empty; the others are the branches that are loaded.     *)
(***************************************************************************)
EXTENDS StoredBranch

CONSTANT v1

MCAncestor == <<[key |-> 1, value |-> v1]>>
MCNewFacts == {[key |-> x[1], value |-> v1, ts |-> x[2], conf |-> Certain] :
                   x \in {<<1, 0>>, <<1, 1>>, <<2, 0>>}}
MCInputs == {<<>>}
=============================================================================
