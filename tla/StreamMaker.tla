---------------------------- MODULE StreamMaker ----------------------------
(***************************************************************************)
(* What the scenario generators have in common: each makes an ancestor,    *)
(* collects a list of updates for either side and hands them to            *)
(* BranchSimulator.diverge.  Their modules extend this one and say which   *)
(* updates they make.                                                      *)
(***************************************************************************)
EXTENDS BranchSim

\* "ancestor", "updates", "diverge", "no scenario", "out of keys", "out of values"
VARIABLE phase

ASSUME AncestorAssumption == AncestorTime = 0

MakerInit ==
    /\ root = <<>>
    /\ updates = [s \in Sides |-> <<>>]
    /\ applied = [s \in Sides |-> {}]
    /\ facts = [s \in Sides |-> <<>>]
    /\ pc = "fork"
    /\ unchecked = {}
    /\ pairs = <<>>
    /\ phase = "ancestor"

simVars == <<applied, facts, pc, unchecked, pairs>>

MakeAncestor(contents) ==
    /\ phase = "ancestor"
    /\ root' = AncestorFacts(contents, AncestorTime)
    /\ UNCHANGED simVars

Update(k, v, ts, conf, type, gt) ==
    [key |-> k, value |-> v, ts |-> ts, conf |-> conf, type |-> type, gt |-> gt]

\* updates_a.append and updates_b.append.
Extend(side, u) == updates' = [updates EXCEPT ![side] = Append(@, u)]
ExtendBoth(uA, uB) ==
    updates' = [s \in Sides |-> Append(updates[s], IF s = "a" THEN uA ELSE uB)]

\* The call of diverge, with the lists as they are.
Simulate == phase = "diverge" /\ Next /\ UNCHANGED phase
=============================================================================
