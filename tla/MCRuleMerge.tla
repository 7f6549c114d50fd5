---------------------------- MODULE MCRuleMerge ----------------------------
(* Two keys, two values, two timestamps after the fork, two confidences.    *)
EXTENDS RuleMerge, ScenarioSpace

CONSTANTS v1, v2

MCUpdates == {Update(k, x[1], x[2], x[3]) :
                  k \in Keys, x \in {<<v1, 1, Certain>>, <<v2, 1, 70>>, <<v2, 2, Certain>>}}

MCAncestors == {<<[key |-> 1, value |-> v1]>>,
                <<[key |-> 2, value |-> v2], [key |-> 1, value |-> v1]>>}

MCScenarios == ScenariosOver(MCAncestors, StreamsOver(MCUpdates, 2))
=============================================================================
