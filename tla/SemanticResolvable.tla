------------------------- MODULE SemanticResolvable ------------------------
(***************************************************************************)
(* generate_semantic_resolvable_scenarios, for one template: one conflict  *)
(* whose sides carry equal confidence, so that only the meaning of the     *)
(* texts tells which is right.  In every template it is branch_b_value.    *)
(***************************************************************************)
EXTENDS StreamMaker

CONSTANTS
    Templates,     \* the templates of the data file
    SemanticTimes  \* timestamps 1.0 + divergence_span * uniform(0.1, 1.0)

ASSUME TemplatesAssumption ==
    /\ Templates \subseteq [ancestor_key : Keys, ancestor_value : Values,
                            key : Keys, branch_a_value : Values, branch_b_value : Values]
    /\ \A t \in Templates : t.branch_a_value # t.branch_b_value
    /\ SemanticTimes \subseteq Nat /\ \A t \in SemanticTimes : t > AncestorTime

VARIABLE template

EqualConfidence == 70

\* Mutant of TruthText: the label is not swapped with the texts.
TruthTextUnswapped(swap) == IF swap THEN template.branch_a_value ELSE template.branch_b_value

\* correct_is_a = swap: the right text is on branch A exactly when swapped.
TruthText(swap) ==
    LET textA == IF swap THEN template.branch_b_value ELSE template.branch_a_value
        textB == IF swap THEN template.branch_a_value ELSE template.branch_b_value
    IN IF swap THEN textA ELSE textB

FillTemplate ==
    \E swap \in BOOLEAN, tsA, tsB \in SemanticTimes :
        LET textA == IF swap THEN template.branch_b_value ELSE template.branch_a_value
            textB == IF swap THEN template.branch_a_value ELSE template.branch_b_value
            conflict(text, ts) ==
                Update(template.key, text, ts, EqualConfidence, "resolvable_conflict", TruthText(swap))
        IN /\ MakeAncestor(<<[key |-> template.ancestor_key, value |-> template.ancestor_value]>>)
           /\ ExtendBoth(conflict(textA, tsA), conflict(textB, tsB))
           /\ phase' = "diverge"
           /\ UNCHANGED template
=============================================================================
