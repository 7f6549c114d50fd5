----------------------------- MODULE Generators ----------------------------
(***************************************************************************)
(* The three scenario generators over the simulator they call: what they   *)
(* make goes through diverge, and a scenario is what diverge returns.      *)
(* A scenario comes from one generator, its source.                        *)
(***************************************************************************)
EXTENDS ScenarioGenerator, SemanticResolvable, MabExtension

CONSTANT Sources
ASSUME SourcesAssumption ==
    Sources \subseteq {"synthetic", "semantic_resolvable", "mab_extension"}

VARIABLE source

genVars == <<vars, phase, synthVars, template, mabVars, source>>

GenInit ==
    /\ MakerInit
    /\ source \in Sources
    /\ IF source = "synthetic" THEN SynthInit ELSE config = None /\ left = <<>>
    /\ IF source = "semantic_resolvable" THEN template \in Templates ELSE template = None
    /\ IF source = "mab_extension" THEN MabInit
       ELSE row = <<>> /\ conflict_keys = {} /\ visited = 0

Generate ==
    \/ /\ source = "synthetic" /\ SynthNext
       /\ UNCHANGED <<template, mabVars>>
    \/ /\ source = "semantic_resolvable" /\ FillTemplate
       /\ UNCHANGED <<synthVars, mabVars>>
    \/ /\ source = "mab_extension" /\ MabNext
       /\ UNCHANGED <<synthVars, template>>

GenNext ==
    \/ Generate /\ UNCHANGED source
    \/ Simulate /\ UNCHANGED <<synthVars, template, mabVars, source>>

GenSpec == GenInit /\ [][GenNext]_genVars

-----------------------------------------------------------------------------

PairsOf(type) == {n \in DOMAIN pairs : pairs[n].type = type}
OnlyOn(side) == Touched(updates[side]) \ SharedKeys
Now(side, k) == CurrentFact(facts[side], k)

\* Whatever was drawn, diverge accepts the streams and the scenario is the mix
\* that was asked for: so many conflicts of each kind, all of them on keys of
\* their own, and so many keys that one branch alone has touched.
DivergesAsConfigured ==
    /\ pc # "raised"
    /\ pc = "returned" =>
           /\ source = "synthetic" =>
                  /\ Cardinality(PairsOf("resolvable")) = config.resolvable
                  /\ Cardinality(PairsOf("ambiguous")) = config.ambiguous
                  /\ Cardinality(OnlyOn("a")) = config.orthogonal_a
                  /\ Cardinality(OnlyOn("b")) = config.orthogonal_b
                  /\ (OnlyOn("a") \cup OnlyOn("b")) \cap KeysOf(root) = {}
           /\ source # "synthetic" => PairsOf("resolvable") = DOMAIN pairs
           /\ PairsOf(None) = {}

\* A declared conflict is one the merges will meet: the two branches disagree on
\* the key.  The exceptions are a template that leaves one alternative to the
\* ancestor's value and a chain that states one value twice.
ConflictsCollide ==
    pc = "returned" => \A n \in DOMAIN pairs :
        LET k == pairs[n].key IN
        k \notin Collisions(facts["a"], facts["b"]) =>
            CASE source = "synthetic" -> Cardinality(Alternatives(k)) = 1
              [] source = "mab_extension" ->
                     \E i, j \in Edits(k) : i # j /\ row[i].value = row[j].value
              [] OTHER -> FALSE

\* A scorable conflict can be won, and only by what is meant to decide it: the
\* truth is on one of the branches; confidence points to it in a noiseless
\* synthetic scenario, and to nothing in an ambiguous or a semantic one.
SignalTellsTruth ==
    pc = "returned" => \A n \in DOMAIN pairs :
        LET factA == Now("a", pairs[n].key)
            factB == Now("b", pairs[n].key)
        IN  /\ pairs[n].type = "resolvable" => pairs[n].gt \in {factA.value, factB.value}
            /\ (source = "synthetic" /\ pairs[n].type = "resolvable") =>
                   /\ factA.conf # factB.conf
                   /\ config.noise = "never" =>
                          pairs[n].gt = IF factA.conf > factB.conf THEN factA.value ELSE factB.value
            /\ (pairs[n].type = "ambiguous" \/ source = "semantic_resolvable") =>
                   factA.conf = factB.conf
            /\ source = "semantic_resolvable" => pairs[n].gt = template.branch_b_value

\* Generation fails for lack of keys only under a configuration that asks for
\* too many: the ancestor's keys never count against the conflicts, since a
\* conflict either reuses one or takes a key that nothing else uses.
RaisesOnlyWhenExhausted ==
    phase = "out of keys" =>
        LET orthogonal == config.orthogonal_a + config.orthogonal_b IN
        \/ Cardinality(Keys) < config.ancestor + orthogonal
        \/ Cardinality(Objective) < orthogonal + config.resolvable
        \/ Cardinality(Subjective) < orthogonal + config.ambiguous

\* However a chain is split or completed, the truth is what the row states
\* last, and a key that was not picked as a conflict, or never restated, keeps
\* the row's first value on both branches.
EditsKeepMeaning ==
    (source = "mab_extension" /\ pc = "returned") =>
        /\ \A n \in DOMAIN pairs : pairs[n].gt = row[LastOf(Chain(pairs[n].key))].value
        /\ \A k \in KeysOf(row) : (k \notin conflict_keys \/ Edits(k) = {}) =>
               \A side \in Sides : Now(side, k).value = row[Least(Chain(k))].value

-----------------------------------------------------------------------------

\* The comment on chains with several edits: the halves are dealt at random so
\* that LastWriterWins is not rigged to win always.  So some way of dealing
\* makes the later side wrong, when the sides disagree at all.
LastWriterMayLose ==
    \A k \in conflict_keys : Cardinality(Edits(k)) >= 2 =>
        \/ \E split \in Splits(k) : split.a.value = split.b.value
        \/ \E split \in Splits(k) :
               LET last == IF split.a.ts >= split.b.ts THEN split.a ELSE split.b
               IN last.value # last.gt
=============================================================================
