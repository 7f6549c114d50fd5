------------------------- MODULE ScenarioGenerator -------------------------
(***************************************************************************)
(* ScenarioGenerator._generate_one: one synthetic scenario, one iteration  *)
(* of its four loops at a time.  Random draws are choices; a draw compared *)
(* with a probability p is a free choice unless p is 0 or 1.  Keys are the *)
(* (entity, predicate) pairs of the entities that were sampled.            *)
(***************************************************************************)
EXTENDS StreamMaker, Functions

CONSTANTS
    Objective, Subjective,  \* keys whose predicate is objective, subjective
    Pool,                   \* the template's values for each key's predicate
    Times,                  \* timestamps 1.0 + divergence_span * uniform(0.1, 1.0)
    Configs                 \* the ScenarioConfigs to generate from

Odds == {"never", "sometimes", "always"}

\* ScenarioConfig; correlates is timestamp_correlates_with_correctness and
\* noise is source_signal_noise.
Config == [ancestor : Nat, orthogonal_a : Nat, orthogonal_b : Nat,
           resolvable : Nat, ambiguous : Nat, correlates : Odds, noise : Odds]

ASSUME GeneratorAssumption ==
    /\ Objective \cap Subjective = {} /\ Objective \cup Subjective = Keys /\ IsFiniteSet(Keys)
    /\ Pool \in [Keys -> SUBSET Values] /\ \A k \in Keys : Pool[k] # {}
    /\ Times \subseteq Nat /\ \A t \in Times : t > AncestorTime
    /\ Configs \subseteq Config

VARIABLES
    config,  \* the ScenarioConfig in use
    left     \* iterations of the four loops still to do, in order

synthVars == <<config, left>>

\* Confidence of an update sourced from the user, inferred, or observed.
User == 95
Inferred == 55
Observed == 70

-----------------------------------------------------------------------------
(* used_keys and consumed_ancestor_keys follow from what was made so far.   *)

used_keys == KeysOf(root) \cup Touched(updates["a"]) \cup Touched(updates["b"])
consumed == SharedKeys

\* _sample_new_key
NewKeys(predicates) == predicates \ used_keys

\* Mutant of ReusableKeys: the early version that took no key already in use.
ReusableUnused(predicates) == (KeysOf(root) \cap predicates) \ used_keys

\* Mutant of ReusableKeys: nothing is consumed.
ReusableTwice(predicates) == KeysOf(root) \cap predicates

ReusableKeys(predicates) == (KeysOf(root) \cap predicates) \ consumed

\* _sample_conflict_key
ConflictKeys(predicates) ==
    IF ReusableKeys(predicates) # {} THEN ReusableKeys(predicates) ELSE NewKeys(predicates)

\* The values of the pool other than the ancestor's.
Alternatives(k) ==
    {v \in Pool[k] : k \in KeysOf(root) => v # CurrentFact(root, k).value}

\* Mutant of ValuePairs: two draws, which may agree.
ValuePairsDrawn(k) == Alternatives(k) \X Alternatives(k)

\* rng.sample(pool, k=2), or the one value twice.
ValuePairs(k) ==
    {p \in Alternatives(k) \X Alternatives(k) : p[1] # p[2] \/ Alternatives(k) = {p[1]}}

\* The outcomes of rng.random() < p.
Draw(p) == {b \in BOOLEAN : (p = "never" => ~b) /\ (p = "always" => b)}

-----------------------------------------------------------------------------

Repeat(n, step) == [i \in 1..n |-> step]

SynthInit ==
    /\ config \in Configs
    /\ left = Repeat(config.orthogonal_a, "orthogonal_a")
                \o Repeat(config.orthogonal_b, "orthogonal_b")
                \o Repeat(config.resolvable, "resolvable")
                \o Repeat(config.ambiguous, "ambiguous")

SampleSize == IF config.ancestor <= Cardinality(Keys) THEN config.ancestor ELSE Cardinality(Keys)

\* _sample_keys: the first so many of the shuffled keys, or all of them.
SampleAncestor ==
    /\ phase = "ancestor"
    /\ \E order \in {f \in [1..SampleSize -> Keys] : IsInjective(f)} :
       \E value \in [1..SampleSize -> Values] :
           /\ \A i \in 1..SampleSize : value[i] \in Pool[order[i]]
           /\ MakeAncestor([i \in 1..SampleSize |-> [key |-> order[i], value |-> value[i]]])
    /\ phase' = "updates"
    /\ UNCHANGED <<updates, synthVars>>

Iteration(step) ==
    /\ phase = "updates"
    /\ left # <<>>
    /\ Head(left) = step

Made == left' = Tail(left) /\ UNCHANGED <<root, simVars, phase, config>>

\* A new key for one branch alone (_make_update).
AddOrthogonal(side) ==
    /\ Iteration(IF side = "a" THEN "orthogonal_a" ELSE "orthogonal_b")
    /\ \E k \in NewKeys(Keys) : \E v \in Pool[k], ts \in Times :
           Extend(side, Update(k, v, ts, Certain, "orthogonal", None))
    /\ Made

\* ground_truth: what the user-sourced branch says, the other's under noise.
Truth(aIsUser, noisy, values) == IF aIsUser = noisy THEN values[2] ELSE values[1]

\* One branch is sourced from the user, the other inferred.  correct_is_a is
\* the former, whatever the noise did to the truth.
AddResolvable ==
    /\ Iteration("resolvable")
    /\ \E k \in ConflictKeys(Objective) : \E values \in ValuePairs(k) :
       \E aIsUser \in BOOLEAN, noisy \in Draw(config.noise), aligned \in Draw(config.correlates) :
       \E earlier, later \in Times :
           /\ earlier <= later
           /\ ExtendBoth(
                  Update(k, values[1], IF aIsUser = aligned THEN later ELSE earlier,
                         IF aIsUser THEN User ELSE Inferred,
                         "resolvable_conflict", Truth(aIsUser, noisy, values)),
                  Update(k, values[2], IF aIsUser = aligned THEN earlier ELSE later,
                         IF aIsUser THEN Inferred ELSE User,
                         "resolvable_conflict", Truth(aIsUser, noisy, values)))
    /\ Made

AddAmbiguous ==
    /\ Iteration("ambiguous")
    /\ \E k \in ConflictKeys(Subjective) : \E values \in ValuePairs(k), tsA, tsB \in Times :
           ExtendBoth(Update(k, values[1], tsA, Observed, "ambiguous_conflict", None),
                      Update(k, values[2], tsB, Observed, "ambiguous_conflict", None))
    /\ Made

\* The keys the next iteration chooses from.
Candidates ==
    CASE Head(left) = "resolvable" -> ConflictKeys(Objective)
      [] Head(left) = "ambiguous" -> ConflictKeys(Subjective)
      [] OTHER -> NewKeys(Keys)

\* _sample_new_key raises ValueError.
RunOutOfKeys ==
    /\ phase = "updates" /\ left # <<>>
    /\ Candidates = {}
    /\ phase' = "out of keys"
    /\ UNCHANGED <<root, updates, simVars, synthVars>>

\* pool[0] of an empty pool raises IndexError.
RunOutOfValues ==
    /\ phase = "updates" /\ left # <<>>
    /\ Head(left) \in {"resolvable", "ambiguous"}
    /\ \E k \in Candidates : Alternatives(k) = {}
    /\ phase' = "out of values"
    /\ UNCHANGED <<root, updates, simVars, synthVars>>

CallDiverge ==
    /\ phase = "updates" /\ left = <<>>
    /\ phase' = "diverge"
    /\ UNCHANGED <<root, updates, simVars, synthVars>>

SynthNext ==
    \/ SampleAncestor
    \/ \E side \in Sides : AddOrthogonal(side)
    \/ AddResolvable \/ AddAmbiguous
    \/ RunOutOfKeys \/ RunOutOfValues
    \/ CallDiverge
=============================================================================
