------------------------------ MODULE Scripts ------------------------------
(***************************************************************************)
(* The scripts of the repository as sequences of operations: what each asks *)
(* of a model, under which key of the cache directory they share, which     *)
(* result files it reads and writes, and in which order.  What a script     *)
(* computes without a model (strategies by rule, local detectors, scores,   *)
(* tests, plots) depends on nothing that can change and is left out.        *)
(***************************************************************************)
EXTENDS Naturals, SequencesExt

-----------------------------------------------------------------------------
(* Operations.                                                             *)

nano == "gpt-5.4-nano"
claude == "claude-haiku-4-5"

\* All that make_key hashes that differs between scripts: a prompt stands for
\* who asks it and for the scenario (or pair) it is about.
Question(model, tokens, who, scenario) ==
    [model |-> model, max_tokens |-> tokens, who |-> who, scenario |-> scenario]

Ask(q) == [do |-> "ask", q |-> q]          \* complete(prompt)
Repeat(q) == [do |-> "repeat", q |-> q]    \* complete(prompt, use_cache=False)

Check(file) == [do |-> "check", file |-> file]      \* read for its scenario ids
Copy(file) == [do |-> "copy", file |-> file]        \* read for its numbers
CopyIfThere(file) == [do |-> "copy_if_there", file |-> file]

\* Path.write_text opens the file, which truncates it, and then writes it.
Write(file) == <<[do |-> "truncate", file |-> file], [do |-> "write", file |-> file]>>

\* The loops over scenarios and, for each, over the strategies that ask a model.
Merges(model, tokens, scenarios, strategies) ==
    FlattenSeq([n \in DOMAIN scenarios |->
        [m \in DOMAIN strategies |-> Ask(Question(model, tokens, strategies[m], scenarios[n]))]])

\* The judge's loop over the pairs, of which the model keeps one per scenario.
Judgements(model, tokens, scenarios) == Merges(model, tokens, scenarios, <<"llm_judge">>)

\* run_full_benchmark: the strategies and then the detectors on each scenario.
RunFullBenchmark(model, tokens, scenarios) ==
    Merges(model, tokens, scenarios, <<"three_way_llm", "llm_judge">>)

-----------------------------------------------------------------------------
(* Scenarios, by the seed and the configuration that generate them.        *)

PilotSet == <<<<"seed 2026, span 8", 1>>, <<"seed 2026, span 8", 2>>>>
Span4 == <<<<"seed 2026, span 4", 1>>>>
LockedSet == Span4 \o <<<<"seed 2027, span 10", 1>>>>
PowerSet == <<<<"seed 2029, span 4", 1>>>>
ProxySet == <<<<"seed 5001", 1>>>>
SemanticSet == <<<<"seed 3001", 1>>>>
BalancedSet == <<<<"balanced pairs", 1>>>>

NoiseLevels == <<0, 15>>

\* Mutant of BuildScenarios: the noise takes part in what the prompts say.
ReshuffledByNoise(noise) == [n \in DOMAIN LockedSet |-> <<LockedSet[n][1], n + noise>>]

\* build_scenarios of the noise sweep: the noise changes ground truths only,
\* and a prompt tells none.
BuildScenarios(noise) == LockedSet

\* The first merge that is repeated, and the pair.
VarianceSet == SubSeq(PilotSet, 1, 1)

-----------------------------------------------------------------------------
(* Scripts.                                                                *)

Pilot ==
    Merges(nano, 1024, PilotSet, <<"three_way_llm">>)
        \o Judgements(nano, 1024, PilotSet)
        \o [n \in 1..2 |-> Repeat(Question(nano, 1024, "three_way_llm", VarianceSet[1]))]
        \o [n \in 1..2 |-> Repeat(Question(nano, 1024, "llm_judge", VarianceSet[1]))]
        \o <<[do |-> "census"]>>
        \o Write("pilot_summary.json")

\* write_results: once, after all scenarios.
WriteResults == Write("results.json") \o Write("results.csv")

Experiment ==
    RunFullBenchmark(nano, 1024, LockedSet) \o WriteResults \o Write("stats_output.json")

\* Mutant of RawTextAblation: the locked results are read when they are needed.
ReadsResultsLate ==
    Merges(nano, 8000, LockedSet, <<"raw_text_llm">>)
        \o <<Copy("results.json")>> \o Write("raw_text_ablation.json")

RawTextAblation ==
    <<Copy("results.json")>>
        \o Merges(nano, 8000, LockedSet, <<"raw_text_llm">>)
        \o Write("raw_text_ablation.json")

PowerExpansion ==
    <<Check("results.json")>>
        \o Merges(nano, 8000, PowerSet, <<"three_way_llm", "two_way_llm", "raw_text_llm">>)
        \o Write("resolvable_power_expansion.json")

NoiseSensitivity ==
    FlattenSeq([n \in DOMAIN NoiseLevels |->
        Merges(nano, 1024, BuildScenarios(NoiseLevels[n]), <<"three_way_llm">>)])
        \o Write("noise_sensitivity.json")

ProvenanceProxy ==
    Merges(nano, 1024, ProxySet, <<"three_way_llm">>) \o Write("provenance_proxy.json")

SemanticStrategies == <<"two_way_llm", "raw_text_llm", "three_way_llm">>

SemanticResolvableExperiment ==
    Merges(nano, 8000, SemanticSet, SemanticStrategies) \o Write("semantic_resolvable.json")

SemanticResolvableFailures ==
    Merges(nano, 8000, SemanticSet, <<"three_way_llm">>)
        \o Write("semantic_resolvable_failure_modes.json")

RQ2Drift ==
    Judgements(nano, 1024, PilotSet) \o Judgements(nano, 1024, LockedSet)
        \o Write("rq2_f1_bootstrap.json")

BalancedDetectors ==
    Judgements(nano, 1024, BalancedSet) \o Write("balanced_detector_benchmark.json")

AbstentionReport ==
    Merges(nano, 8000, LockedSet, <<"three_way_llm">>)
        \o <<Copy("abstention_adjusted_metric.json")>>
        \o Write("abstention_metrics_report.json")

CategoryBreakdown ==
    Merges(nano, 8000, LockedSet, <<"two_way_llm", "raw_text_llm">>)
        \o Write("category_breakdown_extra_strategies.json")

RiskCoverage ==
    <<Copy("abstention_metrics_report.json")>> \o Write("risk_coverage_frontier.json")

CrossVendorRQ1 ==
    RunFullBenchmark(claude, 1024, Span4)
        \o <<Copy("results.csv"), CopyIfThere("robustness_second_model.json")>>
        \o Write("cross_vendor_rq1.json")

\* Borrowed values are drawn from a set of strings by its iteration order, which
\* differs between processes: the scenarios, and so the prompts, do as well.
CrossVendorMAB(order) ==
    Merges(claude, 8000, <<<<"mab row", order>>>>, <<"three_way_llm">>)
        \o Write("cross_vendor_mab.json")

CrossVendorSemantic ==
    Merges(claude, 8000, SemanticSet, SemanticStrategies)
        \o Write("cross_vendor_semantic_resolvable.json")

Program ==
    [run_pilot |-> Pilot,
     run_experiment |-> Experiment,
     run_raw_text_ablation |-> RawTextAblation,
     run_resolvable_power_expansion |-> PowerExpansion,
     run_noise_sensitivity |-> NoiseSensitivity,
     run_provenance_proxy |-> ProvenanceProxy,
     run_semantic_resolvable_experiment |-> SemanticResolvableExperiment,
     analyze_semantic_resolvable_failures |-> SemanticResolvableFailures,
     analyze_rq2_f1_drift |-> RQ2Drift,
     run_balanced_detector_benchmark |-> BalancedDetectors,
     compute_abstention_report |-> AbstentionReport,
     compute_category_breakdown_extra_strategies |-> CategoryBreakdown,
     compute_risk_coverage_frontier |-> RiskCoverage,
     run_cross_vendor_rq1 |-> CrossVendorRQ1,
     run_cross_vendor_mab_one_order |-> CrossVendorMAB("one"),
     run_cross_vendor_mab_another_order |-> CrossVendorMAB("another"),
     run_cross_vendor_semantic_resolvable |-> CrossVendorSemantic]

Scripts == DOMAIN Program
Operations == UNION {Range(Program[s]) : s \in Scripts}
AskedBy == [s \in Scripts |-> {op.q : op \in {o \in Range(Program[s]) : o.do = "ask"}}]
Questions == UNION Range(AskedBy)

\* Where script s asks q again past the cache, and all that it does.
RepeatsOf(s, q) == {n \in DOMAIN Program[s] : Program[s][n].do = "repeat" /\ Program[s][n].q = q}
RepeatedBy == [s \in Scripts |-> {op.q : op \in {o \in Range(Program[s]) : o.do = "repeat"}}]

\* Results that are read and that no script of the repository writes.
Supplied == {"abstention_adjusted_metric.json", "robustness_second_model.json"}
Files == Supplied \cup {op.file : op \in {o \in Operations : o.do = "write"}}

=============================================================================
