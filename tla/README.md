# BranchMem, specified

BranchMem is a benchmark of *memory merging*: an agent's memory (a list of
facts) is forked into two branches, each branch receives its own updates, and a
merge strategy has to reconcile them. The repository simulates the branches,
runs the strategies (some of which ask an LLM), asks questions about the merged
memory and publishes the rates at which they are answered correctly.

This directory holds TLA+ modules translated from `branchmem/`, TLC runs of
them on small instances, and TLAPS proofs of the theorems that matter most.
`PROJECT.json` maps every definition to the lines it models and lists the runs,
the mutants, the findings, the hazards and the theorems.

    tlc -config MCBenchmark.cfg MCBenchmark      # any run of the table below
    tlapm LLMMergeProofs.tla                     # any *Proofs / *Lemmas module

## 1. The system

| component | code | state | operations | made correct by |
|---|---|---|---|---|
| memory data model | `memory/schemas.py`, `merge/base.py` | branch = append-only list of facts | current facts, collisions | one notion of "current" everywhere |
| branch simulator | `memory/branch_sim.py` | ancestor, two branches, conflict pairs | fork, apply updates, diverge | lineage, latest update wins, sound ground truth |
| rule merges | `merge/last_writer_wins.py`, `naive_concat.py`, `branch_discard.py`, `confidence_rule.py` | result list | merge | nothing lost unreported, nothing invented, only the rule decides |
| LLM merges | `merge/three_way_llm.py`, `two_way_llm.py`, `raw_text_llm.py` | prompt, reply, result list | merge | the model decides only what it was asked; silence is flagged |
| LLM cache | `llm/cache.py`, `llm/base.py` | a directory of files | complete | answers its own question; never pays twice without a crash |
| OpenAI backend | `llm/openai_compatible_backend.py` | two learned flags, the request | `_call` | adapts within three attempts, learns for good |
| other backends | `llm/anthropic_backend.py`, `mock_backend.py` | none | `_call` | sends exactly the messages the key was made from |
| questions and scores | `benchmark/downstream_tasks.py`, `evaluation/metrics.py`, `eval/abstention_metrics.py` | none (pure) | generate, score | each rate measures what it is named for |
| runner | `evaluation/runner.py` | results so far | run, write | every strategy is scored on the same questions, every judgment with its own pair |
| SQLite store | `memory/store.py` | two tables | add, get | returns the facts that were added; what is current in a branch survives |
| detectors | `conflict/*.py`, scored by `evaluation/metrics.py` and two scripts | lazily loaded models | detect, score, resample | one judgment per pair, in order; scores and intervals are what their names say |
| generators | `benchmark/scenario_generator.py`, `semantic_resolvable_generator.py`, `mab_extension.py` | RNG, used keys | generate | every scenario passes `diverge` and is the mix that was asked for; its signals tell the truth they should |
| support | `evaluation/stats.py`, `plots.py`, `utils/*` | none | - | - |
| scripts | `scripts/*.py` | result files | run | what rests on cached replies can be computed again, what does not is measured anew, replays are free |

**How they interact.** A generator makes update streams; the simulator turns
them into branches and conflict pairs; the runner passes branches to each
strategy and pairs to the question generator; LLM strategies and the LLM judge
call `LLMBackend.complete`, which goes through `LLMCache` to `_call`; results
and questions meet in the scorer. No component sees another's state: they
communicate by arguments and return values, except for two directories that all
scripts and all runs share: the cached replies, and the results, which some
scripts read from one another.

**What is hard.** Everything is sequential *within* a script. What a test hardly
reaches is the order of updates against the order of listing, ties of
timestamps and confidences, a reply of any shape, scripts killed and restarted
over one cache directory or running at the same time on it, a store killed
between two commits, results copied from files that are computed again later,
and an endpoint that rejects one parameter after another. The hazards in `PROJECT.json` list
each at its line.

## 2. The modules

| module | models | state and actions |
|---|---|---|
| `Memory` | facts, current facts, collisions, fork, update | operators only |
| `CurrentScan` | the loop of `current_facts_by_key` | position in the list, dict so far; `Keep`, `Skip`, `Return` |
| `BranchSim` | `BranchSimulator.diverge` | branches, streams, pairs; `Fork`, `ApplyUpdate`, `AllApplied`, `AddPair`, `RaiseDivergenceError`, `Return` |
| `MergeBase` | entries of a `MergeResult`, settled keys | operators only |
| `RuleMerge` | the four rule strategies, both discard policies | loop, keys left, entries so far; one action per branch of a loop body, `EndLoop` |
| `LLMMerge` | the three LLM strategies | as above, prompt, reply, parsed decisions; `Settle`, `Ask`, `Answer`, `Parse`, `Flag`, `Commit`, three ways to raise |
| `LLMCache` | `complete` over a directory, several processes | file contents, program counters; one action per file operation, `Crash` |
| `Memo` | what a cache promises (abstract) | settled answers, answers served |
| `OpenAIBackend` | `_call` and its retry loop | flags, request, attempt; `BuildRequest`, `Succeed`, the patches, `GiveUp`, `FailUnrelated` |
| `Scoring` | questions, scores, abstention counts | operators only |
| `Benchmark` | one scenario end to end | composes `BranchSim` and `RuleMerge`, whose properties it inherits, with `Scoring` (INSTANCE) |
| `StreamMaker` | what the generators share: ancestor, updates, the call of `diverge` | extends `BranchSim`; phase of the generation |
| `ScenarioGenerator` | `_generate_one` and its samplers | config, iterations left; `SampleAncestor`, one action per loop, `RunOutOfKeys`, `RunOutOfValues`, `CallDiverge` |
| `SemanticResolvable` | one template made a scenario | template; `FillTemplate` |
| `MabExtension` | `build_branch_scenario_from_mab_row` | parsed row, keys picked, chains visited; `SkipChain`, `SplitEdits`, `BorrowEdit`, `EditOneSide`, ... |
| `Generators` | the three generators, each run through `diverge` | composes the three above with `BranchSim` |
| `MemoryStore` | `store.py` and a program that uses it | the two tables, what the program holds in memory, the save in progress; one action per commit, `LoadBranch`, `StoreCrash` |
| `StoredBranch` | a branch loaded and read by a strategy | composes `MemoryStore` with `CurrentScan` |
| `Detectors` | the three detectors, `score_detector`, `full_metrics`, `_auroc`, percentiles | operators only |
| `DetectorBenchmark` | the loops over scenarios, detectors and pairs; the bootstrap of `analyze_rq2_f1_drift.py` | position in the loops, `all_pairs`, judgments, resamples; `NextScenario`, `NextDetector`, `Judge`, `Score`, `Resample`, `Intervals` |
| `Scripts` | each script as the sequence of what it asks, reads and writes | operators only |
| `Experiments` | runs of the scripts over the shared directories | cached replies, result files, the script that runs and its next operation; `TakeReply`, `Pay`, `ReplyRaises`, `AskAgain`, `Census`, `ReadResult`, `WriteResult`, `Kill` |
| `MemoryLemmas`, `StoredBranchProofs`, `BranchSimProofs`, `BenchmarkProofs`, `GeneratorsProofs`, `LLMMergeProofs`, `LLMBackendProofs`, `EvaluationProofs` | proofs (section 4) | |
| `MC*`, `ScenarioSpace` | instances for TLC | |

Names follow the source where TLA+ allows. Abstractions common to all modules:

- An `(entity, predicate)` key is a number, so `sorted()` on keys is `<`. Values
  are model values; provenance, source and justifications are text no code
  branches on and are left out (a justification's *type* is kept in `LLMMerge`
  because validation fails on it).
- A fact's random uuid is the pair (branch, position), unique in the same way.
- Timestamps are naturals and confidences are hundredths (`Certain`, 100, is the
  default 1.0): the code only compares them.
- The order of a Python dict is the order in which its keys were first listed
  (`FirstListed`).

Definitions whose comment begins with `Mutant of` are deliberate bugs. They are
used by no specification; `PROJECT.json` names, for every property, the mutant
whose substitution TLC must catch.

**LLMMerge.** The model is the environment and may return any member of
`Replies`: garbage, JSON whose `resolutions` cannot be iterated over, or a list
of items that may be malformed, duplicate, about other keys, without a value or
with a justification that is not text. The three `merge` methods are the same
loops over different prompts and the model says so: `ThreeWayMerge`,
`TwoWayMerge` and `RawTextMerge` share `MergeStep`.

**LLMCache.** `get` is two steps (exists, read) and `set` is two (truncate,
write); a process may be killed between any two, and a write it was in the
middle of may leave part of a text. Two writers may leave a mixture
(`Overwritten`). The sha256 is taken as injective.

**OpenAIBackend.** The endpoint rejects a fixed set of parameters and complains
of any one it rejects. A message about an old or new token parameter is taken
to name both, which is what the code tests for; a message that does not is in
`FailUnrelated`, like every other error. No caller catches what `_call` raises,
so an instance that has raised is not used again.

**Generators.** A random draw is a choice over all it can give. A draw compared
with a probability is a free choice unless the probability is 0 or 1, when it
is settled; what remains true for every choice does not depend on a seed.
`left` is what the four loops of `_generate_one` still have to do, in their
order; `used_keys` and `consumed_ancestor_keys` are derived from the facts and
updates made so far, which is how the code fills them. Of the entities, only
the keys they give rise to are kept. A MemoryAgentBench row is the list of
statements its parser extracts, one per line after the heading (gaps left by
unparsed lines only spread the line numbers and are left out); its times are in
halves of a line, so that a borrowed value can fall before, between or after
real ones.

**MemoryStore.** `facts` is the list of its rows by rowid. `INSERT OR REPLACE`
deletes the old row and inserts a new one at the end, and `ORDER BY timestamp`
returns rows of equal timestamp in rowid order, which is what SQLite's plan for
this query does and SQL does not promise. A `create_branch` is one commit for the
branch and one per fact. The store is used by the tests only, so the program
that uses it is the environment: it forks, extends, saves, is killed and loads
in any order. `disturbed` is there for the properties: the sides that had a row
inserted outside a `create_branch` that came to its end.

**Detectors, DetectorBenchmark.** The neural models are tables of percentages;
a ratio is a fraction, and NaN is a value that is no fraction. A pair is told from
all others by the ids of its facts, as in the code, whatever the values are. A
judgment keeps the pair it is about, which the code's does not, so that a wrong
pairing shows. `sorted()` is described by what it puts at each place: the member
with fewer lower ones than the place and at least as many not above it. In
`_auroc`, the average rank of a group of equal scores is half the sum of the first
and last place of the group in the sorted list. `batches` is the list
of scenarios for the order of `run_full_benchmark`, and a single list of all
pairs for that of the scripts that let one detector judge everything first.

**Scripts, Experiments.** A script is the list of its operations: ask a
question (through the cache or past it), read a result file, write one, which is
a truncation and a write. A question is what the cache key hashes: model, token
limit, who asks, and the scenario (or pair) asked about; scenarios are told apart by
the seed and configuration that generate them, and a set of twenty to a hundred
and fifty of them is represented by one or two. Of the five noise levels two are
kept, of three repeats two. What a script computes from replies is a function of
them, so a result file says which replies it rests on (`used`) and what
each file it copied from said (`copied`). The pilot's summary says two things
more: the answers its repeats had past the cache (`repeats`), which its variances
and flip rate are made of and which are stored nowhere else, and the replies in
the files whose tokens it added up (`counted`), whoever had asked for them.
Latencies, measured by each run, are left out. `BuildScenarios` gives every level
of the noise sweep the same prompts: that the noise is drawn once per conflict at
every level (`scenario_generator.py:153`), so that all later draws are the same,
is read off the code and not derived. Which runs are promised to be free
(`FreeOfCost`) is taken from the notes in the result files and from
`REPRODUCIBILITY.md`; the pilot's repeats go past the cache and make no
such promise.

## 3. The runs

| run | question | bounds | states |
|---|---|---|---|
| `llm_merge` | can a reply do harm? | 3 keys, two streams of up to 2 updates, replies of up to 2 items of 13 kinds | 394 000 |
| `cache_single` | is the directory a memo? | 1 process, 2 prompts, 2 replies, 2 crashes, 1 failure, cached and uncached calls | 43 000 |
| `cache_shared` | does anybody get the wrong answer, does every call end? | 2 processes, 1 prompt with three kinds of system message, 1 crash | 338 000 |
| `openai_backend` | does the retry loop adapt? | every set of rejected parameters, 4 calls | 107 |
| `benchmark` | are histories sound, do the rule merges lose or invent, what does each rate measure? | one ancestor fact, every two streams of up to 2 of 13 updates on 2 keys, unsorted and with ties, through all five rule strategies | 641 000 |
| `generators` | are the scenarios the mix, and as fair, as they are said to be? | 4 keys (2 objective, 2 subjective; pools of 3, 3, 2 and 1 values), 15 configurations, 2 templates, rows of up to 4 lines over 7 patterns of keys, caps none and 1 | 746 000 |
| `store` | what do the tables still say after partial saves and crashes, and do the loop and `max()` agree on it? | one ancestor fact, 3 kinds of updates on 2 keys, 4 facts made, 3 calls that save, 2 crashes | 1 289 000 |
| `experiments` | can what rests on the cache be computed again, is what the pilot measures beside it fresh, and is a replay free? | all 17 programs, any 3 runs of them, one fault (a kill or a reply no parser takes) | 1 579 000 |
| `detectors` | do judgments stay with their pairs, and are the scores what they are called? | 21 workloads of up to 3 pairs in up to 3 scenarios, both orders, six kinds of reply, 3 resamples (2000 in the code) | 175 000 |

The bounds are enough for the cases to occur: a key needs two updates on one
side to have a stale one, two items in a reply to have a duplicate, two prompts
and two replies to confuse answers, two crashes to lose a reply and tear a file,
and two patches to exhaust three attempts. A generator needs an ancestor with
and without keys to reuse, more conflicts than such keys, pools of one value,
and chains with no, one and several edits. A save needs two facts to be cut in
half and two saves to leave a stale row behind. A result copied from another
needs three runs to go stale: the source, the copy, the source again. An AUROC
needs two conflicts or two non-conflicts for a tie within a class, and a
bootstrap three resamples for its list to need sorting. Every property has a mutant that
breaks it within these bounds. `OpenAIBackend` is small because the code is:
the theorems below cover any number of calls. The numbers in `MaxCalls`,
`MaxRequests`, `MaxCrashes`, `MaxFailures`, `MaxMade`, `MaxSaves`, `MaxStarts`, `MaxFaults` and
`Resamples` are bounds of the models, not of the code.

`CHECK_DEADLOCK FALSE` is set where the modelled call returns or raises and
nothing is left to do, or where a bound is reached (all but the cache runs, where
a script calls again).

**Fairness.** Only `cache_shared` needs it: weak fairness of `Proceed(p)`, the
steps a script takes by itself inside `complete`, for each script. A script is
an OS process and blocks on no lock, so the scheduler gives it its turn; the
provider is assumed to answer. Crashes and provider failures have no fairness.

**Findings.** Three runs check what a doc or a comment says and find it violated
by what the code does; `PROJECT.json` quotes the lines.

| run | the doc | the code |
|---|---|---|
| `rule_merge_doc` | `fewer_updates` discards the branch with fewer updates | it counts keys held |
| `generators_rigged_doc` | the halves of a chain are dealt at random so that LastWriterWins is not rigged to win | the half with the chain's last edit is the truth and the latest, whichever branch gets it |
| `detectors_auroc_doc` | an AUROC of scores that separate conflicts from the rest is 1 (`test_balanced_detector_benchmark.py:9-12`) | the embedding detector's score is the similarity, low for a conflict, and is ranked as if high meant conflict: a perfect detector gets 0, and the published 0.463 is 0.537 the right way round |

More disagreements were met while modelling and have no run of their own:

- `timestamp_correlates_with_correctness` is said to decide whether the
  ground-truth-correct branch carries the later timestamp
  (`scenario_generator.py:25-27`); it gives it to the user-sourced branch
  (`:158`), which noise may have made the wrong one (`:153`). `SignalTellsTruth`
  says nothing of timestamps.
- `compute_abstention_report.py:3` speaks of zero new API cost and
  `compute_category_breakdown_extra_strategies.py:78` of the existing cache. Both
  ask the locked scenarios' questions with a limit of 8000 tokens, which is part
  of the key; the locked run asks with 1024, and of the scripts in the repository
  only `run_raw_text_ablation.py` asks any of them with 8000. `FreeOfCost` does
  not promise for these two.
- `run_pilot.py:4-6` says that running the pilot again costs nothing; its forty-five
  repeats go past the cache on purpose (`:121-122`), and the variances and flip
  rate made of them (`:183-190`) cannot be computed again. Its token census
  (`:157`) counts the files of all scripts, whoever asked, so a second run may
  write other totals.
- The MemoryAgentBench rows are said to make identical constructions
  (`run_cross_vendor_mab.py:5-7`), and `REPRODUCIBILITY.md:56-60` to be safe from
  set order. `mab_extension.py:259` lists the candidates for a borrowed value
  in the iteration order of a set, which differs between processes.
- `run_raw_text_ablation.py:65-72` takes equal scenario ids for a proof that the
  configuration has not drifted; an id is made of the seed and the index.
- `run_cross_vendor_rq1.py:31-32` reads the locked accuracies "(no rerun)" and
  runs all detectors and strategies again to get the other vendor's.
- `store.py:30` declares a foreign key, which SQLite does not enforce unless
  told to.

- `DivergenceError` is said to be raised when streams declare inconsistent
  ground truth (`branch_sim.py`); `diverge` compares the specs listed last for
  a key, whereas facts follow timestamps.
- A key only one branch touched is said to need no LLM call; it is sent to the
  model if the ancestor held it. The MemoryAgentBench extension builds such
  scenarios (`EditOneSide`).
- A row with one-sided edits only is returned as a scenario without conflict
  pairs (`mab_extension.py:289`), where the doc (`:192-194`) promises `None` if
  no conflict could be constructed.
- A resolvable question counts as correct by the last of several entries, so
  NaiveConcat can be right with the contradicting value kept beside.
- `cache.py:1` says a repeated prompt is never paid for again, and a crash
  between the reply and the write breaks that (`CrashAccountsForLoss` says
  exactly when). `base.py:1` says every real call is cached, which calls with
  `use_cache=False` are not (they are actions of `LLMCache`).
- Two orthogonal updates of one key, which `branch_sim.py:23-24` allows, become
  a resolvable question without an answer that only a flag can satisfy
  (`downstream_tasks.py:34, 41`). No generator makes them: `used_keys` keeps
  orthogonal keys apart (`DivergesAsConfigured`).

## 4. The proofs

A theorem holds for every value of the constants: any number of keys, branches,
streams and replies of any length, any number of calls, saves, crashes and runs,
any vocabulary, configuration, template and row, any scenarios and resamples.
Every invariant and every action property that a passing run checks is stated by
a theorem.
The bounds of section 3 (`MaxCalls`, `MaxStarts`, ...) are constants as well, so
nothing below depends on them.

**Assumptions.** Each is named where the constant is declared, is evaluated by
TLC on the runs, and says what the code provides by its types: keys are numbers
(so that they have an order) and `None` is no key, value, id or branch (`Memory`);
`None` is no resolution and no reply (`MergeBase`, `LLMMerge`); a reply, an
ancestor, a stream, a list of facts and a scenario are well formed (`LLMMerge`,
`BranchSim`, `CurrentScan`, `RuleMerge`, `MemoryStore`); a vocabulary has finitely
many keys, each objective or subjective, with at least one value, and times after
the ancestor's (`ScenarioGenerator`, from its constant lists); the two texts of a
template differ (`SemanticResolvable`, so do those of the data file); a row is a list of
statements (`MabExtension`); pairs are told apart by their ids and similarities are
numbers, or NaN, which is no fraction (`Detectors`, `DetectorBenchmark`); the marks for a file
without a reply, and for one no parser takes, are no replies (`LLMCache`, `Experiments`); bounds are numbers.
That the scenarios given to the merges are well formed is an assumption where a
merge is alone (`RuleMerge`, `LLMMerge`) and a theorem in the benchmark
(`SimulatedOK`).

**`MemoryLemmas`**: every key of a list has exactly one latest fact, the first
listed among those of the latest timestamp. Existence is by the least prefix
that would be a counterexample (`LeastNumber`), since induction over an operator
is out of the provers' reach. The proof modules of the data model, the
simulator, the merges and the store rest on it.

**`BranchSimProofs`**: `LineageSound`, `LatestUpdateWins`, `CollisionsExplained`.
`LineageSound` needs the types and `Forked`, that a branch is at least as long
as the root it copied. The other two are about the end of `diverge` and are not
inductive: `InForce` says, of the updates applied *so far*, that they come before
all others in the sorted order and that each key has the value in effect among
them (an appended fact displaces the current one exactly when its timestamp is
greater); at the end that is all updates. `PairsMade` says of the keys checked
so far that each has one pair, from its two current facts.

**`BenchmarkProofs`**: the properties of the rule merges (`OneSurvivorPerKey`,
`NothingSilentlyLost`, `DiscardIsAtomic`), for arbitrary branches (`MergeSpec`)
and for those of the simulator (`BenchSpec`), and of the scores
(`OneQuestionPerKey`, `OrthogonalMeasuresLoss`, `AmbiguousNeedsFlag`,
`MetricsAgree`). A merge is several loops in turn, so the invariant `MergeInv`
says for each loop which keys wait for it or a later one (`Waiting`), that these
have no survivor yet and all others have (`Served`, `ServedOnce`), that entries
are verbatim facts (`Contents`), and that whatever is neither in the result nor
waiting was reported (`Accounted`, by `Owed`). `Simulates` maps each step of the
benchmark to a step of the simulator or none, so its theorems carry over, and
`SimulatedOK` shows that the branches it returns are a well-formed scenario. The
scores follow from what the returned result holds and from `CollisionsExplained`,
which ties questions to collisions.

**`GeneratorsProofs`**: `DivergesAsConfigured`, `ConflictsCollide`,
`SignalTellsTruth`, `RaisesOnlyWhenExhausted`, `EditsKeepMeaning`, for whatever the
random draws give. Each compares a history of draws with the branches `diverge`
makes of it, so the invariant `GenInv` follows the streams while they grow and
on through the simulator. `Sound` holds of all three sources: two declared
conflicts of one key agree on kind and truth, with the times and confidences
their source gives (`Declared`, which also says when the two values may be
equal), no key has two updates on a side, and any key that
both sides update is such a conflict (`Accepted`: this is what keeps
`DivergenceError` from being raised); `InForce` and `PairsMade` are those of
`BranchSimProofs`. `SynthInv` is about the four loops of `_generate_one`: what
is left of them is the tail of the configuration's iterations, and what was done
has left each side the right number of updates of each kind, in the loops' order,
the conflicts at matching places of the two lists, and no key twice (`Laid`). An
iteration that finds no key free then has a count of the keys taken, by kind, to
set against the configuration (`RaisesOnlyWhenExhausted`); the mix and the
one-sided keys follow by counting places. `MabInv` says that the updates made so
far are of the chains visited, each of which is a key of its own; the meaning of
edits then follows from the order of the lines in a chain, whose halves are cut
at one line. With these, a key's value on a branch is the one update
of the key or the ancestor's (`InForce`), and the theorems are about that.

**`LLMMergeProofs`**: `OneAnswerPerKey` (with `AnsweredOnce` and `ReplyConfined`), `KeptIsVerbatim`,
`NoGuessing`, `PromptSurvivesRerun`. `Typed` adds to the types that each of the
two loops takes keys of its own. `AnswersFollowed` says that no collision is
answered before the reply is parsed, that what was parsed is the reply, and that
each entry for a collision follows the *last* valid item for its key. That the
parsed table is the last item, for replies of any length, is a lemma on
`ParseResponse` (`ParsedIsLast`). The prompt's
stability is a fact about the operators: a prompt mentions neither ids nor
timestamps.

**`LLMBackendProofs`**, of the cache: `AnswersOwnQuestion` for any number of processes, from
`AllBacked`: whatever is in a file, in a process's hands or half written was
replied to that key's messages. The other three need a process to itself,
`OneAtATime`: with two, `cache_shared` shows that answers are paid for twice.
`Undisturbed` says that a call under way finds its file as it left it, that the
calls for a key exceed the crashes by at most one, which is the answer in the
file or on its way there, and that a broken file has a crash or a writer behind
it; from it follow `CrashAccountsForLoss` and `NeverRespend`. `DirectoryIsMemo` is the refinement of
`Memo`: initial states map, `Complete` and the file operations are stutters until
the write or the read that settles or serves an answer, and a crash in between
loses what the abstract table never had.

Of the retry loop under it: `WastedRoundTrips`, `AlwaysAdapts`, `LearnedForGood`
and that a request carries one token limit, from `BackendInv`: the request in flight
is the one the flags describe, a sane endpoint has rejected exactly what was
learned, and once served the request the flags describe is accepted. The proof
shows why three attempts are enough: two parameters, one rejection each.

**`StoredBranchProofs`**: the loop of `current_facts_by_key` (`ScanInv`:
`PrefixCurrent` with the types; at the end the prefix is the list, and uniqueness
of the latest fact gives `ReturnsCurrent`, also for lists a store returned), and
of the store `NothingStoredIsLost`, `SaveRepairs`, `CurrentSurvives`. `StoreInv`
says that an id tells a fact apart among all facts in the table and in memory
(`Identified`), so that `INSERT OR REPLACE` replaces a row only by itself; that
no fact is there twice (`EachOnce`); what a save in progress has written and has
still to write (`SaveOK`); and that rows of an undisturbed side with equal
timestamps are in the order of the branch (`StoredInOrder`).
The last breaks during a save and is restored by its end, which is why the
save in progress is part of the invariant. `ORDER BY` is defined by ranks, the number
of rows that come before: ranks are distinct and there are as many as rows, so a
sorted list exists and is the only one, without induction over its length.

**`EvaluationProofs`**, of the scripts: `Recomputable`, `RepeatsAreFresh`, `ReplaysAreFree`,
`InputIsCheckedFirst` and `NoResultPastABadFile`, for any number of runs and faults. Half of it is
about the programs: that each of the seventeen is made of phases (read, ask,
count, write) in that order is proved from how it is concatenated (`AllShaped`),
with two scripts that read after they ask (`Late`), and that a replay's questions
are among those of the runs it replays (`ReplaysAskNothingNew`). The invariant
says that what a run is past is in the cache and readable, that every result
rests on cached replies to all questions of its script, and that what was copied
is what its source says *whenever* it says anything: a source may be absent or
truncated at the moment, and come back. It is inductive because no step replaces
or loses a reply (`CacheKept`); `Recomputable` by itself is not, because a copy
outlives its source. Of the pilot, `PilotInv` says that a run has had as many
answers past the cache as it is past repeats, each with a number that no file of
the cache has and, since answers are numbered in the order they are paid for,
none will; and that the files it counted hold what it rests on, because all its
questions come before the count.

Of the detectors: `JudgedInOrder`, `ScoresAreReference`, `AurocCountsPairs` and
`IntervalSound`, for any scenarios, replies, tables and resamples. The invariant
`EvalInv` says that `all_pairs` is what the loops have walked of the lists
(`Walking`), how many judgments each detector has given at that point and that
each is about the pair in its place (`InPlace`), and that scores, resampled lists
and intervals are those of these judgments (`Scored`). The library flattens lists
by a recursive function: that there is one, and that one more list appends to it,
is shown by the shortest list without (`FlattenedOK`, `Walk`). Counting by places
and by sets agree because pairs are distinct, so that "some judgment of this pair
says conflict" is the judgment in its place (`FoundByPlace`). Of `sorted()`, in
any total order, every place has a member (`MemberAt`, by the least of those high
enough), which gives the percentiles their order, with the negative subscript of a
short list, and the scores their groups: the places of a score are those after all
lower ones and up to all that are not higher (`GroupPlaces`, `RankOf`). The sum of
ranks over the conflicts is a fold over a set; that it is the closed form
`RankSum` is an induction over the parts of a finite set (`PartByPart`, by the
least part that is not, since a set can be instantiated where an operator
cannot). The closed form counts pairs of places; those within the conflicts are
balanced by exchanging the two (`WithinAClass`), and n(n + 1) of them is what
`_auroc` takes off.

### Only model-checked

- `EveryCallEnds` (`cache_shared`): liveness under fairness, which needs ENABLED.
  Every other property of a passing run has a theorem.

## 5. Not modelled

- *Statistics* (`evaluation/stats.py`): Wilcoxon, Holm-Bonferroni and means over
  floats. They are pure functions of the scores; TLC has no real numbers, and a
  model of them on integers would check arithmetic and not this code. The
  percentiles of `paired_bootstrap_ci` are those of `BootstrapInterval`.
- *Plots, configuration, logging, seeding* (`evaluation/plots.py`, `utils/*`):
  I/O. That `build_backend` raises without an API key, also for a run whose
  replies are all cached, is left out with it: the runs of `Experiments` have one.
- *Scripts* `sample_for_audit.py` and `audit_parser_precision.py`, which draw
  samples for human annotators, and `run_unit_tests.py`.
- *Neural models*: what an embedding or NLI model says of two texts is a table.
- *Texts*: prompt wording, logging, latency and token counts everywhere; the
  regular expressions that parse a MemoryAgentBench row; entities and seeds,
  which only fix which of the modelled choices is taken.
- *Backends* other than the OpenAI-compatible one, beyond the messages they send
  (`Sent`): each is one call without control flow.
- `metrics_from_counts` and the utilities of `abstention_metrics.py`: the same
  fractions on counts that are given.

The MergeBase and Memory operators stand for dataclasses whose remaining fields
are text.

## 6. Plan

The order is that of what a published number rests on: the data model and the
simulator first, the merges and what they ask of a model next, then the cache
and backend under them, the scores, the generators that feed them, the
detectors, the store, and the scripts that run all of it. These are the modules
of section 2. What follows:

1. *Pipeline*: `Generators` into the merges and the scores: what each strategy's
   rates are bounded by on generated scenarios, rather than on arbitrary streams.
2. *Concurrent scripts*: `Experiments` runs one script at a time, over what
   `LLMCache` provides to one process; two at once are modelled for one call
   (`cache_shared`) and not for result files.
