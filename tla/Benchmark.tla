----------------------------- MODULE Benchmark -----------------------------
(***************************************************************************)
(* One scenario through the benchmark: the simulator makes the branches    *)
(* and the ground truth (BranchSim), a strategy merges them (RuleMerge),   *)
(* and the result is scored against the ground truth (Scoring).            *)
(*                                                                         *)
(* The three parts never see each other's state: the merge is given only   *)
(* facts, the score only the result and the questions.  The properties of  *)
(* the parts are checked here on what the parts before them really make;   *)
(* those below are the ones a published number rests on and no part can    *)
(* have by itself.                                                         *)
(***************************************************************************)
EXTENDS BranchSim, RuleMerge

VARIABLE questions      \* asked about the scenario

benchVars == <<vars, mergeVars, questions>>

S == INSTANCE Scoring

SimulatedScenario == [root |-> root, a |-> facts["a"], b |-> facts["b"]]

BenchInit ==
    /\ Init
    /\ strategy = None
    /\ scenario = None
    /\ stage = "waiting" /\ todo = {} /\ resolved = <<>>
    /\ questions = {}

Simulate == Next /\ UNCHANGED <<mergeVars, questions>>

\* The questions are generated once, then each strategy's merge is called; one
\* strategy per behaviour, as merges share no state.
StartMerge ==
    /\ pc = "returned"
    /\ stage = "waiting"
    /\ questions' = S!Questions(SimulatedScenario, pairs)
    /\ scenario' = SimulatedScenario
    /\ strategy' \in Strategies
    /\ stage' = FirstStage(strategy', scenario')
    /\ todo' = StageKeys(strategy', scenario', stage')
    /\ UNCHANGED <<vars, resolved>>

Merge == stage # "waiting" /\ MergeNext /\ UNCHANGED <<vars, questions>>

BenchNext == Simulate \/ StartMerge \/ Merge

BenchSpec == BenchInit /\ [][BenchNext]_benchVars

-----------------------------------------------------------------------------

Answered(q) == S!Correct(q, resolved)
Score(category) == S!Score(questions, {category}, resolved)
Metrics == S!Abstention(questions, resolved)
BranchLost == strategy \in Discarding /\ Collisions(scenario.a, scenario.b) # {}

\* No key is asked about twice, from a pair and a branch or from both branches;
\* every key in collision is asked about unless it is one the ancestor holds
\* and one side alone changed; every question is about a key some merge input
\* holds.
OneQuestionPerKey ==
    stage # "waiting" =>
        /\ \A p, q \in questions : p.key = q.key => p = q
        /\ \A k \in Collisions(scenario.a, scenario.b) :
               (\E q \in questions : q.key = k) <=> k \in SharedKeys
        /\ \A q \in questions : q.key \in Touched(updates["a"]) \cup Touched(updates["b"])

\* The orthogonal score measures information loss and nothing else: a fact only
\* one side learned is answered wrongly exactly when the merge threw that
\* side's whole branch away.
OrthogonalMeasuresLoss ==
    stage = "returned" => \A q \in S!InCategory(questions, {"orthogonal"}) :
        ~Answered(q) <=> BranchLost /\ q.from = DiscardedSide(strategy, scenario)

\* The ambiguous score rewards flagging alone: a strategy that never flags
\* scores zero there, and the confidence rule scores exactly on its ties.
AmbiguousNeedsFlag ==
    stage = "returned" => \A q \in S!InCategory(questions, {"ambiguous"}) :
        Answered(q) <=>
            /\ strategy = "confidence_rule"
            /\ q.key \in Collisions(scenario.a, scenario.b)
            /\ CurrentFact(scenario.a, q.key).conf = CurrentFact(scenario.b, q.key).conf

\* The abstention metrics and the accuracy score are two views of one result:
\* every question in scope was addressed, so not flagged means committed, the
\* counts partition the questions, and a correct answer is a correct commit or
\* a flag where no answer was expected.
MetricsAgree ==
    stage = "returned" =>
        /\ \A q \in S!InCategory(questions, S!InScope) : S!Got(resolved, q.key).resolution # None
        /\ Metrics.flagged = Metrics.ambiguous_flagged + Metrics.others_flagged
        /\ Score("ambiguous").correct = Metrics.ambiguous_flagged
        /\ Score("resolvable").correct + Score("ambiguous").correct
               = Metrics.correct_committed
                     + Cardinality({q \in S!InCategory(questions, S!InScope) :
                                        q.expected = None /\ S!Flagged(q, resolved)})
=============================================================================
