---------------------------- MODULE Experiments ----------------------------
(***************************************************************************)
(* Runs of the scripts, one at a time, in any order and any number of      *)
(* times, over the directories they share: the cached replies and the      *)
(* result files.  The cache is Memo, what LLMCache provides to one process *)
(* at a time, together with what a killed process leaves in it.            *)
(*                                                                         *)
(* Every answer of a model is a new one: replies to a question are told    *)
(* apart by a number, so that a result shows which of them it rests on.    *)
(* The latencies of detectors (mean_latency_s), measured anew by each run, *)
(* are left out of the results.                                            *)
(***************************************************************************)
EXTENDS Scripts

CONSTANTS
    None,
    Torn,         \* a file that a killed process had truncated
    Poison,       \* a reply that the parser of a merge raises an exception on
    MaxStarts,    \* bound: runs of a script
    MaxFaults     \* bound: runs killed and replies that are Poison

\* What a file of the cache may hold is one of these or the number of an answer.
ASSUME ExperimentsAssumption ==
    /\ MaxStarts \in Nat /\ MaxFaults \in Nat
    /\ None \notin Nat \cup {Torn, Poison}
    /\ Torn \notin Nat \cup {Poison} /\ Poison \notin Nat

VARIABLES
    cache,      \* of each question, the reply in its file
    answers,    \* answers paid for, per question
    results,    \* of each result file, what it says
    script, at, \* the script that runs, or ran last, and its next operation
    outcome,    \* "running", or how the last run ended
    used,       \* (question, reply) pairs this run has had through the cache
    copied,     \* of each result file it copies numbers from, what it said
    repeats,    \* (question, reply) pairs this run has had past the cache
    counted,    \* (question, reply) pairs in the files it has counted tokens of
    paid,       \* whether this run has paid for an answer
    promised,   \* whether it is documented to need none
    finished,   \* scripts that have run to their end
    starts, faults

\* Of the pilot only: what its result says that does not come through the cache.
pilotVars == <<repeats, counted>>

vars == <<cache, answers, results, script, at, outcome, used, copied, pilotVars, paid,
          promised, finished, starts, faults>>

Running == outcome = "running"
AtOperation == Running /\ at \in DOMAIN Program[script]
op == Program[script][at]

Whole(file) == results[file] \notin {None, Torn}

\* Only the judge takes any text; a merge raises on some, and both on a file
\* that is not JSON.
Readable(q) == cache[q] # Torn /\ (cache[q] = Poison => q.who = "llm_judge")

\* The runs documented to cost nothing: replays of what other scripts have
\* asked, and any script that has run before, but for the pilot, which
\* repeats calls without the cache.
ReplaysOf ==
    [run_noise_sensitivity |-> {"run_experiment"},
     analyze_semantic_resolvable_failures |-> {"run_semantic_resolvable_experiment"},
     analyze_rq2_f1_drift |-> {"run_pilot", "run_experiment"}]

FreeOfCost(s) ==
    \/ s \in finished /\ s # "run_pilot"
    \/ s \in DOMAIN ReplaysOf /\ ReplaysOf[s] \subseteq finished

-----------------------------------------------------------------------------

\* What the files that no script writes say rests on no known reply.
ByHand == [by |-> "hand", used |-> {}, copied |-> <<>>, repeats |-> {}, counted |-> {}]

Init ==
    /\ cache = [q \in Questions |-> None]
    /\ answers = [q \in Questions |-> 0]
    /\ \E supplied \in SUBSET Supplied :
           results = [f \in Files |-> IF f \in supplied THEN ByHand ELSE None]
    /\ script = None /\ at = 1 /\ outcome = "none"
    /\ used = {} /\ copied = <<>> /\ repeats = {} /\ counted = {}
    /\ paid = FALSE /\ promised = FALSE
    /\ finished = {} /\ starts = 0 /\ faults = 0

Start(s) ==
    /\ ~Running /\ starts < MaxStarts
    /\ script' = s /\ at' = 1 /\ outcome' = "running"
    /\ used' = {} /\ copied' = <<>> /\ repeats' = {} /\ counted' = {} /\ paid' = FALSE
    /\ promised' = FreeOfCost(s)
    /\ starts' = starts + 1
    /\ UNCHANGED <<cache, answers, results, finished, faults>>

GoOn ==
    /\ at' = at + 1
    /\ UNCHANGED <<script, outcome, promised, finished, starts>>

\* The run ends before its program does.
End(how) ==
    /\ outcome' = how
    /\ UNCHANGED <<script, at, used, copied, pilotVars, promised, finished, starts>>

\* complete() with the reply in the cache: a miss goes through Pay first.
TakeReply ==
    /\ AtOperation /\ op.do = "ask" /\ cache[op.q] # None /\ Readable(op.q)
    /\ used' = used \cup {<<op.q, cache[op.q]>>}
    /\ GoOn
    /\ UNCHANGED <<cache, answers, results, copied, pilotVars, paid, faults>>

\* A miss: the reply is stored before anybody has parsed it.
Pay ==
    /\ AtOperation /\ op.do = "ask" /\ cache[op.q] = None
    /\ paid' = TRUE
    /\ answers' = [answers EXCEPT ![op.q] = @ + 1]
    /\ \/ cache' = [cache EXCEPT ![op.q] = answers'[op.q]] /\ UNCHANGED faults
       \/ faults < MaxFaults /\ cache' = [cache EXCEPT ![op.q] = Poison] /\ faults' = faults + 1
    /\ UNCHANGED <<results, script, at, outcome, used, copied, pilotVars, promised, finished, starts>>

\* json.loads raises on the file, or _parse_response on the reply.
ReplyRaises ==
    /\ AtOperation /\ op.do = "ask" /\ cache[op.q] # None /\ ~Readable(op.q)
    /\ End("raised")
    /\ UNCHANGED <<cache, answers, results, paid, faults>>

\* Mutant of AskAgain: the new answer replaces the one in the cache.
AskAgainAndStore ==
    /\ AtOperation /\ op.do = "repeat"
    /\ paid' = TRUE
    /\ answers' = [answers EXCEPT ![op.q] = @ + 1]
    /\ cache' = [cache EXCEPT ![op.q] = answers'[op.q]]
    /\ repeats' = repeats \cup {<<op.q, answers'[op.q]>>}
    /\ GoOn
    /\ UNCHANGED <<results, used, copied, counted, faults>>

\* Mutant of AskAgain: use_cache=False is not passed on.
AskAgainFromCache ==
    /\ AtOperation /\ op.do = "repeat"
    /\ repeats' = repeats \cup {<<op.q, cache[op.q]>>}
    /\ GoOn
    /\ UNCHANGED <<cache, answers, results, used, copied, counted, paid, faults>>

\* complete(use_cache=False), of the pilot only: neither reads nor writes the
\* cache, so that the answer, which goes into the variances of the summary, is
\* stored nowhere.  A merge may raise on it.
AskAgain ==
    /\ AtOperation /\ op.do = "repeat"
    /\ paid' = TRUE
    /\ answers' = [answers EXCEPT ![op.q] = @ + 1]
    /\ \/ /\ repeats' = repeats \cup {<<op.q, answers'[op.q]>>}
          /\ GoOn /\ UNCHANGED <<used, copied, counted, faults>>
       \/ op.q.who # "llm_judge" /\ faults < MaxFaults /\ faults' = faults + 1 /\ End("raised")
    /\ UNCHANGED <<cache, results>>

\* What the files of the cache hold.
Stored == {<<q, cache[q]>> : q \in {p \in Questions : cache[p] # None}}

\* Mutant of Census: a file that is not JSON is skipped.
CensusSkips ==
    /\ AtOperation /\ op.do = "census"
    /\ counted' = {x \in Stored : x[2] # Torn}
    /\ GoOn
    /\ UNCHANGED <<cache, answers, results, used, copied, repeats, paid, faults>>

\* The pilot adds up the tokens of every file in the cache directory, whoever it
\* is from; the totals go into its summary.
Census ==
    /\ AtOperation /\ op.do = "census"
    /\ IF \E q \in Questions : cache[q] = Torn
       THEN End("raised")
       ELSE counted' = Stored /\ GoOn /\ UNCHANGED <<used, copied, repeats>>
    /\ UNCHANGED <<cache, answers, results, paid, faults>>

\* copied, with what file says.
Noting(file, says) ==
    [f \in DOMAIN copied \cup {file} |-> IF f = file THEN says ELSE copied[f]]

ReadResult ==
    /\ AtOperation /\ op.do \in {"check", "copy", "copy_if_there"}
    /\ \/ /\ Whole(op.file)
          /\ copied' = IF op.do = "check" THEN copied
                       ELSE Noting(op.file, results[op.file].used)
          /\ GoOn /\ UNCHANGED <<used, pilotVars>>
       \/ /\ results[op.file] = None /\ op.do = "copy_if_there"
          /\ GoOn /\ UNCHANGED <<used, copied, pilotVars>>
       \/ ~Whole(op.file) /\ ~(results[op.file] = None /\ op.do = "copy_if_there") /\ End("no input")
    /\ UNCHANGED <<cache, answers, results, paid, faults>>

WriteResult ==
    /\ AtOperation
    /\ \/ op.do = "truncate" /\ results' = [results EXCEPT ![op.file] = Torn]
       \/ /\ op.do = "write"
          /\ results' = [results EXCEPT ![op.file] =
                             [by |-> script, used |-> used, copied |-> copied,
                              repeats |-> repeats, counted |-> counted]]
    /\ GoOn
    /\ UNCHANGED <<cache, answers, used, copied, pilotVars, paid, faults>>

Finish ==
    /\ Running /\ ~AtOperation
    /\ outcome' = "finished"
    /\ finished' = finished \cup {script}
    /\ UNCHANGED <<cache, answers, results, script, at, used, copied, pilotVars, paid, promised, starts, faults>>

\* The process is killed, or the provider fails: an answer that was paid for
\* may be lost, or its file left truncated.
Kill ==
    /\ Running /\ faults < MaxFaults
    /\ faults' = faults + 1
    /\ \/ UNCHANGED <<cache, answers, paid>>
       \/ /\ AtOperation /\ op.do = "ask" /\ cache[op.q] = None
          /\ paid' = TRUE
          /\ answers' = [answers EXCEPT ![op.q] = @ + 1]
          /\ \/ UNCHANGED cache
             \/ cache' = [cache EXCEPT ![op.q] = Torn]
    /\ End("killed")
    /\ UNCHANGED results

Next ==
    \/ \E s \in Scripts : Start(s)
    \/ TakeReply \/ Pay \/ ReplyRaises \/ AskAgain \/ Census
    \/ ReadResult \/ WriteResult \/ Finish \/ Kill

Spec == Init /\ [][Next]_vars

-----------------------------------------------------------------------------

\* What a result has from the cache can be computed again: it rests on an answer
\* to each question its script asks, on the one that is in the cache now, and the
\* numbers it copied are those that the file they are from holds, however often
\* either was run again.  Only the pilot's summary says anything else: variances
\* made of answers that are stored nowhere, and token totals of the cache as it
\* was, which cover the replies it rests on and which later runs can only exceed.
Recomputable ==
    \A f \in Files : (Whole(f) /\ results[f].by \in Scripts) =>
        /\ results[f].used = {<<q, cache[q]>> : q \in AskedBy[results[f].by]}
        /\ \A g \in DOMAIN results[f].copied :
               Whole(g) => results[f].copied[g] = results[g].used
        /\ IF results[f].by = "run_pilot"
           THEN results[f].used \subseteq results[f].counted /\ results[f].counted \subseteq Stored
           ELSE results[f].repeats = {} /\ results[f].counted = {}

\* The variances of the pilot are measured: "a genuinely fresh call each time,
\* not a cache hit replaying the same response".  A question that is asked again
\* has as many different answers in the summary as it was asked again, and the
\* one that the cache holds, then or ever after, is not among them.
RepeatsAreFresh ==
    \A f \in Files : (Whole(f) /\ results[f].by \in Scripts) =>
        \A q \in RepeatedBy[results[f].by] :
            LET fresh == {x \in results[f].repeats : x[1] = q}
            IN  /\ Cardinality(fresh) = Cardinality(RepeatsOf(results[f].by, q))
                /\ <<q, cache[q]>> \notin fresh

\* "No new API calls": the replays of the locked, pilot and semantic runs, and a
\* second run of any script but the pilot, pay for nothing, whatever was run,
\* killed or answered with nonsense in between.
ReplaysAreFree == promised => ~paid

\* A result is written only past files that could all be read: an answer that is
\* stored and that its merge raises on keeps every script that asks the question
\* from its results for good, and a truncated file keeps the pilot from its own,
\* whoever left it.
NoResultPastABadFile ==
    [][\A f \in Files : (~Whole(f) /\ Whole(f)') =>
           /\ \A q \in AskedBy[script] : Readable(q)
           /\ script = "run_pilot" => \A q \in Questions : cache[q] # Torn]_vars

\* The scripts that check their input against the locked run do so before they
\* pay for an answer.  (compute_abstention_report and run_cross_vendor_rq1 read
\* theirs after all answers are paid for.)
InputIsCheckedFirst ==
    (outcome = "no input" /\ paid) =>
        script \in {"compute_abstention_report", "run_cross_vendor_rq1"}
=============================================================================
