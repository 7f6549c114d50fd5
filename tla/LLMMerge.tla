----------------------------- MODULE LLMMerge -----------------------------
(***************************************************************************)
(* ThreeWayLLMMerge and its two ablations, TwoWayLLMMerge and              *)
(* RawTextLLMMerge: settle the keys without a collision in code, send all  *)
(* collisions in one prompt, parse whatever comes back, then commit or     *)
(* flag each collision.  The model is the environment: it may answer with  *)
(* any reply, name keys nobody asked about, answer twice, or not at all.   *)
(*                                                                         *)
(* In a prompt a fact's conf stands for what the template prints of its    *)
(* source and confidence.                                                  *)
(***************************************************************************)
EXTENDS MergeBase, FiniteSets

CONSTANTS
    Scenarios,  \* arguments a merge may be called with
    Replies     \* replies the backend may return

Variants == {"three_way_llm", "two_way_llm", "raw_text_llm"}
Answers == {"kept_from_a", "kept_from_b", "merged", "flagged_unresolved"}

\* One element of the "resolutions" list.  An element that lacks its entity or
\* predicate, or is no object at all, has key None; a value that is null, empty
\* or absent is None; "merged" stands for any other word the model may use as a
\* resolution; just is what kind of value the justification is.
Item == [key : Keys \cup {None}, resolution : Answers,
         value : Values \cup {None}, just : {"text", "null", "object"}]

\* "garbage": no JSON object in the text.  "not a list": valid JSON whose
\* "resolutions" cannot be iterated over.
Reply == [form : {"garbage", "not a list"}, items : {<<>>}]
             \cup [form : {"list"}, items : Seq(Item)]

ASSUME ScenariosAssumption == \A sc \in Scenarios : ScenarioOK(sc)
ASSUME RepliesAssumption == Replies \subseteq Reply /\ None \notin Replies

VARIABLES
    variant,    \* which of the three strategies
    scenario,   \* its arguments
    stage,      \* "settle", "ask", "parse", "decide", "returned" or "raised"
    todo,       \* keys the current loop has left
    prompt,     \* what was sent to the backend, None if nothing was
    reply,      \* what came back, None if nothing has
    decisions,  \* resolutions_by_key: the parsed items
    resolved,   \* resulting_facts so far
    unresolved  \* unresolved_conflicts so far

vars == <<variant, scenario, stage, todo, prompt, reply, decisions, resolved, unresolved>>

CurA(k) == CurrentFact(scenario.a, k)
CurB(k) == CurrentFact(scenario.b, k)
Collide == CollisionsOf(scenario)

-----------------------------------------------------------------------------
(* What each template prints of the collisions.                            *)

\* Mutant of ThreeWayPrompt: the facts are printed with their ids.
ThreeWayPromptWithIds(sc) ==
    LET C == CollisionsOf(sc) IN
    [ancestor |-> [k \in C \cap KeysOf(sc.root) |-> CurrentFact(sc.root, k).value],
     a |-> [k \in C |-> CurrentFact(sc.a, k)],
     b |-> [k \in C |-> CurrentFact(sc.b, k)]]

ThreeWayPrompt(sc) ==
    LET C == CollisionsOf(sc) IN
    [ancestor |-> [k \in C \cap KeysOf(sc.root) |-> CurrentFact(sc.root, k).value],
     a |-> [k \in C |-> <<CurrentFact(sc.a, k).value, CurrentFact(sc.a, k).conf>>],
     b |-> [k \in C |-> <<CurrentFact(sc.b, k).value, CurrentFact(sc.b, k).conf>>]]

TwoWayPrompt(sc) ==
    LET C == CollisionsOf(sc) IN
    [a |-> [k \in C |-> <<CurrentFact(sc.a, k).value, CurrentFact(sc.a, k).conf>>],
     b |-> [k \in C |-> <<CurrentFact(sc.b, k).value, CurrentFact(sc.b, k).conf>>]]

RawTextPrompt(sc) ==
    LET C == CollisionsOf(sc) IN
    [a |-> [k \in C |-> CurrentFact(sc.a, k).value],
     b |-> [k \in C |-> CurrentFact(sc.b, k).value]]

PromptOf(v, sc) ==
    CASE v = "three_way_llm" -> ThreeWayPrompt(sc)
      [] v = "two_way_llm"   -> TwoWayPrompt(sc)
      [] v = "raw_text_llm"  -> RawTextPrompt(sc)

\* Mutant of ParseResponse: the first item for a key wins.
ParseFirst(r) ==
    LET named == {r.items[i].key : i \in DOMAIN r.items} \ {None}
        first(k) == CHOOSE i \in DOMAIN r.items :
                        /\ r.items[i].key = k
                        /\ \A j \in DOMAIN r.items : r.items[j].key = k => i <= j
    IN [k \in named |-> r.items[first(k)]]

\* _parse_response: the last well-formed item for a key wins.
ParseResponse(r) ==
    LET named == {r.items[i].key : i \in DOMAIN r.items} \ {None}
        last(k) == CHOOSE i \in DOMAIN r.items :
                       /\ r.items[i].key = k
                       /\ \A j \in DOMAIN r.items : r.items[j].key = k => j <= i
    IN [k \in named |-> r.items[last(k)]]

-----------------------------------------------------------------------------

Init ==
    /\ variant \in Variants
    /\ scenario \in Scenarios
    /\ stage = "settle"
    /\ todo = AllKeys(scenario) \ Collide
    /\ prompt = None /\ reply = None /\ decisions = <<>>
    /\ resolved = <<>> /\ unresolved = <<>>

Settle ==
    /\ stage = "settle"
    /\ todo # {}
    /\ resolved' = Append(resolved, SettledEntry(scenario, Least(todo)))
    /\ todo' = todo \ {Least(todo)}
    /\ UNCHANGED <<variant, scenario, stage, prompt, reply, decisions, unresolved>>

\* No collision: the merge returns without a call.
ReturnSettled ==
    /\ stage = "settle"
    /\ todo = {} /\ Collide = {}
    /\ stage' = "returned"
    /\ UNCHANGED <<variant, scenario, todo, prompt, reply, decisions, resolved, unresolved>>

Ask ==
    /\ stage = "settle"
    /\ todo = {} /\ Collide # {}
    /\ stage' = "ask"
    /\ prompt' = PromptOf(variant, scenario)
    /\ UNCHANGED <<variant, scenario, todo, reply, decisions, resolved, unresolved>>

Answer(r) ==
    /\ stage = "ask"
    /\ reply' = r
    /\ stage' = "parse"
    /\ UNCHANGED <<variant, scenario, todo, prompt, decisions, resolved, unresolved>>

\* backend.complete raises: the error is not caught here.
BackendRaises ==
    /\ stage = "ask"
    /\ stage' = "raised"
    /\ UNCHANGED <<variant, scenario, todo, prompt, reply, decisions, resolved, unresolved>>

\* Mutant of Parse: the loop is over the answers, not over the collisions.
ParseThenFollowAnswers ==
    /\ stage = "parse"
    /\ reply.form # "not a list"
    /\ decisions' = ParseResponse(reply)
    /\ stage' = "decide"
    /\ todo' = DOMAIN ParseResponse(reply) \cap KeysOf(scenario.a) \cap KeysOf(scenario.b)
    /\ UNCHANGED <<variant, scenario, prompt, reply, resolved, unresolved>>

Parse ==
    /\ stage = "parse"
    /\ reply.form # "not a list"
    /\ decisions' = ParseResponse(reply)
    /\ stage' = "decide"
    /\ todo' = Collide
    /\ UNCHANGED <<variant, scenario, prompt, reply, resolved, unresolved>>

\* for item in None: TypeError leaves _parse_response and merge.
ParseRaises ==
    /\ stage = "parse"
    /\ reply.form = "not a list"
    /\ stage' = "raised"
    /\ UNCHANGED <<variant, scenario, todo, prompt, reply, decisions, resolved, unresolved>>

Committed(k) ==
    /\ k \in DOMAIN decisions
    /\ decisions[k].resolution # "flagged_unresolved"
    /\ decisions[k].value # None

\* ResolvedFact(justification=...) fails validation: a null one when it is
\* committed (a flagged entry has a default), any other non-text one always.
Unjustified(k) ==
    /\ k \in DOMAIN decisions
    /\ \/ decisions[k].just = "object"
       \/ decisions[k].just = "null" /\ Committed(k)

Flag ==
    /\ stage = "decide"
    /\ todo # {}
    /\ LET k == Least(todo) IN
           /\ ~Committed(k)
           /\ ~Unjustified(k)
           /\ resolved' = Append(resolved, Entry(CurA(k), "flagged_unresolved", Sides))
           /\ unresolved' = Append(unresolved, [a |-> CurA(k).id, b |-> CurB(k).id])
           /\ todo' = todo \ {k}
    /\ UNCHANGED <<variant, scenario, stage, prompt, reply, decisions>>

\* Mutant of CommittedEntry: the model's "kept" is believed without a look at
\* the value.
CommittedOnTrust(k, d) ==
    Entry([IF d.resolution = "kept_from_a" THEN CurA(k) ELSE CurB(k) EXCEPT !.value = d.value],
          IF d.resolution = "merged" THEN "merged" ELSE "kept", Sides)

\* The committed value replaces that of the branch the answer points at.
CommittedEntry(k, d) ==
    LET verbatim == \/ d.resolution = "kept_from_a" /\ d.value = CurA(k).value
                    \/ d.resolution = "kept_from_b" /\ d.value = CurB(k).value
        source == IF d.resolution = "kept_from_a" THEN CurA(k) ELSE CurB(k)
    IN Entry([source EXCEPT !.value = d.value],
             IF verbatim THEN "kept" ELSE "merged", Sides)

Commit ==
    /\ stage = "decide"
    /\ todo # {}
    /\ LET k == Least(todo) IN
           /\ Committed(k)
           /\ ~Unjustified(k)
           /\ resolved' = Append(resolved, CommittedEntry(k, decisions[k]))
           /\ todo' = todo \ {k}
    /\ UNCHANGED <<variant, scenario, stage, prompt, reply, decisions, unresolved>>

ValidationRaises ==
    /\ stage = "decide"
    /\ todo # {}
    /\ Unjustified(Least(todo))
    /\ stage' = "raised"
    /\ UNCHANGED <<variant, scenario, todo, prompt, reply, decisions, resolved, unresolved>>

Return ==
    /\ stage = "decide"
    /\ todo = {}
    /\ stage' = "returned"
    /\ UNCHANGED <<variant, scenario, todo, prompt, reply, decisions, resolved, unresolved>>

MergeStep ==
    \/ Settle \/ ReturnSettled \/ Ask
    \/ \E r \in Replies : Answer(r)
    \/ BackendRaises \/ Parse \/ ParseRaises
    \/ Flag \/ Commit \/ ValidationRaises \/ Return

\* The three merge methods run the same loops and differ in the prompt.
ThreeWayMerge == variant = "three_way_llm" /\ MergeStep
TwoWayMerge == variant = "two_way_llm" /\ MergeStep
RawTextMerge == variant = "raw_text_llm" /\ MergeStep

Next == ThreeWayMerge \/ TwoWayMerge \/ RawTextMerge

Spec == Init /\ [][Next]_vars

-----------------------------------------------------------------------------

TypeOK ==
    /\ variant \in Variants
    /\ ScenarioOK(scenario)
    /\ stage \in {"settle", "ask", "parse", "decide", "returned", "raised"}
    /\ todo \subseteq AllKeys(scenario)
    /\ reply \in Replies \cup {None}
    /\ \A k \in DOMAIN decisions : decisions[k] \in Item
    /\ resolved \in Seq(ResolvedFact)
    /\ unresolved \in Seq([a : Ids, b : Ids])

\* The keys no loop has taken yet.
Unanswered ==
    IF stage = "settle" THEN todo \cup Collide
    ELSE IF stage \in {"ask", "parse"} THEN Collide
    ELSE todo

\* One loop or the other answers each key of either branch: nothing twice, and
\* nothing missing once the merge returns.
AnsweredOnce ==
    /\ \A m, n \in DOMAIN resolved : resolved[m].fact.key = resolved[n].fact.key => m = n
    /\ stage # "raised" =>
           {resolved[n].fact.key : n \in DOMAIN resolved} = AllKeys(scenario) \ Unanswered
    /\ stage = "returned" => Unanswered = {}

\* Outside the collisions every entry is verbatim a branch's current fact, kept.
ReplyConfined ==
    \A n \in DOMAIN resolved :
        resolved[n].fact.key \notin Collide =>
            resolved[n] = SettledEntry(scenario, resolved[n].fact.key)

\* Whatever the model replies, each key of either branch is answered once, and the
\* model cannot touch what it was not asked about, even if the reply names a key
\* that was settled without it, or one that exists nowhere.
OneAnswerPerKey == AnsweredOnce /\ ReplyConfined

\* A value is committed at a collision only on the word of the model: the last
\* item of the reply for that key gives this very value and does not flag it.
\* Silence, garbage and half answers are flagged, never guessed.
NoGuessing ==
    stage = "returned" => \A n \in DOMAIN resolved :
        LET e == resolved[n]
            items == IF reply = None THEN <<>> ELSE reply.items
            said == {i \in DOMAIN items : items[i].key = e.fact.key}
            last == {i \in said : \A j \in said : j <= i}
            commits(i) == items[i].resolution # "flagged_unresolved" /\ items[i].value # None
        IN e.fact.key \in Collide =>
               /\ e.resolution # "flagged_unresolved" <=> \E i \in last : commits(i)
               /\ \A i \in last : commits(i) => e.fact.value = items[i].value

\* "kept" on a collision means kept: the entry is verbatim the current fact of
\* one branch, id and value together.  A merged entry descends from the fact
\* of a branch but carries a value the answer did not attribute to it.
KeptIsVerbatim ==
    \A n \in DOMAIN resolved :
        LET e == resolved[n]
            k == e.fact.key
        IN k \in Collide =>
               /\ e.resolution = "kept" => e.fact \in {CurA(k), CurB(k)}
               /\ e.resolution = "merged" => e.fact.id \in {CurA(k).id, CurB(k).id}
               /\ e.resolution = "flagged_unresolved" => e.fact = CurA(k)

\* The same scenario generated again: other ids and later timestamps.
Regenerated(sc) ==
    LET again(facts) == [i \in DOMAIN facts |->
            [facts[i] EXCEPT !.id = <<@[1], @[2] + 100>>, !.ts = @ + 1]]
    IN [root |-> again(sc.root), a |-> again(sc.a), b |-> again(sc.b)]

\* The prompt is the cache key, and fact ids are random: a prompt that let an
\* id or a timestamp through would miss the cache on every rerun (and tell the
\* model what its instructions say it must not use).
PromptSurvivesRerun ==
    stage = "ask" => prompt = PromptOf(variant, Regenerated(scenario))
=============================================================================
