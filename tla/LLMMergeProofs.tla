--------------------------- MODULE LLMMergeProofs ---------------------------
(* Whatever the model replies, and for any number of keys, branches of any  *)
(* length and replies of any length, the LLM merges answer every key of     *)
(* either branch exactly once, leave what was not asked about as it is, and *)
(* follow the reply where it was.                                           *)
EXTENDS LLMMerge, MemoryLemmas

-----------------------------------------------------------------------------
(* The operators the merges are built from.                                 *)

\* The entry for an answer that is committed is well formed and about its key.
LEMMA CommittedEntryOK ==
    ASSUME ScenarioOK(scenario), NEW k \in Collide, NEW d \in Item, d.value # None
    PROVE  CommittedEntry(k, d) \in ResolvedFact /\ CommittedEntry(k, d).fact.key = k
<1> DEFINE source == IF d.resolution = "kept_from_a" THEN CurA(k) ELSE CurB(k)
           fact == [source EXCEPT !.value = d.value]
<1>1. scenario.a \in Seq(Fact) /\ scenario.b \in Seq(Fact)
  BY DEF ScenarioOK
<1>2. k \in KeysOf(scenario.a) /\ k \in KeysOf(scenario.b)
  BY CollisionKeys DEF Collide
<1>3. source \in Fact /\ source.key = k
  BY <1>1, <1>2, CurrentFactKey DEF CurA, CurB
<1>4. d.value \in Values
  BY DEF Item
<1>5. fact \in Fact /\ fact.key = k
  <2> HIDE DEF source
  <2> QED
    BY <1>3, <1>4 DEF Fact
<1>6. \E r \in {"kept", "merged"} :
          CommittedEntry(k, d) = [fact |-> fact, resolution |-> r, sources |-> Sides]
  BY DEF CommittedEntry, Entry
<1> HIDE DEF fact
<1> QED
  BY <1>5, <1>6 DEF ResolvedFact, Resolutions

\* Parsing a list of items yields items, by keys of the memory.
LEMMA ParsedItems ==
    ASSUME NEW r \in Reply
    PROVE  /\ DOMAIN ParseResponse(r) \subseteq Keys
           /\ \A k \in DOMAIN ParseResponse(r) : ParseResponse(r)[k] \in Item
<1> DEFINE named == {r.items[i].key : i \in DOMAIN r.items} \ {None}
           isLast(k, i) == /\ r.items[i].key = k
                           /\ \A j \in DOMAIN r.items : r.items[j].key = k => j <= i
           last(k) == CHOOSE i \in DOMAIN r.items : isLast(k, i)
<1>1. r.items \in Seq(Item)
  <2>1. CASE r \in [form : {"garbage", "not a list"}, items : {<<>>}]
    <3>1. r.items = <<>>
      BY <2>1
    <3> QED
      BY <3>1
  <2>2. CASE r \in [form : {"list"}, items : Seq(Item)]
    BY <2>2
  <2> QED
    BY <2>1, <2>2 DEF Reply
<1>2. DOMAIN r.items = 1..Len(r.items) /\ Len(r.items) \in Nat
  BY <1>1
<1>3. \A i \in DOMAIN r.items : r.items[i] \in Item
  BY <1>1
<1>4. named \subseteq Keys
  BY <1>3 DEF Item
<1>5. ASSUME NEW k \in named PROVE last(k) \in DOMAIN r.items
  <2> DEFINE T == {i \in DOMAIN r.items : r.items[i].key = k}
  <2>1. T \in SUBSET (1..Len(r.items)) /\ T # {}
    BY <1>2
  <2>2. PICK i \in T : \A j \in T : j <= i
    <3> HIDE DEF T
    <3> QED
      BY <1>2, <2>1, LastPosition
  <2>3. i \in DOMAIN r.items /\ isLast(k, i)
    BY <2>2
  <2> HIDE DEF isLast
  <2> QED
    BY <2>3
<1>6. ParseResponse(r) = [k \in named |-> r.items[last(k)]]
  BY DEF ParseResponse
<1> HIDE DEF named, last
<1> QED
  BY <1>3, <1>4, <1>5, <1>6

-----------------------------------------------------------------------------
(* Types.                                                                   *)

\* A reply is there to be parsed, what was parsed are items, and each of the
\* two loops takes keys of its own.
Typed ==
    /\ TypeOK
    /\ stage = "parse" => reply \in Replies
    /\ DOMAIN decisions \subseteq Keys
    /\ stage = "settle" => todo \cap Collide = {}
    /\ stage = "decide" => todo \subseteq Collide

\* An entry more, a key less: what Settle, Flag and Commit do.
LEMMA StepTypes ==
    ASSUME TypeOK, NEW k \in todo, NEW e \in ResolvedFact
    PROVE  Append(resolved, e) \in Seq(ResolvedFact) /\ todo \ {k} \subseteq AllKeys(scenario)
BY DEF TypeOK

\* The key a loop takes is one it has left.
LEMMA LoopKey ==
    ASSUME TypeOK, todo # {}
    PROVE  Least(todo) \in todo /\ Least(todo) \in AllKeys(scenario)
BY LeastIn, CollisionKeys DEF TypeOK

\* A flagged entry is well formed, and so is the pair reported with it.
LEMMA FlaggedEntryOK ==
    ASSUME ScenarioOK(scenario), NEW k \in Collide
    PROVE  /\ Entry(CurA(k), "flagged_unresolved", Sides) \in ResolvedFact
           /\ Entry(CurA(k), "flagged_unresolved", Sides).fact.key = k
           /\ [a |-> CurA(k).id, b |-> CurB(k).id] \in [a : Ids, b : Ids]
<1>1. scenario.a \in Seq(Fact) /\ scenario.b \in Seq(Fact)
  BY DEF ScenarioOK
<1>2. k \in KeysOf(scenario.a) /\ k \in KeysOf(scenario.b)
  BY CollisionKeys DEF Collide
<1>3. CurA(k) \in Fact /\ CurA(k).key = k /\ CurB(k) \in Fact
  BY <1>1, <1>2, CurrentFactKey DEF CurA, CurB
<1>4. CurA(k).id \in Ids /\ CurB(k).id \in Ids
  BY <1>3 DEF Fact
<1> QED
  BY <1>3, <1>4 DEF Entry, ResolvedFact, Resolutions

LEMMA TypedInductive == Spec => []Typed
<1> USE DEF Typed, TypeOK
<1>1. Init => Typed
  <2> SUFFICES ASSUME Init PROVE Typed
    OBVIOUS
  <2>1. ScenarioOK(scenario)
    BY ScenariosAssumption DEF Init
  <2>2. todo \subseteq AllKeys(scenario) /\ todo \cap Collide = {}
    BY DEF Init
  <2>3. decisions = <<>> /\ DOMAIN decisions = {}
    BY DEF Init
  <2> QED
    BY <2>1, <2>2, <2>3 DEF Init
<1>2. Typed /\ [Next]_vars => Typed'
  <2> SUFFICES ASSUME Typed, [Next]_vars PROVE Typed'
    OBVIOUS
  <2> USE DEF Collide
  <2>1. CASE Settle
    <3>1. Least(todo) \in todo /\ SettledEntry(scenario, Least(todo)) \in ResolvedFact
      BY <2>1, LoopKey, SettledEntryOK DEF Settle
    <3> QED
      BY <2>1, <3>1, StepTypes DEF Settle
  <2>2. CASE ReturnSettled
    BY <2>2 DEF ReturnSettled
  <2>3. CASE Ask
    BY <2>3 DEF Ask
  <2>4. ASSUME NEW r \in Replies, Answer(r) PROVE Typed'
    BY <2>4 DEF Answer
  <2>5. CASE BackendRaises
    BY <2>5 DEF BackendRaises
  <2>6. CASE Parse
    <3>1. reply \in Reply
      BY <2>6, RepliesAssumption DEF Parse
    <3>2. Collide \subseteq AllKeys(scenario)
      BY CollisionKeys
    <3>3. DOMAIN decisions' \subseteq Keys /\ \A k \in DOMAIN decisions' : decisions'[k] \in Item
      BY <2>6, <3>1, ParsedItems DEF Parse
    <3> QED
      BY <2>6, <3>2, <3>3 DEF Parse
  <2>7. CASE ParseRaises
    BY <2>7 DEF ParseRaises
  <2>8. CASE Flag
    <3> DEFINE k == Least(todo)
               pair == [a |-> CurA(k).id, b |-> CurB(k).id]
    <3>1. k \in todo /\ k \in Collide
      BY <2>8, LoopKey DEF Flag
    <3>2. Entry(CurA(k), "flagged_unresolved", Sides) \in ResolvedFact /\ pair \in [a : Ids, b : Ids]
      BY <3>1, FlaggedEntryOK
    <3>3. resolved' = Append(resolved, Entry(CurA(k), "flagged_unresolved", Sides))
      BY <2>8 DEF Flag
    <3>4. unresolved' = Append(unresolved, pair)
      BY <2>8 DEF Flag
    <3>5. todo' = todo \ {k} /\ UNCHANGED <<variant, scenario, stage, prompt, reply, decisions>>
      BY <2>8 DEF Flag
    <3> HIDE DEF k, pair
    <3>6. resolved' \in Seq(ResolvedFact) /\ todo' \subseteq AllKeys(scenario)
      BY <3>1, <3>2, <3>3, <3>5, StepTypes
    <3>7. unresolved' \in Seq([a : Ids, b : Ids])
      BY <3>2, <3>4
    <3> QED
      BY <2>8, <3>5, <3>6, <3>7
  <2>9. CASE Commit
    <3> DEFINE k == Least(todo)
    <3>1. k \in todo /\ k \in Collide
      BY <2>9, LoopKey DEF Commit
    <3>2. decisions[k] \in Item /\ decisions[k].value # None
      BY <2>9 DEF Commit, Committed
    <3>3. CommittedEntry(k, decisions[k]) \in ResolvedFact
      BY <3>1, <3>2, CommittedEntryOK
    <3> QED
      BY <2>9, <3>1, <3>3, StepTypes DEF Commit
  <2>10. CASE ValidationRaises
    BY <2>10 DEF ValidationRaises
  <2>11. CASE Return
    BY <2>11 DEF Return
  <2>12. CASE UNCHANGED vars
    BY <2>12 DEF vars
  <2> QED
    BY <2>1, <2>2, <2>3, <2>4, <2>5, <2>6, <2>7, <2>8, <2>9, <2>10, <2>11, <2>12
       DEF Next, ThreeWayMerge, TwoWayMerge, RawTextMerge, MergeStep
<1> QED
  BY <1>1, <1>2, PTL DEF Spec

\* Types hold in every state, whatever the replies.
THEOREM TypeCorrect == Spec => []TypeOK
<1>1. Typed => TypeOK
  BY DEF Typed
<1> QED
  BY <1>1, TypedInductive, PTL

-----------------------------------------------------------------------------
(* One answer per key.                                                      *)

Answered(entries) == {entries[n].fact.key : n \in DOMAIN entries}
Distinct(entries) ==
    \A m, n \in DOMAIN entries : entries[m].fact.key = entries[n].fact.key => m = n

\* An entry for a key that has none keeps the answers distinct.
LEMMA AnswerAppended ==
    ASSUME NEW entries \in Seq(ResolvedFact), NEW e \in ResolvedFact
    PROVE  /\ Answered(Append(entries, e)) = Answered(entries) \cup {e.fact.key}
           /\ (Distinct(entries) /\ e.fact.key \notin Answered(entries))
                  => Distinct(Append(entries, e))
<1> DEFINE longer == Append(entries, e)
           last == Len(entries) + 1
<1>1. DOMAIN longer = DOMAIN entries \cup {last} /\ last \notin DOMAIN entries
  OBVIOUS
<1>2. longer[last] = e /\ \A n \in DOMAIN entries : longer[n] = entries[n]
  OBVIOUS
<1> HIDE DEF longer, last
<1>3. Answered(longer) = Answered(entries) \cup {e.fact.key}
  BY <1>1, <1>2 DEF Answered
<1>4. (Distinct(entries) /\ e.fact.key \notin Answered(entries)) => Distinct(longer)
  BY <1>1, <1>2 DEF Distinct, Answered
<1> QED
  BY <1>3, <1>4 DEF longer

\* The loops answer each key of either branch once.
THEOREM EachKeyIsAnswered == Spec => []AnsweredOnce
<1> USE DEF Collide
<1>1. Init => AnsweredOnce
  <2> SUFFICES ASSUME Init PROVE AnsweredOnce
    OBVIOUS
  <2>1. resolved = <<>> /\ DOMAIN resolved = {} /\ stage = "settle"
    BY DEF Init
  <2>2. AllKeys(scenario) \subseteq Unanswered
    BY DEF Init, Unanswered
  <2> QED
    BY <2>1, <2>2 DEF AnsweredOnce
<1>2. Typed /\ AnsweredOnce /\ [Next]_vars => AnsweredOnce'
  <2> SUFFICES ASSUME Typed, AnsweredOnce, [Next]_vars PROVE AnsweredOnce'
    OBVIOUS
  <2> USE DEF AnsweredOnce
  \* The three actions that answer a key.
  <2>1. ASSUME stage \in {"settle", "decide"}, stage' = stage, scenario' = scenario,
               NEW k \in todo, NEW e \in ResolvedFact, e.fact.key = k,
               resolved' = Append(resolved, e), todo' = todo \ {k}
        PROVE  AnsweredOnce'
    <3>1. resolved \in Seq(ResolvedFact) /\ todo \subseteq AllKeys(scenario)
      BY DEF Typed, TypeOK
    <3>2. Distinct(resolved) /\ Answered(resolved) = AllKeys(scenario) \ Unanswered
      BY <2>1 DEF Distinct, Answered
    <3>3. k \in Unanswered /\ Unanswered' = Unanswered \ {k}
      BY <2>1 DEF Unanswered, Typed
    <3>4. Distinct(resolved') /\ Answered(resolved') = AllKeys(scenario) \ Unanswered'
      BY <2>1, <3>1, <3>2, <3>3, AnswerAppended
    <3> QED
      BY <2>1, <3>4 DEF Distinct, Answered
  <2>2. CASE Settle
    <3>1. Least(todo) \in todo /\ Least(todo) \in AllKeys(scenario)
      BY <2>2, LoopKey DEF Settle, Typed
    <3>2. /\ SettledEntry(scenario, Least(todo)) \in ResolvedFact
          /\ SettledEntry(scenario, Least(todo)).fact.key = Least(todo)
      BY <3>1, SettledEntryOK DEF Typed, TypeOK
    <3> QED
      BY <2>1, <2>2, <3>1, <3>2 DEF Settle
  <2>3. CASE ReturnSettled
    BY <2>3 DEF ReturnSettled, Unanswered
  <2>4. CASE Ask
    BY <2>4 DEF Ask, Unanswered
  <2>5. ASSUME NEW r \in Replies, Answer(r) PROVE AnsweredOnce'
    BY <2>5 DEF Answer, Unanswered
  <2>6. CASE Parse
    BY <2>6 DEF Parse, Unanswered
  <2>7. CASE BackendRaises \/ ParseRaises \/ ValidationRaises
    BY <2>7 DEF BackendRaises, ParseRaises, ValidationRaises
  <2>8. CASE Flag
    <3> DEFINE e == Entry(CurA(Least(todo)), "flagged_unresolved", Sides)
    <3>1. Least(todo) \in todo /\ Least(todo) \in Collide
      BY <2>8, LoopKey DEF Flag, Typed
    <3>2. e \in ResolvedFact /\ e.fact.key = Least(todo)
      BY <3>1, FlaggedEntryOK DEF Typed, TypeOK
    <3>3. resolved' = Append(resolved, e)
      BY <2>8 DEF Flag
    <3> HIDE DEF e
    <3> QED
      BY <2>1, <2>8, <3>1, <3>2, <3>3 DEF Flag
  <2>9. CASE Commit
    <3> DEFINE k == Least(todo)
               e == CommittedEntry(k, decisions[k])
    <3>1. k \in todo /\ k \in Collide
      BY <2>9, LoopKey DEF Commit, Typed
    <3>2. decisions[k] \in Item /\ decisions[k].value # None
      BY <2>9 DEF Commit, Committed, Typed, TypeOK
    <3>3. e \in ResolvedFact /\ e.fact.key = k
      BY <3>1, <3>2, CommittedEntryOK DEF Typed, TypeOK
    <3>4. resolved' = Append(resolved, e)
      BY <2>9 DEF Commit
    <3> HIDE DEF e
    <3> QED
      BY <2>1, <2>9, <3>1, <3>3, <3>4 DEF Commit
  <2>10. CASE Return
    BY <2>10 DEF Return, Unanswered
  <2>11. CASE UNCHANGED vars
    BY <2>11 DEF vars, Unanswered
  <2> QED
    BY <2>2, <2>3, <2>4, <2>5, <2>6, <2>7, <2>8, <2>9, <2>10, <2>11
       DEF Next, ThreeWayMerge, TwoWayMerge, RawTextMerge, MergeStep
<1> QED
  BY <1>1, <1>2, TypedInductive, PTL DEF Spec

-----------------------------------------------------------------------------
(* What the entries say.                                                    *)

\* What a step adds to the result: nothing, the entry of a settled key, or for a
\* key in collision the flag or the committed answer.
LEMMA NextEntry ==
    ASSUME Typed, [Next]_vars
    PROVE  /\ scenario' = scenario
           /\ \/ resolved' = resolved
              \/ \E k \in AllKeys(scenario) \ Collide :
                     resolved' = Append(resolved, SettledEntry(scenario, k))
              \/ /\ stage = "decide" /\ UNCHANGED <<stage, reply, decisions>>
                 /\ \E k \in Collide :
                        \/ /\ ~Committed(k)
                           /\ resolved' = Append(resolved, Entry(CurA(k), "flagged_unresolved", Sides))
                        \/ /\ Committed(k)
                           /\ resolved' = Append(resolved, CommittedEntry(k, decisions[k]))
<1>1. CASE Settle
  <2>1. Least(todo) \in AllKeys(scenario) \ Collide
    BY <1>1, LoopKey DEF Settle, Typed
  <2> QED
    BY <1>1, <2>1 DEF Settle
<1>2. CASE Flag
  <2>1. Least(todo) \in Collide
    BY <1>2, LoopKey DEF Flag, Typed
  <2> QED
    BY <1>2, <2>1 DEF Flag
<1>3. CASE Commit
  <2>1. Least(todo) \in Collide
    BY <1>3, LoopKey DEF Commit, Typed
  <2> QED
    BY <1>3, <2>1 DEF Commit
<1>4. CASE UNCHANGED <<scenario, resolved>>
  BY <1>4
<1> QED
  BY <1>1, <1>2, <1>3, <1>4
     DEF Next, ThreeWayMerge, TwoWayMerge, RawTextMerge, MergeStep, ReturnSettled, Ask, Answer,
         BackendRaises, Parse, ParseRaises, ValidationRaises, Return, vars

\* An entry of a longer result is one of the shorter or the last.
LEMMA EntryAppended ==
    ASSUME NEW entries \in Seq(ResolvedFact), NEW e
    PROVE  \A n \in DOMAIN Append(entries, e) :
               \/ n \in DOMAIN entries /\ Append(entries, e)[n] = entries[n]
               \/ Append(entries, e)[n] = e
OBVIOUS

\* Outside the collisions the result is what the code alone makes it, whatever
\* the reply names.
THEOREM ReplyIsConfined == Spec => []ReplyConfined
<1>1. Init => ReplyConfined
  BY DEF Init, ReplyConfined
<1>2. Typed /\ ReplyConfined /\ [Next]_vars => ReplyConfined'
  <2> SUFFICES ASSUME Typed, ReplyConfined, [Next]_vars PROVE ReplyConfined'
    OBVIOUS
  <2>1. scenario' = scenario /\ Collide' = Collide /\ resolved \in Seq(ResolvedFact) /\ ScenarioOK(scenario)
    BY NextEntry DEF Collide, Typed, TypeOK
  <2>2. CASE resolved' = resolved
    BY <2>1, <2>2 DEF ReplyConfined
  <2>3. ASSUME NEW k \in AllKeys(scenario) \ Collide,
               resolved' = Append(resolved, SettledEntry(scenario, k))
        PROVE  ReplyConfined'
    <3>1. SettledEntry(scenario, k).fact.key = k
      BY <2>1, SettledEntryOK
    <3> QED
      BY <2>1, <2>3, <3>1, EntryAppended DEF ReplyConfined
  <2>4. ASSUME NEW k \in Collide, NEW e, e.fact.key = k, resolved' = Append(resolved, e)
        PROVE  ReplyConfined'
    BY <2>1, <2>4, EntryAppended DEF ReplyConfined
  <2>5. ASSUME NEW k \in Collide, Committed(k)
        PROVE  CommittedEntry(k, decisions[k]).fact.key = k
    <3>1. decisions[k] \in Item /\ decisions[k].value # None
      BY <2>5 DEF Committed, Typed, TypeOK
    <3> QED
      BY <2>1, <3>1, CommittedEntryOK
  <2> QED
    BY <2>1, <2>2, <2>3, <2>4, <2>5, NextEntry, FlaggedEntryOK
<1> QED
  BY <1>1, <1>2, TypedInductive, PTL DEF Spec

\* Whatever the model replies, a merge answers each key of either branch once,
\* and lets the reply decide nothing but the collisions.
THEOREM EveryKeyAnsweredOnce == Spec => []OneAnswerPerKey
<1>1. AnsweredOnce /\ ReplyConfined => OneAnswerPerKey
  BY DEF OneAnswerPerKey
<1> QED
  BY <1>1, EachKeyIsAnswered, ReplyIsConfined, PTL

\* What KeptIsVerbatim says of one entry.
Verbatim(e) ==
    e.fact.key \in Collide =>
        /\ e.resolution = "kept" => e.fact \in {CurA(e.fact.key), CurB(e.fact.key)}
        /\ e.resolution = "merged" => e.fact.id \in {CurA(e.fact.key).id, CurB(e.fact.key).id}
        /\ e.resolution = "flagged_unresolved" => e.fact = CurA(e.fact.key)

\* A committed answer is called kept only if nothing of the fact changes.
LEMMA CommittedVerbatim ==
    ASSUME ScenarioOK(scenario), NEW k \in Collide, NEW d \in Item, d.value # None
    PROVE  Verbatim(CommittedEntry(k, d))
<1> DEFINE source == IF d.resolution = "kept_from_a" THEN CurA(k) ELSE CurB(k)
           verbatim == \/ d.resolution = "kept_from_a" /\ d.value = CurA(k).value
                       \/ d.resolution = "kept_from_b" /\ d.value = CurB(k).value
           fact == [source EXCEPT !.value = d.value]
           e == CommittedEntry(k, d)
<1>1. e = [fact |-> fact, resolution |-> IF verbatim THEN "kept" ELSE "merged", sources |-> Sides]
  BY DEF CommittedEntry, Entry
<1>2. e.fact.key = k
  BY CommittedEntryOK
<1>3. scenario.a \in Seq(Fact) /\ scenario.b \in Seq(Fact)
  BY DEF ScenarioOK
<1>4. CurA(k) \in Fact /\ CurB(k) \in Fact
  BY <1>3, CollisionKeys, CurrentFactKey DEF Collide, CurA, CurB
<1>5. source \in Fact /\ source \in {CurA(k), CurB(k)} /\ (verbatim => source.value = d.value)
  BY <1>4
<1> HIDE DEF source
<1>6. fact.id = source.id /\ (verbatim => fact = source)
  BY <1>5 DEF Fact
<1> HIDE DEF fact, verbatim, e
<1> QED
  BY <1>1, <1>2, <1>5, <1>6 DEF Verbatim, e

\* What was called kept is one branch's fact, and what was called merged
\* descends from one.
THEOREM KeptMeansKept == Spec => []KeptIsVerbatim
<1>1. Init => KeptIsVerbatim
  BY DEF Init, KeptIsVerbatim
<1>2. Typed /\ KeptIsVerbatim /\ [Next]_vars => KeptIsVerbatim'
  <2> SUFFICES ASSUME Typed, KeptIsVerbatim, [Next]_vars PROVE KeptIsVerbatim'
    OBVIOUS
  <2>1. scenario' = scenario /\ resolved \in Seq(ResolvedFact) /\ ScenarioOK(scenario)
    BY NextEntry DEF Typed, TypeOK
  <2>2. \A n \in DOMAIN resolved : Verbatim(resolved[n])
    BY DEF KeptIsVerbatim, Verbatim
  <2>3. (\A n \in DOMAIN resolved' : Verbatim(resolved'[n])) => KeptIsVerbatim'
    BY <2>1 DEF KeptIsVerbatim, Verbatim, CurA, CurB, Collide
  <2>4. ASSUME NEW e, Verbatim(e), resolved' = Append(resolved, e)
        PROVE  \A n \in DOMAIN resolved' : Verbatim(resolved'[n])
    BY <2>1, <2>2, <2>4, EntryAppended
  <2>5. ASSUME NEW k \in AllKeys(scenario) \ Collide PROVE Verbatim(SettledEntry(scenario, k))
    BY <2>1, SettledEntryOK DEF Verbatim
  <2>6. ASSUME NEW k \in Collide PROVE Verbatim(Entry(CurA(k), "flagged_unresolved", Sides))
    <3>1. Entry(CurA(k), "flagged_unresolved", Sides).fact.key = k
      BY <2>1, FlaggedEntryOK
    <3> QED
      BY <3>1 DEF Verbatim, Entry
  <2>7. ASSUME NEW k \in Collide, Committed(k) PROVE Verbatim(CommittedEntry(k, decisions[k]))
    <3>1. decisions[k] \in Item /\ decisions[k].value # None
      BY <2>7 DEF Committed, Typed, TypeOK
    <3> QED
      BY <2>1, <3>1, CommittedVerbatim
  <2> QED
    BY <2>2, <2>3, <2>4, <2>5, <2>6, <2>7, NextEntry
<1> QED
  BY <1>1, <1>2, TypedInductive, PTL DEF Spec

-----------------------------------------------------------------------------
(* Nothing is guessed.                                                      *)

\* The items of a reply that name a key, and the last of them.
Said(items, k) == {i \in DOMAIN items : items[i].key = k}
Last(T) == {i \in T : \A j \in T : j <= i}

\* What is parsed for a key is the last item that names it, and nothing is
\* parsed for a key no item names.
LEMMA ParsedIsLast ==
    ASSUME NEW r \in Reply, NEW k \in Keys
    PROVE  /\ k \in DOMAIN ParseResponse(r) <=> Last(Said(r.items, k)) # {}
           /\ \A i \in Last(Said(r.items, k)) : ParseResponse(r)[k] = r.items[i]
<1> DEFINE named == {r.items[i].key : i \in DOMAIN r.items} \ {None}
           isLast(q, i) == /\ r.items[i].key = q
                           /\ \A j \in DOMAIN r.items : r.items[j].key = q => j <= i
           last(q) == CHOOSE i \in DOMAIN r.items : isLast(q, i)
<1>1. r.items \in Seq(Item)
  <2>1. CASE r \in [form : {"garbage", "not a list"}, items : {<<>>}]
    <3>1. r.items = <<>>
      BY <2>1
    <3> QED
      BY <3>1
  <2>2. CASE r \in [form : {"list"}, items : Seq(Item)]
    BY <2>2
  <2> QED
    BY <2>1, <2>2 DEF Reply
<1>2. DOMAIN r.items = 1..Len(r.items) /\ Len(r.items) \in Nat
  BY <1>1
<1>3. \A i \in DOMAIN r.items : isLast(k, i) <=> i \in Last(Said(r.items, k))
  BY DEF Last, Said
<1>4. ParseResponse(r) = [q \in named |-> r.items[last(q)]]
  BY DEF ParseResponse
<1>5. k \in named <=> Said(r.items, k) # {}
  BY NoneAssumption DEF Said
<1>6. Said(r.items, k) # {} => Last(Said(r.items, k)) # {}
  <2> SUFFICES ASSUME Said(r.items, k) # {} PROVE Last(Said(r.items, k)) # {}
    OBVIOUS
  <2>1. Said(r.items, k) \in SUBSET (1..Len(r.items))
    BY <1>2 DEF Said
  <2>2. PICK i \in Said(r.items, k) : \A j \in Said(r.items, k) : j <= i
    BY <1>2, <2>1, LastPosition
  <2> QED
    BY <2>2 DEF Last
<1>7. ASSUME NEW i \in Last(Said(r.items, k)) PROVE last(k) = i /\ k \in named
  <2>1. i \in DOMAIN r.items /\ isLast(k, i) /\ i \in Said(r.items, k)
    BY <1>3 DEF Last, Said
  <2>2. last(k) \in DOMAIN r.items /\ isLast(k, last(k))
    <3> HIDE DEF isLast
    <3> QED
      BY <2>1
  <2>3. \A m, n \in DOMAIN r.items : isLast(k, m) /\ isLast(k, n) => m = n
    BY <1>2
  <2> HIDE DEF isLast, last
  <2> QED
    BY <1>5, <2>1, <2>2, <2>3
<1> HIDE DEF named, last, isLast
<1>8. Last(Said(r.items, k)) \subseteq Said(r.items, k)
  BY DEF Last
<1> QED
  BY <1>4, <1>5, <1>6, <1>7, <1>8

\* What the entry of a key in collision owes to the parsed answers.
FollowsAnswer(e) ==
    e.fact.key \in Collide =>
        /\ e.resolution # "flagged_unresolved" <=> Committed(e.fact.key)
        /\ Committed(e.fact.key) => e.fact.value = decisions[e.fact.key].value

\* No collision is answered before the reply is parsed; what was parsed is the
\* reply; and the entries for collisions follow it.
AnswersFollowed ==
    /\ stage \in {"settle", "ask", "parse"} =>
           \A n \in DOMAIN resolved : resolved[n].fact.key \notin Collide
    /\ stage = "decide" \/ (stage = "returned" /\ Collide # {}) =>
           /\ reply \in Replies /\ decisions = ParseResponse(reply)
           /\ \A n \in DOMAIN resolved : FollowsAnswer(resolved[n])

LEMMA AnswersFollowedInductive == Spec => []AnswersFollowed
<1>1. Init => AnswersFollowed
  BY DEF Init, AnswersFollowed
<1>2. Typed /\ AnswersFollowed /\ [Next]_vars => AnswersFollowed'
  <2> SUFFICES ASSUME Typed, AnswersFollowed, [Next]_vars PROVE AnswersFollowed'
    OBVIOUS
  <2>1. /\ scenario' = scenario /\ Collide' = Collide
        /\ resolved \in Seq(ResolvedFact) /\ ScenarioOK(scenario)
    BY NextEntry DEF Collide, Typed, TypeOK
  <2>2. CASE Settle
    <3>1. Least(todo) \in AllKeys(scenario) \ Collide
      BY <2>2, LoopKey DEF Settle, Typed
    <3>2. SettledEntry(scenario, Least(todo)).fact.key \notin Collide
      BY <2>1, <3>1, SettledEntryOK
    <3>3. stage = "settle" /\ stage' = "settle" /\ resolved' = Append(resolved, SettledEntry(scenario, Least(todo)))
      BY <2>2 DEF Settle
    <3>4. \A n \in DOMAIN resolved' : resolved'[n].fact.key \notin Collide
      BY <2>1, <3>2, <3>3, EntryAppended DEF AnswersFollowed
    <3> QED
      BY <2>1, <3>3, <3>4 DEF AnswersFollowed
  <2>3. CASE ReturnSettled
    BY <2>1, <2>3 DEF ReturnSettled, AnswersFollowed
  <2>4. CASE Ask \/ \E r \in Replies : Answer(r)
    BY <2>1, <2>4 DEF Ask, Answer, AnswersFollowed
  <2>5. CASE BackendRaises \/ ParseRaises \/ ValidationRaises
    BY <2>1, <2>5 DEF BackendRaises, ParseRaises, ValidationRaises, AnswersFollowed
  <2>6. CASE Parse
    <3>1. /\ stage = "parse" /\ stage' = "decide" /\ UNCHANGED <<reply, resolved>>
          /\ decisions' = ParseResponse(reply) /\ reply \in Replies
      BY <2>6 DEF Parse, Typed
    <3>2. \A n \in DOMAIN resolved' : FollowsAnswer(resolved[n])'
      BY <2>1, <3>1 DEF AnswersFollowed, FollowsAnswer
    <3> QED
      BY <3>1, <3>2 DEF AnswersFollowed
  <2>7. ASSUME stage = "decide", UNCHANGED <<stage, reply, decisions>>,
               NEW e, FollowsAnswer(e), resolved' = Append(resolved, e)
        PROVE  AnswersFollowed'
    <3>1. \A n \in DOMAIN resolved' : FollowsAnswer(resolved'[n])
      BY <2>1, <2>7, EntryAppended DEF AnswersFollowed
    <3>2. \A n \in DOMAIN resolved' : FollowsAnswer(resolved[n])'
      BY <2>1, <2>7, <3>1 DEF FollowsAnswer, Committed
    <3> QED
      BY <2>7, <3>2 DEF AnswersFollowed
  <2>8. CASE Flag
    <3>1. /\ Least(todo) \in Collide /\ ~Committed(Least(todo))
          /\ UNCHANGED <<stage, reply, decisions>> /\ stage = "decide"
          /\ resolved' = Append(resolved, Entry(CurA(Least(todo)), "flagged_unresolved", Sides))
      BY <2>8, LoopKey DEF Flag, Typed
    <3>2. FollowsAnswer(Entry(CurA(Least(todo)), "flagged_unresolved", Sides))
      <4>1. Entry(CurA(Least(todo)), "flagged_unresolved", Sides).fact.key = Least(todo)
        BY <2>1, <3>1, FlaggedEntryOK
      <4> QED
        BY <3>1, <4>1 DEF FollowsAnswer, Entry
    <3> QED
      BY <2>7, <3>1, <3>2
  <2>9. CASE Commit
    <3> DEFINE k == Least(todo)
               d == decisions[k]
               source == IF d.resolution = "kept_from_a" THEN CurA(k) ELSE CurB(k)
    <3>1. /\ k \in Collide /\ Committed(k)
          /\ UNCHANGED <<stage, reply, decisions>> /\ stage = "decide"
          /\ resolved' = Append(resolved, CommittedEntry(k, d))
      BY <2>9, LoopKey DEF Commit, Typed
    <3>2. d \in Item /\ d.value # None
      BY <3>1 DEF Committed, Typed, TypeOK
    <3>3. CommittedEntry(k, d).fact.key = k
      BY <2>1, <3>1, <3>2, CommittedEntryOK
    <3>4. /\ CommittedEntry(k, d).fact = [source EXCEPT !.value = d.value]
          /\ CommittedEntry(k, d).resolution \in {"kept", "merged"}
      BY DEF CommittedEntry, Entry
    <3>5. source \in Fact
      <4>1. CurA(k) \in Fact /\ CurB(k) \in Fact
        BY <2>1, <3>1, CollisionKeys, CurrentFactKey DEF Collide, CurA, CurB, ScenarioOK
      <4> QED
        BY <4>1
    <3> HIDE DEF source
    <3>6. CommittedEntry(k, d).fact.value = d.value
      BY <3>4, <3>5 DEF Fact
    <3>7. FollowsAnswer(CommittedEntry(k, d))
      BY <3>1, <3>3, <3>4, <3>6 DEF FollowsAnswer
    <3> QED
      BY <2>7, <3>1, <3>7
  <2>10. CASE Return
    <3>1. /\ stage = "decide" /\ stage' = "returned"
          /\ UNCHANGED <<reply, decisions, resolved>>
      BY <2>10 DEF Return
    <3>2. \A n \in DOMAIN resolved' : FollowsAnswer(resolved[n])'
      BY <2>1, <3>1 DEF AnswersFollowed, FollowsAnswer, Committed
    <3> QED
      BY <2>1, <3>1, <3>2 DEF AnswersFollowed
  <2>11. CASE UNCHANGED vars
    BY <2>1, <2>11 DEF vars, AnswersFollowed, FollowsAnswer, Committed
  <2> QED
    BY <2>2, <2>3, <2>4, <2>5, <2>6, <2>8, <2>9, <2>10, <2>11
       DEF Next, ThreeWayMerge, TwoWayMerge, RawTextMerge, MergeStep
<1> QED
  BY <1>1, <1>2, TypedInductive, PTL DEF Spec

\* A collision is resolved exactly when the reply's last item for its key says
\* so, and then to the value that item gives.
THEOREM NothingGuessed == Spec => []NoGuessing
<1>1. Typed /\ AnswersFollowed => NoGuessing
  <2> SUFFICES ASSUME Typed, AnswersFollowed, stage = "returned", NEW n \in DOMAIN resolved,
                      resolved[n].fact.key \in Collide
               PROVE  LET e == resolved[n]
                          items == IF reply = None THEN <<>> ELSE reply.items
                          said == {i \in DOMAIN items : items[i].key = e.fact.key}
                          last == {i \in said : \A j \in said : j <= i}
                          commits(i) == items[i].resolution # "flagged_unresolved" /\ items[i].value # None
                      IN /\ e.resolution # "flagged_unresolved" <=> \E i \in last : commits(i)
                         /\ \A i \in last : commits(i) => e.fact.value = items[i].value
    BY DEF NoGuessing
  <2> DEFINE k == resolved[n].fact.key
  <2>1. /\ reply \in Replies /\ decisions = ParseResponse(reply)
        /\ FollowsAnswer(resolved[n])
    BY DEF AnswersFollowed
  <2>2. reply # None /\ reply \in Reply /\ k \in Keys
    BY <2>1, RepliesAssumption, CollisionKeys DEF Typed, TypeOK, Collide
  <2>3. /\ k \in DOMAIN decisions <=> Last(Said(reply.items, k)) # {}
        /\ \A i \in Last(Said(reply.items, k)) : decisions[k] = reply.items[i]
    BY <2>1, <2>2, ParsedIsLast
  <2>4. /\ resolved[n].resolution # "flagged_unresolved" <=> Committed(k)
        /\ Committed(k) => resolved[n].fact.value = decisions[k].value
    BY <2>1 DEF FollowsAnswer
  <2>5. Committed(k) <=> \E i \in Last(Said(reply.items, k)) :
            reply.items[i].resolution # "flagged_unresolved" /\ reply.items[i].value # None
    BY <2>3 DEF Committed
  <2> HIDE DEF k
  <2>6. /\ resolved[n].resolution # "flagged_unresolved" <=>
               \E i \in Last(Said(reply.items, k)) :
                   reply.items[i].resolution # "flagged_unresolved" /\ reply.items[i].value # None
        /\ \A i \in Last(Said(reply.items, k)) :
               (reply.items[i].resolution # "flagged_unresolved" /\ reply.items[i].value # None)
                   => resolved[n].fact.value = reply.items[i].value
    BY <2>3, <2>4, <2>5
  <2> QED
    BY <2>2, <2>6 DEF Last, Said, k
<1> QED
  BY <1>1, TypedInductive, AnswersFollowedInductive, PTL

-----------------------------------------------------------------------------
(* The prompt is the same on a rerun.                                       *)

\* The facts of Regenerated: other ids, later timestamps.
Again(facts) ==
    [i \in DOMAIN facts |-> [facts[i] EXCEPT !.id = <<@[1], @[2] + 100>>, !.ts = @ + 1]]

\* Facts generated again hold the same keys and, for each, a current fact of
\* the same value and confidence.
LEMMA AgainSameBeliefs ==
    ASSUME NEW facts \in Seq(Fact)
    PROVE  /\ KeysOf(Again(facts)) = KeysOf(facts)
           /\ \A k \in KeysOf(facts) :
                  /\ CurrentFact(Again(facts), k).value = CurrentFact(facts, k).value
                  /\ CurrentFact(Again(facts), k).conf = CurrentFact(facts, k).conf
<1>1. DOMAIN Again(facts) = DOMAIN facts
  BY DEF Again
<1>2. ASSUME NEW i \in DOMAIN facts
      PROVE  /\ Again(facts)[i].key = facts[i].key /\ Again(facts)[i].value = facts[i].value
             /\ Again(facts)[i].conf = facts[i].conf /\ Again(facts)[i].ts = facts[i].ts + 1
  <2>1. facts[i] \in Fact
    OBVIOUS
  <2> QED
    BY <2>1 DEF Again, Fact
<1>3. \A m, n \in DOMAIN facts :
          /\ Again(facts)[m].ts < Again(facts)[n].ts <=> facts[m].ts < facts[n].ts
          /\ Again(facts)[m].ts = Again(facts)[n].ts <=> facts[m].ts = facts[n].ts
  <2> SUFFICES ASSUME NEW m \in DOMAIN facts, NEW n \in DOMAIN facts
               PROVE  /\ Again(facts)[m].ts < Again(facts)[n].ts <=> facts[m].ts < facts[n].ts
                      /\ Again(facts)[m].ts = Again(facts)[n].ts <=> facts[m].ts = facts[n].ts
    OBVIOUS
  <2>1. facts[m].ts \in Nat /\ facts[n].ts \in Nat
    BY FactFields
  <2>2. Again(facts)[m].ts = facts[m].ts + 1 /\ Again(facts)[n].ts = facts[n].ts + 1
    BY <1>2
  <2> QED
    BY <2>1, <2>2
<1>4. /\ KeysOf(Again(facts)) = KeysOf(facts)
      /\ \A k \in KeysOf(facts) : \E i \in DOMAIN facts :
             CurrentFact(facts, k) = facts[i] /\ CurrentFact(Again(facts), k) = Again(facts)[i]
  <2> HIDE DEF Again
  <2> QED
    BY <1>1, <1>2, <1>3, SameLatest
<1> QED
  BY <1>2, <1>4

\* None of the three templates prints an id or a timestamp, and none chooses
\* its facts by more than their order.
LEMMA SamePrompt ==
    ASSUME NEW sc, ScenarioOK(sc), NEW v \in Variants
    PROVE  PromptOf(v, Regenerated(sc)) = PromptOf(v, sc)
<1> DEFINE new == Regenerated(sc)
<1>1. new = [root |-> Again(sc.root), a |-> Again(sc.a), b |-> Again(sc.b)]
  BY DEF Regenerated, Again
<1>2. new.root = Again(sc.root) /\ new.a = Again(sc.a) /\ new.b = Again(sc.b)
  BY <1>1
<1> HIDE DEF new
<1>3. sc.root \in Seq(Fact) /\ sc.a \in Seq(Fact) /\ sc.b \in Seq(Fact)
  BY DEF ScenarioOK
<1>4. /\ KeysOf(new.root) = KeysOf(sc.root) /\ KeysOf(new.a) = KeysOf(sc.a)
      /\ KeysOf(new.b) = KeysOf(sc.b)
      /\ \A k \in KeysOf(sc.root) : CurrentFact(new.root, k).value = CurrentFact(sc.root, k).value
      /\ \A k \in KeysOf(sc.a) :
             /\ CurrentFact(new.a, k).value = CurrentFact(sc.a, k).value
             /\ CurrentFact(new.a, k).conf = CurrentFact(sc.a, k).conf
      /\ \A k \in KeysOf(sc.b) :
             /\ CurrentFact(new.b, k).value = CurrentFact(sc.b, k).value
             /\ CurrentFact(new.b, k).conf = CurrentFact(sc.b, k).conf
  BY <1>2, <1>3, AgainSameBeliefs
<1>5. CollisionsOf(new) = CollisionsOf(sc)
  BY <1>4 DEF CollisionsOf, Collisions, CurrentFacts
<1>6. \A k \in CollisionsOf(sc) : k \in KeysOf(sc.a) /\ k \in KeysOf(sc.b)
  BY CollisionKeys
<1>7. ThreeWayPrompt(new) = ThreeWayPrompt(sc)
  <2> DEFINE C == CollisionsOf(sc)
             ancestor(x) == [k \in C \cap KeysOf(sc.root) |-> CurrentFact(x.root, k).value]
             shown(facts) == [k \in C |-> <<CurrentFact(facts, k).value, CurrentFact(facts, k).conf>>]
  <2>1. ancestor(new) = ancestor(sc)
    BY <1>4
  <2>2. shown(new.a) = shown(sc.a) /\ shown(new.b) = shown(sc.b)
    BY <1>4, <1>6
  <2>3. ThreeWayPrompt(sc) = [ancestor |-> ancestor(sc), a |-> shown(sc.a), b |-> shown(sc.b)]
    BY DEF ThreeWayPrompt
  <2>4. ThreeWayPrompt(new) = [ancestor |-> ancestor(new), a |-> shown(new.a), b |-> shown(new.b)]
    BY <1>4, <1>5 DEF ThreeWayPrompt
  <2> HIDE DEF ancestor, shown
  <2> QED
    BY <2>1, <2>2, <2>3, <2>4
<1>8. TwoWayPrompt(new) = TwoWayPrompt(sc)
  BY <1>4, <1>5, <1>6 DEF TwoWayPrompt
<1>9. RawTextPrompt(new) = RawTextPrompt(sc)
  BY <1>4, <1>5, <1>6 DEF RawTextPrompt
<1> QED
  BY <1>7, <1>8, <1>9 DEF PromptOf, Variants, new

\* What is sent is the prompt of the scenario, so a rerun finds it in the cache.
THEOREM PromptIsStable == Spec => []PromptSurvivesRerun
<1> DEFINE Sent == stage = "ask" => prompt = PromptOf(variant, scenario)
<1>1. Init => Sent
  BY DEF Init
<1>2. Sent /\ [Next]_vars => Sent'
  BY DEF Next, ThreeWayMerge, TwoWayMerge, RawTextMerge, MergeStep, Settle, ReturnSettled, Ask,
         Answer, BackendRaises, Parse, ParseRaises, Flag, Commit, ValidationRaises, Return, vars
<1>3. Typed /\ Sent => PromptSurvivesRerun
  BY SamePrompt DEF Typed, TypeOK, PromptSurvivesRerun
<1> QED
  BY <1>1, <1>2, <1>3, TypedInductive, PTL DEF Spec
=============================================================================
