---------------------------- MODULE CurrentScan ----------------------------
(***************************************************************************)
(* The loop of current_facts_by_key, one iteration at a time.  Every merge *)
(* strategy, the question generator and the collision test read a branch   *)
(* through this loop; CurrentFacts of module Memory says what it must      *)
(* return.  The constant Inputs is the set of fact lists it is run on.     *)
(***************************************************************************)
EXTENDS Memory

CONSTANT Inputs
ASSUME InputsAssumption == Inputs \subseteq Seq(Fact)

VARIABLES
    facts,     \* branch.facts
    i,         \* facts visited so far
    current,   \* the dict being built: key -> position of its fact, 0 if absent
    done       \* whether the loop has returned

vars == <<facts, i, current, done>>

Init ==
    /\ facts \in Inputs
    /\ i = 0
    /\ current = [k \in Keys |-> 0]
    /\ done = FALSE

\* Mutant of Supersedes: a later fact wins a tie.
SupersedesOnTie(f) == current[f.key] # 0 => f.ts >= facts[current[f.key]].ts

\* The loop's test on the next fact: key not in current, or strictly later.
Supersedes(f) == current[f.key] # 0 => f.ts > facts[current[f.key]].ts

Keep ==
    /\ i < Len(facts)
    /\ Supersedes(facts[i + 1])
    /\ current' = [current EXCEPT ![facts[i + 1].key] = i + 1]
    /\ i' = i + 1
    /\ UNCHANGED <<facts, done>>

Skip ==
    /\ i < Len(facts)
    /\ ~Supersedes(facts[i + 1])
    /\ i' = i + 1
    /\ UNCHANGED <<facts, current, done>>

Return ==
    /\ i = Len(facts)
    /\ ~done
    /\ done' = TRUE
    /\ UNCHANGED <<facts, i, current>>

Next == Keep \/ Skip \/ Return

Spec == Init /\ [][Next]_vars

-----------------------------------------------------------------------------

TypeOK ==
    /\ facts \in Seq(Fact)
    /\ i \in 0..Len(facts)
    /\ current \in [Keys -> 0..i]
    /\ done \in BOOLEAN

\* After i iterations the dict holds, for every key seen so far, the position
\* of its latest fact, and nothing for the others (the loop's invariant).
PrefixCurrent ==
    \A k \in Keys :
        IF current[k] = 0
        THEN \A j \in 1..i : facts[j].key # k
        ELSE IsLatest(facts, k, 1..i, current[k])

\* What current_facts_by_key returns is, for every key of the list and no
\* other, the fact _current_fact of the simulator takes for current: a loop that
\* keeps strictly later facts and a max() over the matches agree, however the
\* list interleaves keys, repeats timestamps or goes back in time.
ReturnsCurrent ==
    done =>
        /\ KeysOf(facts) = {k \in Keys : current[k] # 0}
        /\ \A k \in KeysOf(facts) : facts[current[k]] = CurrentFact(facts, k)
=============================================================================
