---------------------------- MODULE MabExtension ---------------------------
(***************************************************************************)
(* build_branch_scenario_from_mab_row: the chain of restatements of each   *)
(* key of a MemoryAgentBench row is split over two branches, or completed  *)
(* with a value borrowed from another key of the predicate.  A row is what *)
(* parse_context_facts returns, in the order of its lines; line i of it    *)
(* has line_index i, the heading being line 0.                             *)
(***************************************************************************)
EXTENDS StreamMaker

CONSTANTS
    Rows,             \* parsed rows: lists of (key, value)
    PredicateOf,      \* the predicate of each key
    Caps,             \* values of max_conflict_keys, None among them
    Offsets           \* uniform(0.1, 2.0), in units of 1/Unit

Unit == 2

ASSUME RowsAssumption ==
    /\ Rows \subseteq Seq([key : Keys, value : Values])
    /\ Caps \subseteq Nat \cup {None}
    /\ Offsets \subseteq 1..(2 * Unit)

VARIABLES
    row,            \* the parsed facts
    conflict_keys,  \* keys that may become conflicts
    visited         \* chains the loop is done with

mabVars == <<row, conflict_keys, visited>>

\* A chain is the set of the lines that state its key; dicts keep the order
\* in which keys were first stated.
Chain(k) == {i \in DOMAIN row : row[i].key = k}
LastOf(lines) == CHOOSE i \in lines : \A j \in lines : j <= i
Edits(k) == Chain(k) \ {Least(Chain(k))}
Heads == {i \in DOMAIN row : i = Least(Chain(row[i].key))}
Chains == [n \in 1..Cardinality(Heads) |->
               CHOOSE i \in Heads : Cardinality({j \in Heads : j <= i}) = n]

LineTime(i) == Unit * (1 + i)

-----------------------------------------------------------------------------

MabInit == row \in Rows /\ conflict_keys = {} /\ visited = 0

\* The keys that may become conflicts: max_conflict_keys of them, or all.
Sampled(cap) ==
    IF cap # None /\ Cardinality(KeysOf(row)) > cap
    THEN {K \in SUBSET KeysOf(row) : Cardinality(K) = cap}
    ELSE {KeysOf(row)}

StateChains ==
    /\ row # <<>>
    /\ MakeAncestor([n \in DOMAIN Chains |-> row[Chains[n]]])
    /\ \E cap \in Caps : conflict_keys' \in Sampled(cap)
    /\ phase' = "updates"
    /\ UNCHANGED <<updates, row, visited>>

NothingParsed ==
    /\ phase = "ancestor"
    /\ row = <<>>
    /\ phase' = "no scenario"
    /\ UNCHANGED <<root, updates, simVars, mabVars>>

VisitChain(k) ==
    /\ phase = "updates"
    /\ visited < Len(Chains)
    /\ k = row[Chains[visited + 1]].key
    /\ visited' = visited + 1
    /\ UNCHANGED <<root, simVars, phase, row, conflict_keys>>

SkipChain(k) ==
    /\ VisitChain(k)
    /\ k \notin conflict_keys \/ Edits(k) = {}
    /\ UNCHANGED updates

Conflict(k, v, ts, gt) == Update(k, v, ts, Certain, "resolvable_conflict", gt)

\* Mutant of SplitAt: the truth is A's value.
SplitAtTruthIsA(k, cut, firstIsA) ==
    LET last(side) == LastOf({i \in Edits(k) : (i < cut) = (side = "a" <=> firstIsA)})
    IN [a |-> Conflict(k, row[last("a")].value, LineTime(last("a")), row[last("a")].value),
        b |-> Conflict(k, row[last("b")].value, LineTime(last("b")), row[last("a")].value)]

\* What splitting a chain's edits at a line gives: a side's value and time are
\* those of the last line it got, and the truth is that of the chain.
SplitAt(k, cut, firstIsA) ==
    LET last(side) == LastOf({i \in Edits(k) : (i < cut) = (side = "a" <=> firstIsA)})
        truth == IF LastOf(Edits(k)) = last("a") THEN "a" ELSE "b"
    IN [a |-> Conflict(k, row[last("a")].value, LineTime(last("a")), row[last(truth)].value),
        b |-> Conflict(k, row[last("b")].value, LineTime(last("b")), row[last(truth)].value)]

Splits(k) ==
    UNION {{SplitAt(k, cut, firstIsA) : firstIsA \in BOOLEAN} :
               cut \in Edits(k) \ {Least(Edits(k))}}

SplitEdits(k) ==
    /\ VisitChain(k)
    /\ k \in conflict_keys
    /\ Cardinality(Edits(k)) >= 2
    /\ \E split \in Splits(k) : ExtendBoth(split.a, split.b)

OneEdit(k) == k \in conflict_keys /\ Cardinality(Edits(k)) = 1

RealEdit(k) == LastOf(Chain(k))

\* Values other keys of the predicate have in this row.
Borrowed(k) ==
    {row[i].value : i \in {j \in DOMAIN row : PredicateOf[row[j].key] = PredicateOf[k]}}
        \ {row[i].value : i \in Chain(k)}

\* max(0.0, real_ts + choice([-1, 1]) * offset)
SyntheticTimes(k) ==
    LET real == LineTime(RealEdit(k)) IN
    UNION {{real + o, IF o <= real THEN real - o ELSE 0} : o \in Offsets}

BorrowEdit(k) ==
    /\ VisitChain(k)
    /\ OneEdit(k)
    /\ \E v \in Borrowed(k), ts \in SyntheticTimes(k), realIsA \in BOOLEAN :
           LET value == row[RealEdit(k)].value
               real == Conflict(k, value, LineTime(RealEdit(k)), value)
               synthetic == Conflict(k, v, ts, value)
           IN ExtendBoth(IF realIsA THEN real ELSE synthetic, IF realIsA THEN synthetic ELSE real)

\* No value to borrow: the edit lands on one branch only.
EditOneSide(k) ==
    /\ VisitChain(k)
    /\ OneEdit(k)
    /\ Borrowed(k) = {}
    /\ \E side \in Sides :
           Extend(side, Update(k, row[RealEdit(k)].value, LineTime(RealEdit(k)), Certain,
                               "orthogonal", None))

ChainsVisited ==
    /\ phase = "updates"
    /\ visited = Len(Chains)
    /\ phase' = IF \A s \in Sides : updates[s] = <<>> THEN "no scenario" ELSE "diverge"
    /\ UNCHANGED <<root, updates, simVars, mabVars>>

MabNext ==
    \/ StateChains \/ NothingParsed
    \/ \E k \in KeysOf(row) :
           SkipChain(k) \/ SplitEdits(k) \/ BorrowEdit(k) \/ EditOneSide(k)
    \/ ChainsVisited
=============================================================================
