---------------------------- MODULE MemoryStore ----------------------------
(***************************************************************************)
(* MemoryStore, the SQLite tables behind branches, and a program that uses *)
(* it: it forks branches, adds facts to them in memory, saves them as a    *)
(* whole (create_branch) or one fact at a time (add_fact), is killed, and  *)
(* loads them again (get_branch).                                          *)
(*                                                                         *)
(* Every INSERT is committed by itself, so create_branch is as many        *)
(* transactions as it has rows to write.  rows is the facts table in the   *)
(* order of its rowids: INSERT OR REPLACE deletes the row that has the     *)
(* fact's id and inserts a new one at the end, and ORDER BY timestamp      *)
(* leaves rows of one timestamp in rowid order.                            *)
(***************************************************************************)
EXTENDS Memory, FiniteSets, SequencesExt

CONSTANTS
    AncestorPairs,   \* the (key, value) pairs branches are forked from
    NewFacts,        \* updates a program may make
    MaxMade,         \* bound: facts made, those a fork copies included
    MaxSaves,        \* bound: calls of create_branch and add_fact
    MaxCrashes       \* bound: times the program is killed

ASSUME StoreAssumption ==
    /\ AncestorPairs \in Seq([key : Keys, value : Values])
    /\ NewFacts \subseteq [key : Keys, value : Values, ts : Nat, conf : Nat]
    /\ {MaxMade, MaxSaves, MaxCrashes} \subseteq Nat

VARIABLES
    branchRows,  \* table branches: the sides that have a row
    rows,        \* table facts, in rowid order
    held,        \* the MemoryBranch the program holds of a side, as its facts
    saving,      \* create_branch: its side and the facts not yet inserted
    disturbed,   \* sides with an insert outside a create_branch that ended
    made,        \* facts made so far, which numbers their uuids
    saves, crashes

storeVars == <<branchRows, rows, held, saving, disturbed, made, saves, crashes>>

NotSaving == [side |-> None, left |-> <<>>]
Idle == saving = NotSaving

-----------------------------------------------------------------------------
(* The statements.                                                          *)

\* Mutant of InsertOrReplace: an upsert, which keeps the row's place.
UpsertInPlace(table, f) ==
    IF \E n \in DOMAIN table : table[n].id = f.id
    THEN [n \in DOMAIN table |-> IF table[n].id = f.id THEN f ELSE table[n]]
    ELSE Append(table, f)

\* fact_id is the primary key: at most one row goes.
InsertOrReplace(table, f) ==
    LET old == {n \in DOMAIN table : table[n].id = f.id} IN
    IF old = {} THEN Append(table, f)
    ELSE Append(RemoveAt(table, CHOOSE n \in old : TRUE), f)

\* ORDER BY timestamp, of the rows in the given places.
Sooner(table, i, j) ==
    \/ table[i].ts < table[j].ts
    \/ table[i].ts = table[j].ts /\ i < j

OrderByTimestamp(table, places) ==
    [n \in 1..Cardinality(places) |->
        table[CHOOSE i \in places : Cardinality({j \in places : Sooner(table, j, i)}) = n - 1]]

BranchRowsOf(s) == {n \in DOMAIN rows : rows[n].branch = s}

\* Mutant of BranchFacts: the WHERE clause is missing.
EveryBranchFacts(s) == OrderByTimestamp(rows, DOMAIN rows)

\* get_branch_facts, for a side with or without a row in branches: the foreign
\* key is declared and SQLite does not enforce it.
BranchFacts(s) == OrderByTimestamp(rows, BranchRowsOf(s))

\* get_facts_by_key.
FactsByKey(s, k) == OrderByTimestamp(rows, {n \in BranchRowsOf(s) : rows[n].key = k})

-----------------------------------------------------------------------------

StoreInit ==
    /\ branchRows = {} /\ rows = <<>>
    /\ held = [s \in Sides |-> None]
    /\ saving = NotSaving
    /\ disturbed = {}
    /\ made = 0 /\ saves = 0 /\ crashes = 0

\* A branch with facts of its own, each with a new uuid: also for a side that
\* was forked and saved before, for another scenario.
ForkBranch(s) ==
    /\ Idle /\ made + Len(AncestorPairs) <= MaxMade
    /\ LET copy == ForkedFacts(AncestorFacts(AncestorPairs, 0), s)
       IN held' = [held EXCEPT ![s] =
              [n \in DOMAIN copy |-> [copy[n] EXCEPT !.id = <<s, made + n>>]]]
    /\ made' = made + Len(AncestorPairs)
    /\ UNCHANGED <<branchRows, rows, saving, disturbed, saves, crashes>>

MakeFact(s, u) ==
    /\ Idle /\ held[s] # None /\ made < MaxMade
    /\ LET longer == Updated(held[s], s, u)
       IN held' = [held EXCEPT ![s] = [longer EXCEPT ![Len(longer)].id = <<s, made + 1>>]]
    /\ made' = made + 1
    /\ UNCHANGED <<branchRows, rows, saving, disturbed, saves, crashes>>

\* Mutant of CreateBranch: the branch's facts are deleted first.
CreateBranchAfresh(s) ==
    /\ Idle /\ held[s] # None /\ saves < MaxSaves
    /\ branchRows' = branchRows \cup {s}
    /\ rows' = SelectSeq(rows, LAMBDA row : row.branch # s)
    /\ saving' = [side |-> s, left |-> held[s]]
    /\ saves' = saves + 1
    /\ UNCHANGED <<held, disturbed, made, crashes>>

\* create_branch: the branch's row is committed.
CreateBranch(s) ==
    /\ Idle /\ held[s] # None /\ saves < MaxSaves
    /\ branchRows' = branchRows \cup {s}
    /\ saving' = [side |-> s, left |-> held[s]]
    /\ saves' = saves + 1
    /\ UNCHANGED <<rows, held, disturbed, made, crashes>>

\* create_branch: add_fact for the next fact.
SaveNextFact ==
    /\ saving.left # <<>>
    /\ rows' = InsertOrReplace(rows, Head(saving.left))
    /\ saving' = [saving EXCEPT !.left = Tail(@)]
    /\ UNCHANGED <<branchRows, held, disturbed, made, saves, crashes>>

CreateBranchReturns ==
    /\ saving.side # None /\ saving.left = <<>>
    /\ saving' = NotSaving
    /\ disturbed' = disturbed \ {saving.side}
    /\ UNCHANGED <<branchRows, rows, held, made, saves, crashes>>

\* add_fact by itself, of a fact stored or not, its branch stored or not.
AddFact(s, n) ==
    /\ Idle /\ held[s] # None /\ n \in DOMAIN held[s] /\ saves < MaxSaves
    /\ rows' = InsertOrReplace(rows, held[s][n])
    /\ disturbed' = disturbed \cup {s}
    /\ saves' = saves + 1
    /\ UNCHANGED <<branchRows, held, saving, made, crashes>>

\* The program is killed, in the middle of create_branch or not; what is
\* committed stays.
StoreCrash ==
    /\ crashes < MaxCrashes
    /\ held' = [s \in Sides |-> None]
    /\ disturbed' = disturbed \cup ({saving.side} \cap Sides)
    /\ saving' = NotSaving
    /\ crashes' = crashes + 1
    /\ UNCHANGED <<branchRows, rows, made, saves>>

\* get_branch, which returns None for a side without a row in branches.
LoadBranch(s) ==
    /\ Idle /\ held[s] = None /\ s \in branchRows
    /\ held' = [held EXCEPT ![s] = BranchFacts(s)]
    /\ UNCHANGED <<branchRows, rows, saving, disturbed, made, saves, crashes>>

-----------------------------------------------------------------------------

\* What is held of a side is what is stored of it: no fact waits to be saved,
\* and none is left over from another branch saved under the same id.
SameFacts(s) == held[s] # None /\ Range(held[s]) = {rows[n] : n \in BranchRowsOf(s)}

\* A create_branch that ends sets everything right: whatever crashes, partial
\* saves and single inserts came before, the branch that is loaded next is the
\* list that was saved, in the order of its timestamps and, where they tie, in
\* the order of the list.
SaveRepairs ==
    \A s \in Sides :
        (Idle /\ SameFacts(s) /\ s \notin disturbed) =>
            BranchFacts(s) = OrderByTimestamp(held[s], DOMAIN held[s])

\* What the merge strategies read from a branch does not change by storing it:
\* every key has the same current fact, read with the branch or by its key.
\* Only after an interrupted save or a single insert may it be another one, and
\* then only one of the same timestamp, as REPLACE moved the first to the end.
CurrentSurvives ==
    \A s \in Sides : Idle /\ SameFacts(s) =>
        \A k \in KeysOf(held[s]) :
            LET reread == CurrentFact(BranchFacts(s), k) IN
            /\ reread = CurrentFact(FactsByKey(s, k), k)
            /\ reread.ts = CurrentFact(held[s], k).ts
            /\ s \notin disturbed => reread = CurrentFact(held[s], k)

\* No call, and no crash in any of them, takes a stored fact away or changes it.
NothingStoredIsLost ==
    [][Range(rows) \subseteq Range(rows') /\ branchRows \subseteq branchRows']_storeVars
=============================================================================
