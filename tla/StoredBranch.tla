---------------------------- MODULE StoredBranch ----------------------------
(***************************************************************************)
(* The store and its reader: current_facts_by_key, the loop through which  *)
(* every merge strategy reads a branch, run on each branch that is loaded. *)
(***************************************************************************)
EXTENDS CurrentScan, MemoryStore

storedVars == <<vars, storeVars>>

StoredInit == Init /\ StoreInit

\* The loop runs by itself; the program goes on once it has returned.
Scan == Next /\ UNCHANGED storeVars

UseStore ==
    \/ \E s \in Sides :
           \/ ForkBranch(s) \/ CreateBranch(s)
           \/ \E u \in NewFacts : MakeFact(s, u)
           \/ held[s] # None /\ \E n \in DOMAIN held[s] : AddFact(s, n)
    \/ SaveNextFact \/ CreateBranchReturns \/ StoreCrash

LoadAndScan ==
    \E s \in Sides :
        /\ LoadBranch(s)
        /\ facts' = held'[s] /\ i' = 0 /\ current' = [k \in Keys |-> 0] /\ done' = FALSE

StoredNext ==
    \/ Scan
    \/ done /\ UseStore /\ UNCHANGED vars
    \/ done /\ LoadAndScan

StoredSpec == StoredInit /\ [][StoredNext]_storedVars
=============================================================================
