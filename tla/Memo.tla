------------------------------- MODULE Memo -------------------------------
(***************************************************************************)
(* What an LLM cache promises its callers: a question is settled once, by  *)
(* one reply, and from then on every caller who asks it through the cache  *)
(* is given that reply.                                                    *)
(***************************************************************************)
CONSTANTS Questions, Replies, None

VARIABLES
    memo,     \* the reply that settled a question, None before
    served    \* the (question, reply) pairs callers were given

Init ==
    /\ memo = [q \in Questions |-> None]
    /\ served = {}

SettleQuestion(q, x) ==
    /\ memo[q] = None
    /\ memo' = [memo EXCEPT ![q] = x]
    /\ UNCHANGED served

Serve(q) ==
    /\ memo[q] # None
    /\ served' = served \cup {<<q, memo[q]>>}
    /\ UNCHANGED memo

Next == \E q \in Questions : Serve(q) \/ \E x \in Replies : SettleQuestion(q, x)

Spec == Init /\ [][Next]_<<memo, served>>
=============================================================================
