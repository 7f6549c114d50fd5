---------------------------- MODULE MCLLMCache ----------------------------
(* Two prompts, one of them with and without a system message.  None and ""  *)
(* are the two ways a caller leaves the system message out.                  *)
EXTENDS LLMCache

CONSTANTS q1, q2, sys

MCTwoPrompts == {[prompt |-> q1, system |-> None], [prompt |-> q2, system |-> None]}
MCOnePrompt == {[prompt |-> q1, system |-> s] : s \in {None, "", sys}}
=============================================================================
