--------------------------- MODULE OpenAIBackend ---------------------------
(***************************************************************************)
(* OpenAICompatibleBackend._call on one backend instance: three attempts,  *)
(* each rejection patches the parameter the error message complains about, *)
(* and two flags remember the patches for later calls.                     *)
(*                                                                         *)
(* The endpoint is the environment: it rejects some parameters, always the *)
(* same ones, and complains of any one it rejects.  Of a message the code  *)
(* sees only whether it names both token parameters, or the temperature.   *)
(***************************************************************************)
EXTENDS Naturals, FiniteSets

CONSTANT MaxRequests  \* bound: calls made on the instance
ASSUME MaxRequestsAssumption == MaxRequests \in Nat

TokenParams == {"max_tokens", "max_completion_tokens"}
Params == TokenParams \cup {"temperature"}

VARIABLES
    rejects,                 \* the parameters this endpoint does not accept
    useMaxCompletionTokens,  \* self._use_max_completion_tokens
    omitTemperature,         \* self._omit_temperature
    stage,                   \* "idle", "sending" or "raised"
    kwargs,                  \* optional parameters of the request being sent
    attempt,                 \* the loop variable
    requests,                \* calls begun
    wasted,                  \* round trips that ended in a rejection
    answered,                \* whether some call has succeeded
    unrelated                \* whether the endpoint failed for another reason

backendVars == <<rejects, useMaxCompletionTokens, omitTemperature, stage, kwargs, attempt,
                 requests, wasted, answered, unrelated>>

BackendInit ==
    /\ rejects \in SUBSET Params
    /\ useMaxCompletionTokens = FALSE /\ omitTemperature = FALSE
    /\ stage = "idle" /\ kwargs = {} /\ attempt = 0
    /\ requests = 0 /\ wasted = 0 /\ answered = FALSE /\ unrelated = FALSE

\* The optional parameters _call starts from, given what was learned.
Request ==
    (IF omitTemperature THEN {} ELSE {"temperature"})
        \cup {IF useMaxCompletionTokens THEN "max_completion_tokens" ELSE "max_tokens"}

BuildRequest ==
    /\ stage = "idle"
    /\ requests < MaxRequests
    /\ requests' = requests + 1
    /\ kwargs' = Request
    /\ attempt' = 0
    /\ stage' = "sending"
    /\ UNCHANGED <<rejects, useMaxCompletionTokens, omitTemperature, wasted, answered, unrelated>>

Succeed ==
    /\ stage = "sending"
    /\ kwargs \cap rejects = {}
    /\ answered' = TRUE
    /\ stage' = "idle"
    /\ UNCHANGED <<rejects, useMaxCompletionTokens, omitTemperature, kwargs, attempt,
                   requests, wasted, unrelated>>

\* A rejection, and what the except clause does before the next attempt.
Rejected(complaint) ==
    /\ stage = "sending"
    /\ complaint \in kwargs \cap rejects
    /\ wasted' = wasted + 1
    /\ UNCHANGED <<rejects, requests, answered, unrelated>>

PatchTokens ==
    /\ \E p \in TokenParams : Rejected(p)
    /\ attempt < 2
    /\ "max_tokens" \in kwargs
    /\ kwargs' = (kwargs \ {"max_tokens"}) \cup {"max_completion_tokens"}
    /\ useMaxCompletionTokens' = TRUE
    /\ attempt' = attempt + 1
    /\ UNCHANGED <<omitTemperature, stage>>

\* Mutant of PatchTemperature: the flag is not set.
PatchTemperatureForgets ==
    /\ Rejected("temperature")
    /\ attempt < 2
    /\ kwargs' = kwargs \ {"temperature"}
    /\ attempt' = attempt + 1
    /\ UNCHANGED <<useMaxCompletionTokens, omitTemperature, stage>>

PatchTemperature ==
    /\ Rejected("temperature")
    /\ attempt < 2
    /\ kwargs' = kwargs \ {"temperature"}
    /\ omitTemperature' = TRUE
    /\ attempt' = attempt + 1
    /\ UNCHANGED <<useMaxCompletionTokens, stage>>

\* Mutant of GiveUp: two attempts instead of three.
GiveUpAfterTwo ==
    /\ \E p \in Params :
           /\ Rejected(p)
           /\ attempt >= 1 \/ (p \in TokenParams /\ "max_tokens" \notin kwargs)
    /\ stage' = "raised"
    /\ UNCHANGED <<useMaxCompletionTokens, omitTemperature, kwargs, attempt>>

\* The last attempt re-raises.  Earlier, kwargs.pop("max_tokens") is a KeyError
\* when the token parameter complained of is the patched one.
GiveUp ==
    /\ \E p \in Params :
           /\ Rejected(p)
           /\ attempt = 2 \/ (p \in TokenParams /\ "max_tokens" \notin kwargs)
    /\ stage' = "raised"
    /\ UNCHANGED <<useMaxCompletionTokens, omitTemperature, kwargs, attempt>>

\* A bad request about something else, or any other error of the client.
FailUnrelated ==
    /\ stage = "sending"
    /\ unrelated' = TRUE
    /\ stage' = "raised"
    /\ UNCHANGED <<rejects, useMaxCompletionTokens, omitTemperature, kwargs, attempt,
                   requests, wasted, answered>>

BackendNext ==
    \/ BuildRequest \/ Succeed
    \/ PatchTokens \/ PatchTemperature \/ GiveUp
    \/ FailUnrelated

BackendSpec == BackendInit /\ [][BackendNext]_backendVars

-----------------------------------------------------------------------------

BackendTypeOK ==
    /\ rejects \subseteq Params
    /\ useMaxCompletionTokens \in BOOLEAN /\ omitTemperature \in BOOLEAN
    /\ stage \in {"idle", "sending", "raised"}
    /\ kwargs \subseteq Params
    /\ attempt \in 0..2
    /\ requests \in 0..MaxRequests /\ wasted \in Nat
    /\ answered \in BOOLEAN /\ unrelated \in BOOLEAN

\* An endpoint that takes the newer token parameter, whatever else it rejects.
Sane == "max_completion_tokens" \notin rejects

\* Learning pays off: however many calls one instance makes to a sane endpoint
\* it wastes at most two round trips in its life, one per parameter it learned.
WastedRoundTrips ==
    Sane => wasted = (IF useMaxCompletionTokens THEN 1 ELSE 0) + (IF omitTemperature THEN 1 ELSE 0)

\* Three attempts are enough: a call to a sane endpoint never raises on account
\* of its parameters, even if the endpoint complains of them one at a time.
AlwaysAdapts == (Sane /\ stage = "raised") => unrelated

\* No request carries both token parameters or neither, and the parameter that
\* limits the cost of a call is never dropped by a patch.
OneTokenLimit == stage = "sending" => Cardinality(kwargs \cap TokenParams) = 1

\* The temperature, which makes replies reproducible, is left out only for an
\* endpoint that rejects it, and the newer parameter used only where it must be.
NoNeedlessPatch ==
    /\ omitTemperature => "temperature" \in rejects
    /\ useMaxCompletionTokens => rejects \cap TokenParams # {}

\* Once a call has gone through, no later call of the instance is rejected, and
\* what was learned is never forgotten.
LearnedForGood ==
    [][ /\ answered => wasted' = wasted
        /\ useMaxCompletionTokens => useMaxCompletionTokens'
        /\ omitTemperature => omitTemperature' ]_backendVars
=============================================================================
