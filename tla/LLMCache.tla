----------------------------- MODULE LLMCache -----------------------------
(***************************************************************************)
(* LLMBackend.complete over LLMCache: processes (scripts of the            *)
(* repository, one after the other or at the same time) that ask a         *)
(* provider through one directory of JSON files, one file per key.         *)
(*                                                                         *)
(* get() tests that the file exists and then reads it; set() is            *)
(* Path.write_text, which truncates the file and then writes it: each half *)
(* is a step, and a crash can come between any two.                        *)
(***************************************************************************)
EXTENDS Naturals

CONSTANTS
    Procs,        \* processes that share the directory
    Requests,     \* (prompt, system) pairs the scripts ask for
    Replies,      \* payloads the provider may return
    None,
    MaxCalls,     \* bound: answers the provider gives in a behaviour
    MaxCrashes,   \* bound: processes killed in a behaviour
    MaxFailures,  \* bound: calls the provider fails
    AllowUncached \* whether some calls are made with use_cache=False

\* File contents other than a payload: no file, a file that was truncated, and
\* one that holds part of a payload or a mixture of two.
Absent == "absent"
Empty == "empty"
Garbled == "garbled"
Broken == {Empty, Garbled}

ASSUME CacheAssumption ==
    /\ Replies \cap {Absent, Empty, Garbled} = {}
    /\ None \notin Replies
    /\ MaxCalls \in Nat /\ MaxCrashes \in Nat /\ MaxFailures \in Nat
    /\ AllowUncached \in BOOLEAN

\* Mutant of MakeKey: the system message is not hashed.
MakeKeyOfPrompt(r) == [prompt |-> r.prompt]

\* complete() passes `system or ""`; backend, model, temperature and max_tokens
\* are the same for all calls of a backend.  The hash is taken as injective.
MakeKey(r) ==
    [prompt |-> r.prompt, system |-> IF r.system = None THEN "" ELSE r.system]

\* What the backends put in the messages: no system message for None or "".
Sent(r) == <<IF r.system \in {None, ""} THEN <<>> ELSE <<r.system>>, r.prompt>>

CacheKeys == {MakeKey(r) : r \in Requests}

VARIABLES
    files,      \* contents of the file of every key
    pc,         \* where each process is in complete()
    req,        \* the request it works on
    useCache,   \* the use_cache argument it was called with
    got,        \* the payload it holds
    calls,      \* answers paid for, per key, by cached calls
    provided,   \* (what was sent, payload) pairs the provider answered
    served,     \* (key, payload) pairs callers were given through the cache
    raised,     \* whether a cache read has failed with JSONDecodeError
    crashes, failures

vars == <<files, pc, req, useCache, got, calls, provided, served, raised, crashes, failures>>

KeyOf(p) == MakeKey(req[p])
Whole(k) == files[k] \in Replies

-----------------------------------------------------------------------------

Init ==
    /\ files = [k \in CacheKeys |-> Absent]
    /\ pc = [p \in Procs |-> "idle"]
    /\ req = [p \in Procs |-> None]
    /\ useCache = [p \in Procs |-> TRUE]
    /\ got = [p \in Procs |-> None]
    /\ calls = [k \in CacheKeys |-> 0]
    /\ provided = {} /\ served = {} /\ raised = FALSE
    /\ crashes = 0 /\ failures = 0

Goto(p, label) ==
    /\ pc' = [pc EXCEPT ![p] = label]
    /\ UNCHANGED <<req, useCache>>

\* complete() returns or raises: its arguments and locals are gone.
Leave(p) ==
    /\ pc' = [pc EXCEPT ![p] = "idle"]
    /\ req' = [req EXCEPT ![p] = None]
    /\ useCache' = [useCache EXCEPT ![p] = TRUE]
    /\ got' = [got EXCEPT ![p] = None]

Complete(p, r, cached) ==
    /\ pc[p] = "idle"
    /\ req' = [req EXCEPT ![p] = r]
    /\ useCache' = [useCache EXCEPT ![p] = cached]
    /\ pc' = [pc EXCEPT ![p] = IF cached THEN "lookup" ELSE "call"]
    /\ UNCHANGED <<files, got, calls, provided, served, raised, crashes, failures>>

\* Mutant of Lookup: the file is never looked for.
LookupMisses(p) ==
    /\ pc[p] = "lookup"
    /\ Goto(p, "call")
    /\ UNCHANGED <<files, got, calls, provided, served, raised, crashes, failures>>

\* get: path.exists().
Lookup(p) ==
    /\ pc[p] = "lookup"
    /\ Goto(p, IF files[KeyOf(p)] = Absent THEN "call" ELSE "read")
    /\ UNCHANGED <<files, got, calls, provided, served, raised, crashes, failures>>

\* get: json.loads(path.read_text()), and the hit is returned.
ReadHit(p) ==
    /\ pc[p] = "read"
    /\ Whole(KeyOf(p))
    /\ got' = [got EXCEPT ![p] = files[KeyOf(p)]]
    /\ Goto(p, "return")
    /\ UNCHANGED <<files, calls, provided, served, raised, crashes, failures>>

\* Mutant of ReadRaises: the lookup is tried again until the file parses.
ReadRetries(p) ==
    /\ pc[p] = "read"
    /\ files[KeyOf(p)] \in Broken
    /\ Goto(p, "lookup")
    /\ UNCHANGED <<files, got, calls, provided, served, raised, crashes, failures>>

\* JSONDecodeError: nothing in complete() or in its callers handles it.
ReadRaises(p) ==
    /\ pc[p] = "read"
    /\ files[KeyOf(p)] \in Broken
    /\ raised' = TRUE
    /\ Leave(p)
    /\ UNCHANGED <<files, calls, provided, served, crashes, failures>>

\* Mutant of ProviderAnswers: the reply is not cached.
ProviderAnswersUnsaved(p, x) ==
    /\ pc[p] = "call"
    /\ useCache[p] => calls[KeyOf(p)] < MaxCalls
    /\ got' = [got EXCEPT ![p] = x]
    /\ provided' = provided \cup {<<Sent(req[p]), x>>}
    /\ calls' = IF useCache[p] THEN [calls EXCEPT ![KeyOf(p)] = @ + 1] ELSE calls
    /\ Goto(p, "return")
    /\ UNCHANGED <<files, served, raised, crashes, failures>>

ProviderAnswers(p, x) ==
    /\ pc[p] = "call"
    /\ useCache[p] => calls[KeyOf(p)] < MaxCalls
    /\ got' = [got EXCEPT ![p] = x]
    /\ provided' = provided \cup {<<Sent(req[p]), x>>}
    /\ calls' = IF useCache[p] THEN [calls EXCEPT ![KeyOf(p)] = @ + 1] ELSE calls
    /\ Goto(p, IF useCache[p] THEN "open" ELSE "return")
    /\ UNCHANGED <<files, served, raised, crashes, failures>>

ProviderFails(p) ==
    /\ pc[p] = "call"
    /\ failures < MaxFailures
    /\ failures' = failures + 1
    /\ Leave(p)
    /\ UNCHANGED <<files, calls, provided, served, raised, crashes>>

\* set: write_text opens the file for writing, which truncates it.
OpenFile(p) ==
    /\ pc[p] = "open"
    /\ files' = [files EXCEPT ![KeyOf(p)] = Empty]
    /\ Goto(p, "write")
    /\ UNCHANGED <<got, calls, provided, served, raised, crashes, failures>>

\* What the file holds once p's payload is written at its start: the payload,
\* unless another process left a longer text there, whose tail then remains.
Overwritten(p) ==
    IF files[KeyOf(p)] \in {Empty, got[p]} THEN {got[p]} ELSE {got[p], Garbled}

WriteFile(p) ==
    /\ pc[p] = "write"
    /\ \E content \in Overwritten(p) : files' = [files EXCEPT ![KeyOf(p)] = content]
    /\ Goto(p, "return")
    /\ UNCHANGED <<got, calls, provided, served, raised, crashes, failures>>

Return(p) ==
    /\ pc[p] = "return"
    /\ served' = IF useCache[p] THEN served \cup {<<KeyOf(p), got[p]>>} ELSE served
    /\ Leave(p)
    /\ UNCHANGED <<files, calls, provided, raised, crashes, failures>>

\* A process is killed and its script started again; what it held is lost, and
\* a write it was in the middle of may have reached the file in part.
Crash(p) ==
    /\ pc[p] # "idle"
    /\ crashes < MaxCrashes
    /\ crashes' = crashes + 1
    /\ \/ UNCHANGED files
       \/ pc[p] = "write" /\ files' = [files EXCEPT ![KeyOf(p)] = Garbled]
    /\ Leave(p)
    /\ UNCHANGED <<calls, provided, served, raised, failures>>

\* What a process does by itself once it is in complete().
Proceed(p) ==
    \/ Lookup(p) \/ ReadHit(p) \/ ReadRaises(p)
    \/ \E x \in Replies : ProviderAnswers(p, x)
    \/ OpenFile(p) \/ WriteFile(p) \/ Return(p)

Next ==
    \E p \in Procs :
        \/ \E r \in Requests : Complete(p, r, TRUE)
        \/ AllowUncached /\ \E r \in Requests : Complete(p, r, FALSE)
        \/ Proceed(p) \/ ProviderFails(p) \/ Crash(p)

Spec == Init /\ [][Next]_vars

FairSpec == Spec /\ \A p \in Procs : WF_vars(Proceed(p))

-----------------------------------------------------------------------------

\* Whatever processes, crashes and overlapping writes do to the directory, a
\* caller is never given a payload the provider did not return for exactly the
\* messages the caller's request sends.
AnswersOwnQuestion ==
    \A r \in Requests : \A x \in Replies :
        <<MakeKey(r), x>> \in served => <<Sent(r), x>> \in provided

\* One script at a time: a key whose file is whole is settled for good.  No
\* step rewrites the file, and no call through the cache pays for it again.
NeverRespend ==
    [][\A k \in CacheKeys : Whole(k) => files'[k] = files[k] /\ calls'[k] = calls[k]]_vars

\* One script at a time: more than one call is paid for a key only if a crash
\* lost the reply before the file existed, and a file is left broken only by a
\* crash or by the process now writing it.
CrashAccountsForLoss ==
    /\ \A k \in CacheKeys : calls[k] <= 1 + crashes
    /\ \A k \in CacheKeys : files[k] \in Broken =>
           crashes > 0 \/ \E p \in Procs : pc[p] = "write" /\ KeyOf(p) = k
    /\ raised => crashes > 0

\* One script at a time, crashes included, the directory is a memo: a whole
\* file is the settled answer, anything else is a question still open.
SettledAnswers == [k \in CacheKeys |-> IF Whole(k) THEN files[k] ELSE None]

M == INSTANCE Memo WITH
        Questions <- CacheKeys,
        memo <- SettledAnswers

ImplementsMemo == M!Spec

\* Processes sharing the directory never block each other: every call ends, in
\* an answer or an exception, as long as the provider answers.
EveryCallEnds == \A p \in Procs : pc[p] # "idle" ~> pc[p] = "idle"
=============================================================================
