-------------------------- MODULE LLMBackendProofs --------------------------
(* The two parts of an LLM backend.  The cache, for any number of prompts,   *)
(* replies, crashes and failures: who shares the directory is never given    *)
(* another question's answer, for any number of processes; a process that    *)
(* has it to itself never pays for an answer twice without a crash, and uses *)
(* the directory as a memo.  The retry loop of the OpenAI-compatible backend, *)
(* for any number of calls: what the bounded run checks follows from one     *)
(* inductive invariant, which ties the request in flight and the rejections  *)
(* so far to the two flags.                                                  *)
EXTENDS LLMCache, OpenAIBackend, FiniteSetTheorems, TLAPS

Contents == Replies \cup {Absent, Empty, Garbled}
Labels == {"idle", "lookup", "read", "call", "open", "write", "return"}

\* Types, and that a call under way has a request and, from the answer on, a
\* payload.
TypeOK ==
    /\ files \in [CacheKeys -> Contents]
    /\ pc \in [Procs -> Labels]
    /\ req \in [Procs -> Requests \cup {None}]
    /\ useCache \in [Procs -> BOOLEAN]
    /\ got \in [Procs -> Replies \cup {None}]
    /\ calls \in [CacheKeys -> Nat]
    /\ crashes \in Nat
    /\ \A p \in Procs :
           /\ pc[p] # "idle" => req[p] \in Requests
           /\ pc[p] \in {"open", "write", "return"} => got[p] \in Replies
           /\ pc[p] \in {"lookup", "read", "open", "write"} => useCache[p]

\* The key of a call under way is one of the directory.
LEMMA KeyInDirectory ==
    ASSUME TypeOK, NEW p \in Procs, pc[p] # "idle"
    PROVE  KeyOf(p) \in CacheKeys
BY DEF TypeOK, KeyOf, CacheKeys

THEOREM TypeCorrect == Spec => []TypeOK
<1> USE DEF TypeOK, Labels, Contents
<1>1. Init => TypeOK
  BY DEF Init
<1>2. TypeOK /\ [Next]_vars => TypeOK'
  <2> SUFFICES ASSUME TypeOK, [Next]_vars PROVE TypeOK'
    OBVIOUS
  <2>1. ASSUME NEW p \in Procs, NEW r \in Requests, NEW cached \in BOOLEAN, Complete(p, r, cached)
        PROVE  TypeOK'
    BY <2>1 DEF Complete
  <2>2. ASSUME NEW p \in Procs, Lookup(p) PROVE TypeOK'
    BY <2>2 DEF Lookup, Goto
  <2>3. ASSUME NEW p \in Procs, ReadHit(p) PROVE TypeOK'
    BY <2>3 DEF ReadHit, Goto, Whole
  <2>4. ASSUME NEW p \in Procs, ReadRaises(p) PROVE TypeOK'
    BY <2>4 DEF ReadRaises, Leave
  <2>5. ASSUME NEW p \in Procs, NEW x \in Replies, ProviderAnswers(p, x) PROVE TypeOK'
    <3>1. KeyOf(p) \in CacheKeys
      BY <2>5, KeyInDirectory DEF ProviderAnswers
    <3>2. calls[KeyOf(p)] + 1 \in Nat
      BY <3>1
    <3>3. calls' \in [CacheKeys -> Nat]
      BY <2>5, <3>1, <3>2 DEF ProviderAnswers
    <3> QED
      BY <2>5, <3>3 DEF ProviderAnswers, Goto
  <2>6. ASSUME NEW p \in Procs, ProviderFails(p) PROVE TypeOK'
    BY <2>6 DEF ProviderFails, Leave
  <2>7. ASSUME NEW p \in Procs, OpenFile(p) PROVE TypeOK'
    BY <2>7 DEF OpenFile, Goto
  <2>8. ASSUME NEW p \in Procs, WriteFile(p) PROVE TypeOK'
    <3>1. files' \in [CacheKeys -> Contents]
      BY <2>8 DEF WriteFile, Overwritten
    <3> QED
      BY <2>8, <3>1 DEF WriteFile, Goto
  <2>9. ASSUME NEW p \in Procs, Return(p) PROVE TypeOK'
    BY <2>9 DEF Return, Leave
  <2>10. ASSUME NEW p \in Procs, Crash(p) PROVE TypeOK'
    <3>1. files' \in [CacheKeys -> Contents]
      BY <2>10 DEF Crash
    <3> QED
      BY <2>10, <3>1 DEF Crash, Leave
  <2>11. CASE UNCHANGED vars
    BY <2>11 DEF vars
  <2> QED
    BY <2>1, <2>2, <2>3, <2>4, <2>5, <2>6, <2>7, <2>8, <2>9, <2>10, <2>11 DEF Next, Proceed
<1> QED
  BY <1>1, <1>2, PTL DEF Spec

-----------------------------------------------------------------------------
(* Answers, for any number of processes.                                    *)

\* The provider has returned x for what every request of key k sends.
Backed(k, x) == \A r \in Requests : MakeKey(r) = k => <<Sent(r), x>> \in provided

\* Every payload there is, in a file, in the hands of a process or served, is
\* an answer to the question it is kept or held for.
AllBacked ==
    /\ \A k \in CacheKeys : files[k] \in Replies => Backed(k, files[k])
    /\ \A p \in Procs : pc[p] \in {"open", "write", "return"} => Backed(KeyOf(p), got[p])
    /\ \A k \in CacheKeys : \A x \in Replies : <<k, x>> \in served => Backed(k, x)

\* Two requests with one key send the same messages: no system message and an
\* empty one are one key, and neither is sent.
LEMMA KeyTellsMessages ==
    ASSUME NEW r, NEW s, MakeKey(r) = MakeKey(s)
    PROVE  Sent(r) = Sent(s)
<1>1. /\ r.prompt = s.prompt
      /\ (IF r.system = None THEN "" ELSE r.system) = (IF s.system = None THEN "" ELSE s.system)
  BY DEF MakeKey
<1> QED
  BY <1>1 DEF Sent

LEMMA AllBackedInductive == Spec => []AllBacked
<1>1. Init => AllBacked
  <2> SUFFICES ASSUME Init PROVE AllBacked
    OBVIOUS
  <2>1. \A k \in CacheKeys : files[k] \notin Replies
    BY CacheAssumption DEF Init
  <2> QED
    BY <2>1 DEF Init, AllBacked
<1>2. TypeOK /\ AllBacked /\ [Next]_vars => AllBacked'
  <2> SUFFICES ASSUME TypeOK, AllBacked, [Next]_vars PROVE AllBacked'
    OBVIOUS
  <2> USE DEF AllBacked
  \* Processes that stay where they are keep what they hold.
  <2>1. ASSUME NEW p \in Procs, NEW label, Goto(p, label)
        PROVE  /\ \A q \in Procs : KeyOf(q)' = KeyOf(q)
               /\ \A q \in Procs \ {p} : pc'[q] = pc[q]
               /\ pc'[p] = label
    BY <2>1 DEF Goto, KeyOf, TypeOK
  <2>2. ASSUME NEW p \in Procs, Leave(p)
        PROVE  /\ \A q \in Procs \ {p} : pc'[q] = pc[q] /\ got'[q] = got[q] /\ KeyOf(q)' = KeyOf(q)
               /\ pc'[p] = "idle"
    BY <2>2 DEF Leave, KeyOf, TypeOK
  <2>3. ASSUME provided \subseteq provided', NEW k, NEW x, Backed(k, x)
        PROVE  Backed(k, x)'
    BY <2>3 DEF Backed
  <2>4. ASSUME NEW p \in Procs, NEW r \in Requests, NEW cached \in BOOLEAN, Complete(p, r, cached)
        PROVE  AllBacked'
    <3>1. \A q \in Procs \ {p} : pc'[q] = pc[q] /\ KeyOf(q)' = KeyOf(q)
      BY <2>4 DEF Complete, KeyOf, TypeOK
    <3>2. pc'[p] \in {"lookup", "call"}
      BY <2>4 DEF Complete, TypeOK
    <3> QED
      BY <2>3, <2>4, <3>1, <3>2 DEF Complete
  <2>5. ASSUME NEW p \in Procs, Lookup(p) PROVE AllBacked'
    <3>1. pc'[p] \in {"call", "read"}
      BY <2>1, <2>5 DEF Lookup
    <3>2. UNCHANGED <<files, got, provided, served>>
      BY <2>5 DEF Lookup
    <3>3. Goto(p, pc'[p])
      BY <2>1, <2>5 DEF Lookup
    <3> QED
      BY <2>1, <2>3, <3>1, <3>2, <3>3
  <2>6. ASSUME NEW p \in Procs, ReadHit(p) PROVE AllBacked'
    <3>1. KeyOf(p) \in CacheKeys /\ Backed(KeyOf(p), files[KeyOf(p)])
      BY <2>6, KeyInDirectory DEF ReadHit, Whole
    <3>2. got' = [got EXCEPT ![p] = files[KeyOf(p)]] /\ UNCHANGED <<files, provided, served>>
      BY <2>6 DEF ReadHit
    <3>3. got'[p] = files[KeyOf(p)] /\ \A q \in Procs \ {p} : got'[q] = got[q]
      BY <3>2 DEF TypeOK
    <3>4. Goto(p, "return")
      BY <2>6 DEF ReadHit
    <3> QED
      BY <2>1, <2>3, <3>1, <3>2, <3>3, <3>4
  <2>7. ASSUME NEW p \in Procs, ReadRaises(p) \/ ProviderFails(p) PROVE AllBacked'
    BY <2>2, <2>3, <2>7 DEF ReadRaises, ProviderFails
  <2>8. ASSUME NEW p \in Procs, NEW x \in Replies, ProviderAnswers(p, x) PROVE AllBacked'
    <3>1. provided' = provided \cup {<<Sent(req[p]), x>>} /\ UNCHANGED <<files, served>>
      BY <2>8 DEF ProviderAnswers
    <3>2. got'[p] = x /\ \A q \in Procs \ {p} : got'[q] = got[q]
      BY <2>8 DEF ProviderAnswers, TypeOK
    <3>3. PICK label : Goto(p, label)
      BY <2>8 DEF ProviderAnswers
    <3>4. Backed(KeyOf(p), x)'
      <4>1. KeyOf(p)' = KeyOf(p) /\ req' = req
        BY <3>3 DEF Goto, KeyOf
      <4> QED
        BY <3>1, <4>1, KeyTellsMessages DEF Backed, KeyOf
    <3> QED
      BY <2>1, <2>3, <3>1, <3>2, <3>3, <3>4
  <2>9. ASSUME NEW p \in Procs, OpenFile(p) PROVE AllBacked'
    <3>1. \A k \in CacheKeys : files'[k] = files[k] \/ files'[k] = Empty
      BY <2>9 DEF OpenFile, TypeOK
    <3>2. Empty \notin Replies
      BY CacheAssumption
    <3>3. Goto(p, "write") /\ pc[p] = "open" /\ UNCHANGED <<got, provided, served>>
      BY <2>9 DEF OpenFile
    <3> QED
      BY <2>1, <2>3, <3>1, <3>2, <3>3
  <2>10. ASSUME NEW p \in Procs, WriteFile(p) PROVE AllBacked'
    <3>1. Goto(p, "return") /\ pc[p] = "write" /\ UNCHANGED <<got, provided, served>>
      BY <2>10 DEF WriteFile
    <3>2. \A k \in CacheKeys : \/ files'[k] = files[k]
                               \/ files'[k] = Garbled
                               \/ k = KeyOf(p) /\ files'[k] = got[p]
      BY <2>10 DEF WriteFile, Overwritten, TypeOK
    <3>3. Garbled \notin Replies
      BY CacheAssumption
    <3> QED
      BY <2>1, <2>3, <3>1, <3>2, <3>3
  <2>11. ASSUME NEW p \in Procs, Return(p) PROVE AllBacked'
    <3>1. pc[p] = "return" /\ Leave(p) /\ UNCHANGED <<files, provided>>
      BY <2>11 DEF Return
    <3>2. served' \subseteq served \cup {<<KeyOf(p), got[p]>>}
      BY <2>11 DEF Return
    <3>3. Backed(KeyOf(p), got[p])
      BY <3>1
    <3> QED
      BY <2>2, <2>3, <3>1, <3>2, <3>3
  <2>12. ASSUME NEW p \in Procs, Crash(p) PROVE AllBacked'
    <3>1. Leave(p) /\ UNCHANGED <<provided, served>>
      BY <2>12 DEF Crash
    <3>2. \A k \in CacheKeys : files'[k] = files[k] \/ files'[k] = Garbled
      BY <2>12 DEF Crash, TypeOK
    <3>3. Garbled \notin Replies
      BY CacheAssumption
    <3> QED
      BY <2>2, <2>3, <3>1, <3>2, <3>3
  <2>13. CASE UNCHANGED vars
    BY <2>13 DEF vars, Backed, KeyOf
  <2> QED
    BY <2>4, <2>5, <2>6, <2>7, <2>8, <2>9, <2>10, <2>11, <2>12, <2>13 DEF Next, Proceed
<1> QED
  BY <1>1, <1>2, TypeCorrect, PTL DEF Spec

\* However many processes share the directory, and whatever crashes and
\* overlapping writes leave in it, nobody is served an answer to another
\* question.
THEOREM ServedOwnAnswer == Spec => []AnswersOwnQuestion
<1>1. AllBacked => AnswersOwnQuestion
  BY DEF AllBacked, AnswersOwnQuestion, Backed, CacheKeys
<1> QED
  BY <1>1, AllBackedInductive, PTL

-----------------------------------------------------------------------------
(* One script at a time.                                                    *)

OneAtATime == \A p, q \in Procs : p = q

\* Whether somebody has paid for the answer of k and not opened its file yet.
Unopened(k) == \E p \in Procs : pc[p] = "open" /\ KeyOf(p) = k

\* What holds when nobody else touches the files between two steps: a cached
\* call finds its file as it left it, an answer is paid for only while there is
\* no file, and what is paid for but has no file was lost in a crash.
Undisturbed ==
    /\ \A p \in Procs :
           /\ (pc[p] = "call" /\ useCache[p]) \/ pc[p] = "open" => files[KeyOf(p)] = Absent
           /\ pc[p] = "write" => files[KeyOf(p)] = Empty
           /\ pc[p] = "return" /\ useCache[p] => files[KeyOf(p)] = got[p]
    /\ \A k \in CacheKeys :
           calls[k] <= crashes + (IF files[k] # Absent \/ Unopened(k) THEN 1 ELSE 0)
    /\ \A k \in CacheKeys : files[k] \in Broken =>
           crashes > 0 \/ \E p \in Procs : pc[p] = "write" /\ KeyOf(p) = k
    /\ raised => crashes > 0

LEMMA UndisturbedInductive ==
    ASSUME OneAtATime
    PROVE  Spec => []Undisturbed
<1>1. Init => Undisturbed
  <2> SUFFICES ASSUME Init PROVE Undisturbed
    OBVIOUS
  <2>1. \A k \in CacheKeys : files[k] = Absent /\ calls[k] = 0
    BY DEF Init
  <2>2. \A p \in Procs : pc[p] = "idle"
    BY DEF Init
  <2>3. crashes = 0 /\ ~raised
    BY DEF Init
  <2> QED
    BY <2>1, <2>2, <2>3 DEF Undisturbed, Broken, Absent, Empty, Garbled, Unopened
<1>2. TypeOK /\ Undisturbed /\ [Next]_vars => Undisturbed'
  <2> SUFFICES ASSUME TypeOK, Undisturbed, [Next]_vars PROVE Undisturbed'
    OBVIOUS
  <2> USE DEF Undisturbed, OneAtATime
  <2>0. Absent \notin Replies /\ Absent # Empty /\ Absent # Garbled /\ Empty # Garbled
        /\ Broken = {Empty, Garbled} /\ Empty \notin Replies /\ Garbled \notin Replies
    BY CacheAssumption DEF Absent, Empty, Garbled, Broken
  <2>1. ASSUME NEW p \in Procs, NEW r \in Requests, NEW cached \in BOOLEAN, Complete(p, r, cached)
        PROVE  Undisturbed'
    <3>1. \A q \in Procs : q = p
      OBVIOUS
    <3>2. pc[p] = "idle" /\ pc'[p] = IF cached THEN "lookup" ELSE "call"
      BY <2>1 DEF Complete, TypeOK
    <3>3. useCache'[p] = cached /\ UNCHANGED <<files, calls, raised, crashes>>
      BY <2>1 DEF Complete, TypeOK
    <3> QED
      BY <3>1, <3>2, <3>3 DEF Unopened
  <2>2. ASSUME NEW p \in Procs, Lookup(p) PROVE Undisturbed'
    <3>1. \A q \in Procs : q = p
      OBVIOUS
    <3>2. pc[p] = "lookup" /\ pc'[p] = IF files[KeyOf(p)] = Absent THEN "call" ELSE "read"
      BY <2>2 DEF Lookup, Goto, TypeOK
    <3>3. UNCHANGED <<files, calls, raised, crashes, req, useCache>>
      BY <2>2 DEF Lookup, Goto
    <3> QED
      BY <3>1, <3>2, <3>3 DEF Unopened, KeyOf
  <2>3. ASSUME NEW p \in Procs, ReadHit(p) PROVE Undisturbed'
    <3>1. \A q \in Procs : q = p
      OBVIOUS
    <3>2. pc[p] = "read" /\ pc'[p] = "return" /\ got'[p] = files[KeyOf(p)]
      BY <2>3 DEF ReadHit, Goto, TypeOK
    <3>3. UNCHANGED <<files, calls, raised, crashes, req, useCache>>
      BY <2>3 DEF ReadHit, Goto
    <3> QED
      BY <3>1, <3>2, <3>3 DEF Unopened, KeyOf
  <2>4. ASSUME NEW p \in Procs, ReadRaises(p) PROVE Undisturbed'
    <3>1. \A q \in Procs : q = p
      OBVIOUS
    <3>2. pc[p] = "read" /\ pc'[p] = "idle" /\ files[KeyOf(p)] \in Broken /\ KeyOf(p) \in CacheKeys
      BY <2>4, KeyInDirectory DEF ReadRaises, Leave, TypeOK
    <3>3. UNCHANGED <<files, calls, crashes>>
      BY <2>4 DEF ReadRaises
    <3>4. crashes > 0
      BY <3>1, <3>2
    <3> QED
      BY <3>1, <3>2, <3>3, <3>4 DEF Unopened
  <2>5. ASSUME NEW p \in Procs, NEW x \in Replies, ProviderAnswers(p, x) PROVE Undisturbed'
    <3>1. \A q \in Procs : q = p
      OBVIOUS
    <3>2. pc[p] = "call" /\ pc'[p] = IF useCache[p] THEN "open" ELSE "return"
      BY <2>5 DEF ProviderAnswers, Goto, TypeOK
    <3>3. UNCHANGED <<files, raised, crashes, req, useCache>>
      BY <2>5 DEF ProviderAnswers, Goto
    <3>4. KeyOf(p) \in CacheKeys /\ KeyOf(p)' = KeyOf(p)
      BY <3>2, <3>3, KeyInDirectory DEF KeyOf
    <3>5. \A k \in CacheKeys :
              /\ calls[k] \in Nat /\ crashes \in Nat
              /\ calls'[k] = IF useCache[p] /\ k = KeyOf(p) THEN calls[k] + 1 ELSE calls[k]
      BY <2>5 DEF ProviderAnswers, TypeOK
    <3>6. \A k \in CacheKeys : ~Unopened(k)
      BY <3>1, <3>2 DEF Unopened
    <3>7. ASSUME NEW k \in CacheKeys
          PROVE  calls'[k] <= crashes' + (IF files'[k] # Absent \/ Unopened(k)' THEN 1 ELSE 0)
      <4>1. CASE useCache[p] /\ k = KeyOf(p)
        <5>1. files[k] = Absent /\ Unopened(k)'
          BY <3>2, <3>4, <4>1 DEF Unopened
        <5>2. calls[k] <= crashes
          BY <3>5, <3>6, <5>1
        <5> QED
          BY <3>3, <3>5, <4>1, <5>1, <5>2
      <4>2. CASE ~(useCache[p] /\ k = KeyOf(p))
        BY <3>3, <3>5, <3>6, <4>2
      <4> QED
        BY <4>1, <4>2
    <3> QED
      BY <3>1, <3>2, <3>3, <3>4, <3>7
  <2>6. ASSUME NEW p \in Procs, ProviderFails(p) PROVE Undisturbed'
    <3>1. \A q \in Procs : q = p
      OBVIOUS
    <3>2. pc[p] = "call" /\ pc'[p] = "idle"
      BY <2>6 DEF ProviderFails, Leave, TypeOK
    <3>3. UNCHANGED <<files, calls, raised, crashes>>
      BY <2>6 DEF ProviderFails
    <3> QED
      BY <3>1, <3>2, <3>3 DEF Unopened
  <2>7. ASSUME NEW p \in Procs, OpenFile(p) PROVE Undisturbed'
    <3>1. \A q \in Procs : q = p
      OBVIOUS
    <3>2. pc[p] = "open" /\ pc'[p] = "write"
      BY <2>7 DEF OpenFile, Goto, TypeOK
    <3>3. UNCHANGED <<calls, raised, crashes>> /\ KeyOf(p)' = KeyOf(p)
      BY <2>7 DEF OpenFile, Goto, KeyOf
    <3>4. KeyOf(p) \in CacheKeys
      BY <3>2, KeyInDirectory
    <3>5. \A k \in CacheKeys : files'[k] = IF k = KeyOf(p) THEN Empty ELSE files[k]
      BY <2>7 DEF OpenFile, TypeOK
    <3>6. \A k \in CacheKeys : Unopened(k) => k = KeyOf(p)
      BY <3>1 DEF Unopened
    <3>7. \A k \in CacheKeys :
              calls'[k] <= crashes' + (IF files'[k] # Absent \/ Unopened(k)' THEN 1 ELSE 0)
      BY <2>0, <3>3, <3>5, <3>6 DEF TypeOK
    <3> QED
      BY <2>0, <3>1, <3>2, <3>3, <3>4, <3>5, <3>7
  <2>8. ASSUME NEW p \in Procs, WriteFile(p) PROVE Undisturbed'
    <3>1. \A q \in Procs : q = p
      OBVIOUS
    <3>2. pc[p] = "write" /\ pc'[p] = "return" /\ got[p] \in Replies
      BY <2>8 DEF WriteFile, Goto, TypeOK
    <3>3. UNCHANGED <<calls, raised, crashes, got>> /\ KeyOf(p)' = KeyOf(p)
      BY <2>8 DEF WriteFile, Goto, KeyOf
    <3>4. KeyOf(p) \in CacheKeys /\ files[KeyOf(p)] = Empty
      BY <3>2, KeyInDirectory
    <3>5. \A k \in CacheKeys : files'[k] = IF k = KeyOf(p) THEN got[p] ELSE files[k]
      BY <2>8, <3>4 DEF WriteFile, Overwritten, TypeOK
    <3>6. \A k \in CacheKeys : ~Unopened(k)
      BY <3>1, <3>2 DEF Unopened
    <3>7. \A k \in CacheKeys :
              calls'[k] <= crashes' + (IF files'[k] # Absent \/ Unopened(k)' THEN 1 ELSE 0)
      BY <2>0, <3>2, <3>3, <3>4, <3>5, <3>6 DEF TypeOK
    <3> QED
      BY <2>0, <3>1, <3>2, <3>3, <3>4, <3>5, <3>7
  <2>9. ASSUME NEW p \in Procs, Return(p) PROVE Undisturbed'
    <3>1. \A q \in Procs : q = p
      OBVIOUS
    <3>2. pc[p] = "return" /\ pc'[p] = "idle"
      BY <2>9 DEF Return, Leave, TypeOK
    <3>3. UNCHANGED <<files, calls, raised, crashes>>
      BY <2>9 DEF Return
    <3> QED
      BY <3>1, <3>2, <3>3 DEF Unopened
  <2>10. ASSUME NEW p \in Procs, Crash(p) PROVE Undisturbed'
    <3>1. \A q \in Procs : q = p
      OBVIOUS
    <3>2. pc'[p] = "idle" /\ crashes' = crashes + 1 /\ crashes \in Nat /\ UNCHANGED <<calls, raised>>
      BY <2>10 DEF Crash, Leave, TypeOK
    <3>3. \A k \in CacheKeys : files'[k] = files[k] \/ (files'[k] = Garbled /\ files[k] = Empty)
      <4>1. CASE UNCHANGED files
        BY <4>1
      <4>2. CASE pc[p] = "write" /\ files' = [files EXCEPT ![KeyOf(p)] = Garbled]
        BY <4>2 DEF TypeOK
      <4> QED
        BY <2>10, <4>1, <4>2 DEF Crash
    <3>4. \A k \in CacheKeys : calls[k] \in Nat /\ calls[k] <= crashes + 1
      BY <3>2 DEF TypeOK
    <3>5. \A k \in CacheKeys :
              calls'[k] <= crashes' + (IF files'[k] # Absent \/ Unopened(k)' THEN 1 ELSE 0)
      BY <3>2, <3>4
    <3> QED
      BY <3>1, <3>2, <3>5
  <2>11. CASE UNCHANGED vars
    BY <2>11 DEF vars, KeyOf, Unopened
  <2> QED
    BY <2>1, <2>2, <2>3, <2>4, <2>5, <2>6, <2>7, <2>8, <2>9, <2>10, <2>11 DEF Next, Proceed
<1> QED
  BY <1>1, <1>2, TypeCorrect, PTL DEF Spec

\* A script that runs alone pays more than once for a key, leaves a file broken
\* or stumbles over one only on account of a crash, however many there were.
THEOREM LossNeedsCrash ==
    ASSUME OneAtATime
    PROVE  Spec => []CrashAccountsForLoss
<1>1. TypeOK /\ Undisturbed => CrashAccountsForLoss
  BY DEF TypeOK, Undisturbed, CrashAccountsForLoss
<1> QED
  BY <1>1, TypeCorrect, UndisturbedInductive, PTL

\* What a step of a script that runs alone may do to the files and the bill.
SettledStays == \A k \in CacheKeys : Whole(k) => files'[k] = files[k] /\ calls'[k] = calls[k]

LEMMA StepKeepsSettled ==
    ASSUME OneAtATime, TypeOK, Undisturbed, [Next]_vars
    PROVE  SettledStays
<1>1. Absent \notin Replies /\ Empty \notin Replies
  BY CacheAssumption DEF Absent, Empty
<1> USE <1>1 DEF SettledStays, Whole, Undisturbed, OneAtATime
<1>2. ASSUME NEW p \in Procs, NEW x \in Replies, ProviderAnswers(p, x) PROVE SettledStays
  BY <1>2 DEF ProviderAnswers, TypeOK
<1>3. ASSUME NEW p \in Procs, OpenFile(p) PROVE SettledStays
  BY <1>3 DEF OpenFile, TypeOK
<1>4. ASSUME NEW p \in Procs, WriteFile(p) PROVE SettledStays
  BY <1>4 DEF WriteFile, TypeOK
<1>5. ASSUME NEW p \in Procs, Crash(p) PROVE SettledStays
  BY <1>5 DEF Crash, TypeOK
<1>6. CASE UNCHANGED <<files, calls>>
  BY <1>6
<1> QED
  BY <1>2, <1>3, <1>4, <1>5, <1>6
     DEF Next, Proceed, Complete, Lookup, ReadHit, ReadRaises, ProviderFails, Return, vars

\* A key whose file is whole is settled for good: nothing rewrites the file, and
\* no call through the cache pays for it again.
THEOREM SettledForGood ==
    ASSUME OneAtATime
    PROVE  Spec => NeverRespend
<1>1. TypeOK /\ Undisturbed /\ [Next]_vars => [SettledStays]_vars
  BY StepKeepsSettled
<1> QED
  BY <1>1, TypeCorrect, UndisturbedInductive, PTL DEF Spec, NeverRespend, SettledStays

-----------------------------------------------------------------------------
(* The directory as a memo.                                                 *)

\* What is settled in the next state, from what the step does to the files.
LEMMA SettledAfter ==
    ASSUME \A k \in CacheKeys : files'[k] = files[k] \/ ({files[k], files'[k]} \cap Replies = {})
    PROVE  SettledAnswers' = SettledAnswers
BY DEF SettledAnswers, Whole

\* A script that runs alone, and may crash anywhere, uses the directory as a
\* memo: one reply settles a question, in the step that completes its file, and
\* every later answer to it is that reply.
THEOREM DirectoryIsMemo ==
    ASSUME OneAtATime
    PROVE  Spec => ImplementsMemo
<1>0. Absent \notin Replies /\ Empty \notin Replies /\ Garbled \notin Replies /\ None \notin Replies
  BY CacheAssumption
<1>1. Init => M!Init
  BY <1>0 DEF Init, M!Init, SettledAnswers, Whole
<1>2. TypeOK /\ Undisturbed /\ [Next]_vars => [M!Next]_<<SettledAnswers, served>>
  <2> SUFFICES ASSUME TypeOK, Undisturbed, [Next]_vars
               PROVE  M!Next \/ UNCHANGED <<SettledAnswers, served>>
    OBVIOUS
  <2> USE DEF OneAtATime
  <2>1. ASSUME NEW p \in Procs, OpenFile(p) PROVE UNCHANGED <<SettledAnswers, served>>
    <3>1. pc[p] = "open" /\ served' = served
      BY <2>1 DEF OpenFile
    <3>2. \A k \in CacheKeys : files'[k] = files[k] \/ (files[k] = Absent /\ files'[k] = Empty)
      BY <2>1, <3>1 DEF OpenFile, TypeOK, Undisturbed
    <3> QED
      BY <1>0, <3>1, <3>2, SettledAfter
  <2>2. ASSUME NEW p \in Procs, WriteFile(p) PROVE M!Next
    <3>1. pc[p] = "write" /\ KeyOf(p) \in CacheKeys /\ got[p] \in Replies /\ served' = served
      BY <2>2, KeyInDirectory DEF WriteFile, TypeOK
    <3>2. files[KeyOf(p)] = Empty
      BY <3>1 DEF Undisturbed
    <3>3. \A k \in CacheKeys : files'[k] = IF k = KeyOf(p) THEN got[p] ELSE files[k]
      BY <2>2, <3>1, <3>2 DEF WriteFile, Overwritten, TypeOK
    <3>4. SettledAnswers[KeyOf(p)] = None
      BY <1>0, <3>1, <3>2 DEF SettledAnswers, Whole
    <3>5. SettledAnswers' = [SettledAnswers EXCEPT ![KeyOf(p)] = got[p]]
      BY <3>1, <3>3 DEF SettledAnswers, Whole
    <3>6. M!SettleQuestion(KeyOf(p), got[p])
      BY <3>1, <3>4, <3>5 DEF M!SettleQuestion
    <3> QED
      BY <3>1, <3>6 DEF M!Next
  <2>3. ASSUME NEW p \in Procs, Return(p) PROVE M!Next \/ UNCHANGED <<SettledAnswers, served>>
    <3>1. pc[p] = "return" /\ files' = files /\ KeyOf(p) \in CacheKeys /\ got[p] \in Replies
      BY <2>3, KeyInDirectory DEF Return, TypeOK
    <3>2. SettledAnswers' = SettledAnswers
      BY <3>1 DEF SettledAnswers, Whole
    <3>3. CASE useCache[p]
      <4>1. served' = served \cup {<<KeyOf(p), got[p]>>}
        BY <2>3, <3>3 DEF Return
      <4>2. SettledAnswers[KeyOf(p)] = got[p]
        BY <3>1, <3>3 DEF Undisturbed, SettledAnswers, Whole
      <4>3. M!Serve(KeyOf(p))
        BY <1>0, <3>1, <3>2, <4>1, <4>2 DEF M!Serve
      <4> QED
        BY <3>1, <4>3 DEF M!Next
    <3>4. CASE ~useCache[p]
      BY <2>3, <3>2, <3>4 DEF Return
    <3> QED
      BY <3>3, <3>4
  <2>4. ASSUME NEW p \in Procs, Crash(p) PROVE UNCHANGED <<SettledAnswers, served>>
    <3>1. \A k \in CacheKeys : files'[k] = files[k] \/ (files[k] = Empty /\ files'[k] = Garbled)
      BY <2>4 DEF Crash, TypeOK, Undisturbed
    <3> QED
      BY <1>0, <2>4, <3>1, SettledAfter DEF Crash
  <2>5. CASE UNCHANGED <<files, served>>
    BY <2>5 DEF SettledAnswers, Whole
  <2> QED
    BY <2>1, <2>2, <2>3, <2>4, <2>5
       DEF Next, Proceed, Complete, Lookup, ReadHit, ReadRaises, ProviderFails, ProviderAnswers, vars
<1> QED
  BY <1>1, <1>2, TypeCorrect, UndisturbedInductive, PTL DEF Spec, ImplementsMemo, M!Spec

-----------------------------------------------------------------------------
(* The retry loop.                                                          *)

Learned == (IF useMaxCompletionTokens THEN 1 ELSE 0) + (IF omitTemperature THEN 1 ELSE 0)

\* The request in flight is always the one the flags describe; a sane endpoint
\* has rejected exactly what was learned; once served, nothing is left to learn.
BackendInv ==
    /\ stage = "sending" => kwargs = Request
    /\ answered => Request \cap rejects = {}
    /\ Sane => wasted = Learned
    /\ (Sane /\ stage = "sending") => attempt <= wasted
    /\ (Sane /\ stage = "raised") => unrelated
    /\ NoNeedlessPatch

\* Types hold in every state.
THEOREM BackendTypeCorrect == BackendSpec => []BackendTypeOK
<1>1. BackendInit => BackendTypeOK
  <2> SUFFICES ASSUME BackendInit PROVE BackendTypeOK
    OBVIOUS
  <2>1. /\ useMaxCompletionTokens \in BOOLEAN /\ omitTemperature \in BOOLEAN
        /\ answered \in BOOLEAN /\ unrelated \in BOOLEAN
    BY Zenon DEF BackendInit
  <2>2. rejects \subseteq Params /\ kwargs \subseteq Params
    BY DEF BackendInit
  <2>3. attempt \in 0..2 /\ requests \in 0..MaxRequests /\ wasted \in Nat
    BY MaxRequestsAssumption DEF BackendInit
  <2>4. stage \in {"idle", "sending", "raised"}
    BY DEF BackendInit
  <2> QED
    BY <2>1, <2>2, <2>3, <2>4 DEF BackendTypeOK
<1>2. BackendTypeOK /\ [BackendNext]_backendVars => BackendTypeOK'
  <2> SUFFICES ASSUME BackendTypeOK, [BackendNext]_backendVars PROVE BackendTypeOK'
    OBVIOUS
  <2> USE MaxRequestsAssumption DEF BackendTypeOK
  <2>1. CASE BuildRequest
    <3>1. Request \subseteq Params
      BY DEF Request, Params, TokenParams
    <3> QED
      BY <2>1, <3>1 DEF BuildRequest
  <2>2. CASE Succeed
    BY <2>2 DEF Succeed
  <2>3. CASE PatchTokens
    BY <2>3 DEF PatchTokens, Rejected, Params, TokenParams
  <2>4. CASE PatchTemperature
    BY <2>4 DEF PatchTemperature, Rejected
  <2>5. CASE GiveUp
    BY <2>5 DEF GiveUp, Rejected
  <2>6. CASE FailUnrelated
    BY <2>6 DEF FailUnrelated
  <2>7. CASE UNCHANGED backendVars
    BY <2>7 DEF backendVars
  <2> QED
    BY <2>1, <2>2, <2>3, <2>4, <2>5, <2>6, <2>7 DEF BackendNext
<1> QED
  BY <1>1, <1>2, PTL DEF BackendSpec

\* The strengthening is inductive.
LEMMA BackendInductive == BackendSpec => []BackendInv
<1> USE DEF Sane, Learned, NoNeedlessPatch, Params, TokenParams
<1>1. BackendInit => BackendInv
  BY DEF BackendInit, BackendInv
<1>2. BackendTypeOK /\ BackendInv /\ [BackendNext]_backendVars => BackendInv'
  <2> SUFFICES ASSUME BackendTypeOK, BackendInv, [BackendNext]_backendVars PROVE BackendInv'
    OBVIOUS
  <2> USE DEF BackendTypeOK, BackendInv
  <2>1. CASE BuildRequest
    BY <2>1 DEF BuildRequest, Request
  <2>2. CASE Succeed
    BY <2>2 DEF Succeed, Request
  <2>3. CASE PatchTokens
    <3>1. "max_tokens" \in rejects \/ "max_completion_tokens" \in rejects
      BY <2>3 DEF PatchTokens, Rejected
    <3>2. ~useMaxCompletionTokens /\ stage = "sending" /\ kwargs \cap rejects # {}
      BY <2>3 DEF PatchTokens, Rejected, Request
    <3>3. ~answered
      BY <3>2
    <3>4. kwargs' = Request'
      BY <2>3, <3>2 DEF PatchTokens, Rejected, Request
    <3> QED
      BY <2>3, <3>1, <3>2, <3>3, <3>4 DEF PatchTokens, Rejected
  <2>4. CASE PatchTemperature
    <3>1. ~omitTemperature /\ stage = "sending" /\ kwargs \cap rejects # {}
      BY <2>4 DEF PatchTemperature, Rejected, Request
    <3>2. ~answered
      BY <3>1
    <3>3. kwargs' = Request'
      BY <2>4, <3>1 DEF PatchTemperature, Rejected, Request
    <3> QED
      BY <2>4, <3>1, <3>2, <3>3 DEF PatchTemperature, Rejected
  <2>5. CASE GiveUp
    <3>1. Request' = Request /\ stage' = "raised"
      BY <2>5 DEF GiveUp, Rejected, Request
    <3>2. ~Sane
      BY <2>5 DEF GiveUp, Rejected, Request
    <3> QED
      BY <2>5, <3>1, <3>2 DEF GiveUp, Rejected
  <2>6. CASE FailUnrelated
    BY <2>6 DEF FailUnrelated, Request
  <2>7. CASE UNCHANGED backendVars
    BY <2>7 DEF backendVars, Request
  <2> QED
    BY <2>1, <2>2, <2>3, <2>4, <2>5, <2>6, <2>7 DEF BackendNext
<1> QED
  BY <1>1, <1>2, BackendTypeCorrect, PTL DEF BackendSpec

\* At most two wasted round trips in the life of an instance, for any number
\* of calls.
THEOREM WasteIsBounded == BackendSpec => [](WastedRoundTrips /\ (Sane => wasted <= 2))
<1>1. BackendInv => WastedRoundTrips /\ (Sane => wasted <= 2)
  BY DEF BackendInv, WastedRoundTrips, Learned
<1> QED
  BY <1>1, BackendInductive, PTL

\* Three attempts always suffice for a sane endpoint.
THEOREM Adapts == BackendSpec => []AlwaysAdapts
<1>1. BackendInv => AlwaysAdapts
  BY DEF BackendInv, AlwaysAdapts
<1> QED
  BY <1>1, BackendInductive, PTL

\* Every request carries exactly one limit on its tokens.
THEOREM TokenLimit == BackendSpec => []OneTokenLimit
<1>1. BackendInv => OneTokenLimit
  <2> SUFFICES ASSUME BackendInv, stage = "sending" PROVE Cardinality(kwargs \cap TokenParams) = 1
    BY DEF OneTokenLimit
  <2>1. PICK p \in TokenParams : kwargs \cap TokenParams = {p}
    BY DEF BackendInv, Request, TokenParams
  <2> QED
    BY <2>1, FS_Singleton
<1> QED
  BY <1>1, BackendInductive, PTL

\* After the first call that goes through, an instance is never rejected again
\* and never forgets.
THEOREM LearnsForGood == BackendSpec => LearnedForGood
<1>1. BackendInv /\ [BackendNext]_backendVars =>
          [ /\ answered => wasted' = wasted
            /\ useMaxCompletionTokens => useMaxCompletionTokens'
            /\ omitTemperature => omitTemperature' ]_backendVars
  <2> SUFFICES ASSUME BackendInv, BackendNext
               PROVE  /\ answered => wasted' = wasted
                      /\ useMaxCompletionTokens => useMaxCompletionTokens'
                      /\ omitTemperature => omitTemperature'
    OBVIOUS
  <2>1. \A p \in Params : Rejected(p) => ~answered
    BY DEF Rejected, BackendInv
  <2> QED
    BY <2>1 DEF BackendNext, BuildRequest, Succeed, PatchTokens, PatchTemperature, GiveUp,
                FailUnrelated, Rejected, Params
<1> QED
  BY <1>1, BackendInductive, PTL DEF BackendSpec, LearnedForGood
=============================================================================
