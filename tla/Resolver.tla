------------------------------ MODULE Resolver ------------------------------
(***************************************************************************)
(* What the proxy promises to the neighbours that solicit it, without      *)
(* sessions, timers, probes, routes or interfaces.  For each question (an  *)
(* address asked of a proxy) the proxy is idle, is looking for the         *)
(* address, or answers for it.  Those who ask while it is looking may be   *)
(* queued; when the address is found the whole queue is answered, at once  *)
(* and once.  Session implements this specification.                       *)
(***************************************************************************)
CONSTANTS
    Questions,  \* what may be asked: the keys of the session table
    Askers,     \* the neighbours that may be queued
    Nobody      \* the asker of duplicate address detection, answered but never queued

VARIABLES
    phase,      \* [Questions -> {"idle", "looking", "answering"}]
    waiting,    \* [Questions -> SUBSET Askers]: who is owed an answer
    linked,     \* [Questions -> BOOLEAN]: the proxy's own interface can carry an answer
    answers     \* the (asker, question) pairs answered by the last step

vars == <<phase, waiting, linked, answers>>

Init ==
    /\ phase = [q \in Questions |-> "idle"]
    /\ waiting = [q \in Questions |-> {}]
    /\ linked \in [Questions -> BOOLEAN]
    /\ answers = {}

Answer(q, hs) == answers' = IF linked[q] THEN {<<h, q>> : h \in hs} ELSE {}

\* The proxy answers for q: whoever asks is told, now.
AskAnswering(q, h) ==
    /\ phase[q] = "answering"
    /\ Answer(q, {h})
    /\ UNCHANGED <<phase, waiting>>

\* The address needs no search: it is static, or this host's own.
AskKnown(q, h) ==
    /\ phase[q] = "idle"
    /\ phase' = [phase EXCEPT ![q] = "answering"]
    /\ Answer(q, {h})
    /\ UNCHANGED waiting

\* The search starts or goes on; h is queued unless the queue is full or h is Nobody.
AskUnknown(q, h) ==
    /\ phase[q] # "answering"
    /\ phase' = [phase EXCEPT ![q] = "looking"]
    /\ \E hs \in SUBSET ({h} \ {Nobody}) : waiting' = [waiting EXCEPT ![q] = @ \cup hs]
    /\ answers' = {}

\* The address is found: the queue is answered and emptied.
Find(q) ==
    /\ phase[q] = "looking"
    /\ phase' = [phase EXCEPT ![q] = "answering"]
    /\ waiting' = [waiting EXCEPT ![q] = {}]
    /\ Answer(q, waiting[q])

\* The answer has become too old.
Lapse(q) ==
    /\ phase[q] = "answering"
    /\ phase' = [phase EXCEPT ![q] = "looking"]
    /\ answers' = {}
    /\ UNCHANGED waiting

\* The search is given up.
Forget(q) ==
    /\ phase[q] = "looking"
    /\ phase' = [phase EXCEPT ![q] = "idle"]
    /\ waiting' = [waiting EXCEPT ![q] = {}]
    /\ answers' = {}

\* Nothing the neighbours can see.
Silent ==
    /\ answers' = {}
    /\ UNCHANGED <<phase, waiting>>

Next ==
    /\ linked' \in [Questions -> BOOLEAN]
    /\ \/ \E q \in Questions, h \in Askers \cup {Nobody} :
             AskAnswering(q, h) \/ AskKnown(q, h) \/ AskUnknown(q, h)
       \/ \E q \in Questions : Find(q) \/ Lapse(q) \/ Forget(q)
       \/ Silent

Spec == Init /\ [][Next]_vars

\* Nobody waits for ever: whoever is queued is, in the end, answered or released to ask
\* again.
NobodyWaitsForever ==
    \A q \in Questions, h \in Askers : h \in waiting[q] ~> h \notin waiting[q]

=============================================================================
