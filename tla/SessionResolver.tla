-------------------------- MODULE SessionResolver ---------------------------
(***************************************************************************)
(* The session table as an implementation of Resolver: the refinement      *)
(* mapping.  A session that is not VALID is still looking, whichever of    *)
(* its three other states it is in; no session, and the proxy is idle.     *)
(***************************************************************************)
EXTENDS Session

Phase(k) ==
    IF k \notin live THEN "idle" ELSE IF sess[k].state = "VALID" THEN "answering" ELSE "looking"

Promise == INSTANCE Resolver WITH
    Questions <- Keys,
    Askers <- Hosts,
    Nobody <- None,
    phase <- [k \in Keys |-> Phase(k)],
    waiting <- [k \in Keys |-> sess[k].subs],
    linked <- [k \in Keys |-> up[ProxyIface[k[1]]]],
    answers <- {<<m.dst, m.key>> : m \in {x \in sent : x.type = "NA"}}

\* The session table keeps the promise of Resolver to the soliciting neighbours: NAs go
\* only to those who ask now or are owed an answer, the whole queue is answered when
\* and only when the target is found, and the queue is given up only with its session.
KeepsPromise == Promise!Spec

\* Nobody queued in a session waits for ever, whatever the target, the routes and the
\* interfaces do: nd_session_handle_na answers the queue or nd_session_update deletes
\* the session.
WaitersServed == Promise!NobodyWaitsForever

=============================================================================
