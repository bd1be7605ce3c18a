------------------------------ MODULE Pidfile ------------------------------
(***************************************************************************)
(* The pidfile of ndppd.c: several invocations of the daemon, with the     *)
(* same -p or none, in the foreground or (-d) in the background.           *)
(*                                                                         *)
(* A lock taken with flock belongs to the open file, which fork shares: it *)
(* is held until parent and child have both closed it or ended.            *)
(***************************************************************************)
EXTENDS Naturals, FiniteSets

CONSTANTS
    Starts,         \* invocations of the program
    Background,     \* those with -d
    Pathless,       \* those without -p
    None

ASSUME PidfileAssumption ==
    /\ Background \subseteq Starts
    /\ Pathless \subseteq Starts
    /\ None \notin Starts

VARIABLES
    pc,             \* where the process that was started is
    child,          \* the background process it forked
    exists,         \* the pidfile exists
    content,        \* the invocation whose child the pidfile names, or None
    lock,           \* the invocation that has the lock, or None
    trouble         \* history: an invocation ended for another reason than the lock

vars == <<pc, child, exists, content, lock, trouble>>

Init ==
    /\ pc = [s \in Starts |-> "init"]
    /\ child = [s \in Starts |-> "none"]
    /\ exists \in BOOLEAN
    /\ content = None
    /\ lock = None
    /\ trouble = FALSE

\* The process that was started is no more.
Ended == {"failed", "exited", "unnamed", "killed"}

Goto(s, from, to) == pc[s] = from /\ pc' = [pc EXCEPT ![s] = to]

\* Closing the last copy of the open file, or ending with it, releases the lock.
Release(s) == lock' = IF lock = s THEN None ELSE lock

\* flock without waiting: goes on with the lock, or gives up.
Flock(s, from, to) ==
    /\ Goto(s, from, IF lock = None THEN to ELSE "failed")
    /\ lock' = IF lock = None THEN s ELSE lock
    /\ UNCHANGED <<child, exists, content, trouble>>

\* ndL_check_pidfile, if there is a path: open; it is in order that there is no file ...
CheckOpen(s) ==
    /\ Goto(s, "init", IF exists /\ s \notin Pathless THEN "checking" ELSE "checked")
    /\ UNCHANGED <<child, exists, content, lock, trouble>>

\* ... lock, and close again.
CheckLock(s) == Flock(s, "checking", "closing")

\* Mutant: the file is left open.
CheckCloseLeaks(s) ==
    /\ Goto(s, "closing", "checked")
    /\ UNCHANGED <<child, exists, content, lock, trouble>>

CheckClose(s) ==
    /\ Goto(s, "closing", "checked")
    /\ Release(s)
    /\ UNCHANGED <<child, exists, content, trouble>>

\* The configuration, the sockets, the privileges, opening the pidfile: start-up fails.
StartupFails(s) ==
    /\ Goto(s, "init", "failed") \/ Goto(s, "checked", "failed")
    /\ trouble' = TRUE
    /\ UNCHANGED <<child, exists, content, lock>>

\* Without -d the main loop begins.
Foreground(s) ==
    /\ s \notin Background
    /\ Goto(s, "checked", "running")
    /\ UNCHANGED <<child, exists, content, lock, trouble>>

\* Mutant: the file is truncated when it is opened.
DaemonizeOpenTruncates(s) ==
    /\ s \in Background
    /\ Goto(s, "checked", "opened")
    /\ exists' = TRUE
    /\ content' = None
    /\ UNCHANGED <<child, lock, trouble>>

\* ndL_daemonize: open or create, which fails without a path ...
DaemonizeOpen(s) ==
    /\ s \in Background
    /\ Goto(s, "checked", IF s \in Pathless THEN "failed" ELSE "opened")
    /\ exists' = (exists \/ s \notin Pathless)
    /\ UNCHANGED <<child, content, lock, trouble>>

\* Mutant: a failure of flock is ignored.
DaemonizeLockIgnored(s) ==
    /\ Goto(s, "opened", "locked")
    /\ lock' = IF lock = None THEN s ELSE lock
    /\ UNCHANGED <<child, exists, content, trouble>>

\* ... lock ...
DaemonizeLock(s) == Flock(s, "opened", "locked")

\* ... fork, which may fail ...
Fork(s) ==
    \/ /\ Goto(s, "locked", "forked")
       /\ child' = [child EXCEPT ![s] = "setup"]
       /\ UNCHANGED <<exists, content, lock, trouble>>
    \/ /\ Goto(s, "locked", "failed")
       /\ Release(s)
       /\ trouble' = TRUE
       /\ UNCHANGED <<child, exists, content>>

\* ... and in the parent truncate the file, ...
Truncate(s) ==
    /\ Goto(s, "forked", "truncated")
    /\ content' = None
    /\ UNCHANGED <<child, exists, lock, trouble>>

\* ... write the child's number ...
WritePid(s) ==
    /\ Goto(s, "truncated", "written")
    /\ content' = s
    /\ UNCHANGED <<child, exists, lock, trouble>>

\* ... (a failure of either is only logged) ...
WriteFails(s) ==
    /\ Goto(s, "forked", "unwritten") \/ Goto(s, "truncated", "unwritten")
    /\ trouble' = TRUE
    /\ UNCHANGED <<child, exists, content, lock>>

\* ... and exit; the lock stays with the child.
ParentExit(s) ==
    /\ Goto(s, "written", "exited") \/ Goto(s, "unwritten", "unnamed")
    /\ IF child[s] = "dead" THEN Release(s) ELSE UNCHANGED lock
    /\ UNCHANGED <<child, exists, content, trouble>>

\* The child detaches itself and enters the main loop.
Detach(s) ==
    /\ child[s] = "setup"
    /\ child' = [child EXCEPT ![s] = "running"]
    /\ UNCHANGED <<pc, exists, content, lock, trouble>>

\* The child ends: setsid or chdir fail, a signal, an error of the event loop.
ChildEnds(s) ==
    /\ child[s] \in {"setup", "running"}
    /\ child' = [child EXCEPT ![s] = "dead"]
    /\ IF pc[s] \in Ended THEN Release(s) ELSE UNCHANGED lock
    /\ trouble' = TRUE
    /\ UNCHANGED <<pc, exists, content>>

\* A process of the foreground, or a parent that has not finished, is killed.
Killed(s) ==
    /\ pc[s] \notin Ended
    /\ pc' = [pc EXCEPT ![s] = "killed"]
    /\ IF child[s] \in {"setup", "running"} THEN UNCHANGED lock ELSE Release(s)
    /\ trouble' = TRUE
    /\ UNCHANGED <<child, exists, content>>

Step(s) ==
    \/ CheckOpen(s) \/ CheckLock(s) \/ CheckClose(s)
    \/ StartupFails(s) \/ Foreground(s)
    \/ DaemonizeOpen(s) \/ DaemonizeLock(s) \/ Fork(s)
    \/ Truncate(s) \/ WritePid(s) \/ WriteFails(s) \/ ParentExit(s)
    \/ Detach(s) \/ ChildEnds(s) \/ Killed(s)

Next == \E s \in Starts : Step(s)

Spec == Init /\ [][Next]_vars

----------------------------------------------------------------------------
(* Properties. *)

\* Every variable has its type.
TypeOK ==
    /\ pc \in [Starts -> {"init", "checking", "closing", "checked", "running", "opened", "locked",
                          "forked", "truncated", "written", "unwritten"} \cup Ended]
    /\ child \in [Starts -> {"none", "setup", "running", "dead"}]
    /\ exists \in BOOLEAN
    /\ content \in Starts \cup {None}
    /\ lock \in Starts \cup {None}
    /\ trouble \in BOOLEAN

Lives(s) == child[s] \in {"setup", "running"}

\* One daemon at a time: however many invocations with -d overlap, whoever is killed in
\* between and whether or not the file was there, only one background process lives.
OneDaemon == \A s, t \in Starts : Lives(s) /\ Lives(t) => s = t

\* The pidfile names the daemon: once the parent has exited the file holds the number of
\* its child for as long as that lives, whatever later invocations try, unless writing
\* it failed.
PidfileNames == \A s \in Starts : Lives(s) /\ pc[s] = "exited" => content = s

Runs(s) == pc[s] = "running" \/ Lives(s)

\* Those that can start at all: ndL_daemonize opens the pidfile, whether or not there is one.
Startable == {s \in Starts : s \in Background => s \notin Pathless}

\* Not all give way: when no invocation has a step of its start-up left, with no trouble
\* but the lock, at least one of those that can start runs.
SomeoneStarts ==
    Startable # {} /\ ~trouble /\ (\A s \in Starts : pc[s] \in Ended \cup {"running"})
        => \E s \in Startable : Runs(s)

=============================================================================
