--------------------------- MODULE PidfileProofs ---------------------------
(***************************************************************************)
(* Proofs about Pidfile, for any set of invocations.                       *)
(*                                                                         *)
(* LockExact is the heart of the argument: the lock is held by exactly the *)
(* invocation that is between a successful flock and the end of the last   *)
(* process that shares its open file.  Two daemons would both hold it, and *)
(* whoever writes the file holds it while no other daemon lives.           *)
(***************************************************************************)
EXTENDS Pidfile, TLAPS

\* The parent of a child that was forked is at one of these places.
AfterFork == {"forked", "truncated", "written", "unwritten", "exited", "unnamed", "killed"}

\* s has been granted the lock and has not given it back.
Holds(s) == pc[s] \in {"closing", "locked", "forked", "truncated", "written", "unwritten"} \/ Lives(s)

ForkedChild ==
    \A s \in Starts :
        /\ child[s] # "none" => pc[s] \in AfterFork
        /\ pc[s] \in AfterFork \ {"killed"} => child[s] # "none"

LockExact == \A s \in Starts : Holds(s) <=> lock = s

\* From the moment it is written the file names the child.
NamesFromWrite == \A s \in Starts : Lives(s) /\ pc[s] \in {"written", "exited"} => content = s

\* Without trouble a fork is followed by a child that lives.
ChildLives ==
    ~trouble => \A s \in Starts :
        /\ pc[s] \in {"forked", "truncated", "written", "exited"} => Lives(s)
        /\ pc[s] \notin {"unwritten", "unnamed", "killed"}

\* An invocation with -d and without -p does not get to the lock.
NoPathNoLock ==
    \A s \in Starts \ Startable : pc[s] \in {"init", "checked", "failed", "killed"} /\ child[s] = "none"

\* Whoever gave way gave way to one that is past the check.
GaveWay ==
    ~trouble => ((\E s \in Startable : pc[s] = "failed") =>
        \E t \in Startable : pc[t] \notin {"init", "checking", "failed"})

IInv == TypeOK /\ ForkedChild /\ LockExact /\ NamesFromWrite /\ ChildLives

----------------------------------------------------------------------------

\* The initial states satisfy the invariant.
LEMMA InitIInv == Init => IInv
BY PidfileAssumption DEF Init, IInv, TypeOK, ForkedChild, AfterFork, LockExact, NamesFromWrite, ChildLives,
    Holds, Lives, Ended

\* Each step of an invocation keeps the invariant.
LEMMA StepIInv == ASSUME IInv, NEW s \in Starts, Step(s) PROVE IInv'
<1> USE PidfileAssumption DEF IInv, TypeOK, ForkedChild, LockExact, NamesFromWrite, ChildLives, Holds, Lives,
        AfterFork, Ended, Goto, Release
<1>1. CASE CheckOpen(s)
  BY <1>1 DEF CheckOpen
<1>2. CASE CheckLock(s)
  BY <1>2 DEF CheckLock, Flock
<1>3. CASE CheckClose(s)
  BY <1>3 DEF CheckClose
<1>4. CASE StartupFails(s)
  BY <1>4 DEF StartupFails
<1>5. CASE Foreground(s)
  BY <1>5 DEF Foreground
<1>6. CASE DaemonizeOpen(s)
  BY <1>6 DEF DaemonizeOpen
<1>7. CASE DaemonizeLock(s)
  BY <1>7 DEF DaemonizeLock, Flock
<1>8. CASE Fork(s)
  <2>1. CASE Goto(s, "locked", "forked") /\ child' = [child EXCEPT ![s] = "setup"] /\ UNCHANGED <<exists, content, lock, trouble>>
    BY <2>1
  <2>2. CASE Goto(s, "locked", "failed") /\ Release(s) /\ trouble' = TRUE /\ UNCHANGED <<child, exists, content>>
    BY <2>2
  <2>3. QED
    BY <1>8, <2>1, <2>2 DEF Fork
<1>9. CASE Truncate(s)
  BY <1>9 DEF Truncate
<1>10. CASE WritePid(s)
  BY <1>10 DEF WritePid
<1>11. CASE WriteFails(s)
  BY <1>11 DEF WriteFails
<1>12. CASE ParentExit(s)
  <2>1. CASE child[s] = "dead"
    BY <1>12, <2>1 DEF ParentExit
  <2>2. CASE child[s] # "dead"
    <3>1. Lives(s)
      BY <1>12, <2>2, SMT DEF ParentExit
    <3>2. QED
      BY <1>12, <2>2, <3>1 DEF ParentExit
  <2>3. QED
    BY <2>1, <2>2
<1>13. CASE Detach(s)
  BY <1>13 DEF Detach
<1>14. CASE ChildEnds(s)
  BY <1>14 DEF ChildEnds
<1>15. CASE Killed(s)
  BY <1>15 DEF Killed
<1>16. QED
  BY <1>1, <1>2, <1>3, <1>4, <1>5, <1>6, <1>7, <1>8, <1>9, <1>10, <1>11, <1>12, <1>13, <1>14, <1>15 DEF Step

\* The invariant does not depend on anything but the variables.
LEMMA StutterIInv == IInv /\ UNCHANGED vars => IInv'
BY DEF IInv, TypeOK, ForkedChild, LockExact, NamesFromWrite, ChildLives, Holds, Lives, vars

\* The lock is held by exactly the invocation that was granted it, always: parent, child
\* and the check that closes the file again included (flock, fork and close in ndppd.c).
THEOREM Invariant == Spec => []IInv
<1>1. IInv /\ [Next]_vars => IInv'
  BY StepIInv, StutterIInv DEF Next
<1>2. QED
  BY InitIInv, <1>1, PTL DEF Spec

\* At most one background process lives, for any number of invocations with -d that
\* overlap in any way (the lock that ndL_daemonize takes and fork shares).
THEOREM OneDaemonThm == Spec => []OneDaemon
<1>1. IInv => OneDaemon
  BY DEF IInv, LockExact, Holds, OneDaemon
<1>2. QED
  BY Invariant, <1>1, PTL

\* While a daemon lives whose parent has exited, the pidfile names it (ndL_daemonize
\* opens without truncating, and truncates and writes under the lock only).
THEOREM PidfileNamesThm == Spec => []PidfileNames
<1>1. IInv => PidfileNames
  BY DEF IInv, NamesFromWrite, PidfileNames
<1>2. QED
  BY Invariant, <1>1, PTL

----------------------------------------------------------------------------

\* An invocation with -d and without -p fails in ndL_daemonize before it locks anything.
LEMMA StepNoPathNoLock == ASSUME IInv, NoPathNoLock, NEW s \in Starts, Step(s) PROVE NoPathNoLock'
<1> USE DEF IInv, TypeOK, NoPathNoLock, Startable, Goto, Flock
<1>1. CASE CheckOpen(s) \/ CheckLock(s) \/ CheckClose(s)
  BY <1>1 DEF CheckOpen, CheckLock, CheckClose
<1>2. CASE StartupFails(s) \/ Foreground(s)
  BY <1>2 DEF StartupFails, Foreground
<1>3. CASE DaemonizeOpen(s) \/ DaemonizeLock(s)
  BY <1>3 DEF DaemonizeOpen, DaemonizeLock
<1>4. CASE Fork(s) \/ Truncate(s) \/ WritePid(s) \/ WriteFails(s) \/ ParentExit(s)
  BY <1>4 DEF Fork, Truncate, WritePid, WriteFails, ParentExit
<1>5. CASE Detach(s) \/ ChildEnds(s) \/ Killed(s)
  BY <1>5 DEF Detach, ChildEnds, Killed
<1>6. QED
  BY <1>1, <1>2, <1>3, <1>4, <1>5 DEF Step

\* Whoever gives way has seen a holder of the lock, which is past its check; and nobody
\* that is past the check goes back.
LEMMA StepGaveWay ==
    ASSUME IInv, NoPathNoLock, GaveWay, NEW s \in Starts, Step(s)
    PROVE  GaveWay'
<1> SUFFICES ASSUME ~trouble', NEW f \in Startable, pc'[f] = "failed"
             PROVE  \E t \in Startable : pc'[t] \notin {"init", "checking", "failed"}
  BY DEF GaveWay
<1>0. f \in Starts
  BY DEF Startable
<1>1. CASE lock # None /\ (CheckLock(s) \/ DaemonizeLock(s))
  <2>1. lock \in Starts /\ Holds(lock)
    BY <1>1 DEF IInv, TypeOK, LockExact
  <2>2. pc[lock] \notin {"init", "checking", "failed", "opened"}
    BY <2>1 DEF IInv, ForkedChild, AfterFork, Holds, Lives
  <2>3. lock \in Startable
    BY <2>1, <2>2 DEF NoPathNoLock, IInv, ForkedChild, AfterFork, Holds, Lives
  <2>4. lock # s /\ pc'[lock] = pc[lock]
    BY <1>1, <2>1, <2>2 DEF CheckLock, DaemonizeLock, Flock, Goto, IInv, TypeOK
  <2>5. QED
    BY <2>2, <2>3, <2>4
<1>2. CASE ~(lock # None /\ (CheckLock(s) \/ DaemonizeLock(s)))
  <2>1. /\ s \in Startable => pc'[s] # "failed"
        /\ s \in Startable /\ pc[s] \notin {"init", "checking", "failed"} => pc'[s] \notin {"init", "checking", "failed"}
        /\ \A t \in Starts \ {s} : pc'[t] = pc[t]
        /\ ~trouble
    <3> USE DEF Goto, Flock, Ended, IInv, TypeOK, Startable
    <3>1. CASE CheckOpen(s) \/ CheckLock(s) \/ CheckClose(s)
      BY <1>2, <3>1 DEF CheckOpen, CheckLock, CheckClose
    <3>2. CASE StartupFails(s) \/ Foreground(s)
      BY <3>2 DEF StartupFails, Foreground
    <3>3. CASE DaemonizeOpen(s) \/ DaemonizeLock(s)
      BY <1>2, <3>3 DEF DaemonizeOpen, DaemonizeLock
    <3>4. CASE Fork(s) \/ Truncate(s) \/ WritePid(s) \/ WriteFails(s) \/ ParentExit(s)
      BY <3>4 DEF Fork, Truncate, WritePid, WriteFails, ParentExit
    <3>5. CASE Detach(s) \/ ChildEnds(s) \/ Killed(s)
      <4>1. Detach(s)
        BY <3>5 DEF ChildEnds, Killed
      <4>2. QED
        BY <4>1 DEF Detach, ForkedChild, AfterFork
    <3>6. QED
      BY <3>1, <3>2, <3>3, <3>4, <3>5 DEF Step
  <2>2. f # s /\ pc[f] = "failed"
    BY <1>0, <2>1
  <2>3. PICK t \in Startable : pc[t] \notin {"init", "checking", "failed"}
    BY <2>1, <2>2 DEF GaveWay
  <2>4. t \in Starts
    BY <2>3 DEF Startable
  <2>5. QED
    BY <2>1, <2>3, <2>4
<1>3. QED
  BY <1>1, <1>2

\* Of any number of invocations that overlap and could each start alone, not all give way
\* to one another (ndL_check_pidfile locks and closes, ndL_daemonize locks again).
THEOREM SomeoneStartsThm == Spec => []SomeoneStarts
<1>1. Init => NoPathNoLock /\ GaveWay
  BY DEF Init, NoPathNoLock, GaveWay, Startable
<1>2. IInv /\ NoPathNoLock /\ GaveWay /\ [Next]_vars => NoPathNoLock' /\ GaveWay'
  <2>1. NoPathNoLock /\ GaveWay /\ UNCHANGED vars => NoPathNoLock' /\ GaveWay'
    BY DEF NoPathNoLock, GaveWay, Startable, vars
  <2>2. QED
    BY <2>1, StepNoPathNoLock, StepGaveWay DEF Next
<1>3. IInv /\ GaveWay => SomeoneStarts
  BY DEF IInv, ChildLives, GaveWay, SomeoneStarts, Startable, Runs, Lives, Ended
<1>4. QED
  BY Invariant, <1>1, <1>2, <1>3, PTL DEF Spec

=============================================================================
