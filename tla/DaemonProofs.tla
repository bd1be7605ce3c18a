---------------------------- MODULE DaemonProofs ----------------------------
(***************************************************************************)
(* The theorems about Daemon, for any interfaces, accounts, launches and   *)
(* periods: the array of poll() is large enough, memberships survive the   *)
(* parent, nothing runs before the change of user is complete, and no      *)
(* handler runs on a closed io.                                            *)
(***************************************************************************)
EXTENDS Daemon, FiniteSetTheorems, TLAPS

----------------------------------------------------------------------------
(* A pass over the handles.                                                *)

Less == {p \in Nat \X Nat : p[1] < p[2]}

\* Of the numbers with a property one is the least.
LEMMA LeastNumber ==
    ASSUME NEW S \in SUBSET Nat, S # {}
    PROVE  \E m \in S : \A k \in S : m <= k
<1>1. IsWellFoundedOn(OpToRel(<, Nat), Nat) /\ OpToRel(<, Nat) = Less
  BY Zenon, NatLessThanWellFounded DEF OpToRel, Less
<1>2. PICK m \in S : \A k \in S : ~(<<k, m>> \in Less)
  BY Zenon, <1>1, WFMin
<1>3. ASSUME NEW k \in S PROVE m <= k
  <2>1. k \in Nat /\ m \in Nat
    BY Zenon
  <2>2. SUFFICES ASSUME k < m PROVE FALSE
    BY <2>1
  <2>3. <<k, m>> \in Nat \X Nat /\ <<k, m>>[1] = k /\ <<k, m>>[2] = m
    BY <2>1
  <2> QED BY <1>2, <2>2, <2>3 DEF Less
<1> QED BY <1>3

\* What one visit makes of the descriptors.
Visit(l, k, due, bad) == IF Interfaces[k] \in due THEN Reopen(l, Interfaces[k], bad) ELSE l

\* f holds the descriptors after each of the first m visits.
Visits(f, m, list, due, bad) ==
    f = [k \in 0 .. m |-> IF k = 0 THEN list ELSE Visit(f[k - 1], k, due, bad)]

\* There are such descriptors, for each number of visits.
LEMMA VisitsExist ==
    ASSUME NEW list, NEW due, NEW bad, NEW n \in Nat
    PROVE  \E f : Visits(f, n, list, due, bad)
<1> DEFINE S == {m \in Nat : ~\E f : Visits(f, m, list, due, bad)}
<1>1. SUFFICES ASSUME S # {} PROVE FALSE
  OBVIOUS
<1>2. PICK m \in S : \A k \in S : m <= k
  BY <1>1, LeastNumber
<1>3. m # 0
  <2>1. Visits([k \in 0 .. 0 |-> list], 0, list, due, bad)
    BY DEF Visits
  <2> QED BY Zenon, <2>1
<1>4. m - 1 \in Nat /\ m - 1 \notin S
  BY <1>2, <1>3
<1>5. PICK f : Visits(f, m - 1, list, due, bad)
  BY Zenon, <1>4
<1> DEFINE g == [k \in 0 .. m |-> IF k = m THEN Visit(f[m - 1], m, due, bad) ELSE f[k]]
<1>6. \A k \in 0 .. m - 1 : f[k] = IF k = 0 THEN list ELSE Visit(f[k - 1], k, due, bad)
  BY <1>5 DEF Visits
<1>7. Visits(g, m, list, due, bad)
  <2>1. ASSUME NEW k \in 0 .. m PROVE g[k] = IF k = 0 THEN list ELSE Visit(g[k - 1], k, due, bad)
    <3>1. CASE k = m
      BY <3>1, <1>3, <1>4
    <3>2. CASE k # m
      <4>1. k \in 0 .. m - 1 /\ g[k] = f[k] /\ (k # 0 => k - 1 \in 0 .. m /\ g[k - 1] = f[k - 1])
        BY <3>2, <1>4
      <4> QED BY <4>1, <1>6
    <3> QED BY <3>1, <3>2
  <2> QED BY <2>1 DEF Visits
<1> QED BY Zenon, <1>7

\* A pass leaves the handle of the routing socket alone, and the list complete.
LEMMA ReopenedIs ==
    ASSUME NEW list, DOMAIN list = Owners, NEW due, NEW bad
    PROVE  DOMAIN Reopened(list, due, bad) = Owners /\ Reopened(list, due, bad)[Rt] = list[Rt]
<1> DEFINE N == Len(Interfaces)
           f == CHOOSE f : Visits(f, N, list, due, bad)
<1>1. N \in Nat /\ Rt \in Owners /\ \A k \in 1 .. N : Interfaces[k] \in Owners /\ Interfaces[k] # Rt
  BY DaemonAssumption DEF Ifaces, Range
<1>2. Visits(f, N, list, due, bad)
  BY Zenon, <1>1, VisitsExist
<1>3. Reopened(list, due, bad) = f[N]
  BY Zenon DEF Reopened, Visits, Visit
<1> HIDE DEF f
<1>4. \A k \in 0 .. N : f[k] = IF k = 0 THEN list ELSE Visit(f[k - 1], k, due, bad)
  BY <1>2 DEF Visits
<1> DEFINE P(l) == DOMAIN l = Owners /\ l[Rt] = list[Rt]
           S == {k \in 0 .. N : ~P(f[k])}
<1>5. ASSUME NEW l, P(l), NEW k \in 1 .. N PROVE P(Visit(l, k, due, bad))
  BY <1>1, <1>5 DEF Visit, Reopen, ndL_create, nd_io_close
<1>6. S = {}
  <2>1. SUFFICES ASSUME S # {} PROVE FALSE
    OBVIOUS
  <2> HIDE DEF P
  <2>2. PICK k \in S : \A j \in S : k <= j
    <3>1. S \in SUBSET Nat
      BY <1>1
    <3> QED BY Zenon, <2>1, <3>1, LeastNumber
  <2>3. k # 0
    BY <1>1, <1>4 DEF P
  <2>4. k - 1 \in 0 .. N /\ k - 1 \notin S /\ k \in 1 .. N
    BY <1>1, <2>2, <2>3
  <2>5. P(f[k - 1])
    BY <2>4
  <2>6. f[k] = Visit(f[k - 1], k, due, bad)
    BY <1>4, <2>3
  <2> QED BY Zenon, <2>4, <2>5, <2>6, <1>5
<1>7. P(f[N])
  BY <1>1, <1>6
<1> QED BY <1>3, <1>7

----------------------------------------------------------------------------
(* The array of poll().                                                    *)

\* There are finitely many ios, and the descriptors are no more than they.
LEMMA IosFinite == IsFiniteSet(Ios)
<1>1. IsFiniteSet(Owners)
  <2> DEFINE D == 1 .. Len(Interfaces)
             f == [i \in D |-> Interfaces[i]]
  <2>1. Len(Interfaces) \in Nat /\ DOMAIN Interfaces = D
    BY DaemonAssumption
  <2>2. IsFiniteSet(D)
    BY <2>1, FS_Interval
  <2>3. f \in Surjection(D, Ifaces)
    BY <2>1 DEF Surjection, Ifaces, Range
  <2>4. IsFiniteSet(Ifaces)
    BY Zenon, <2>2, <2>3, FS_Surjection
  <2>5. IsFiniteSet({Packet}) /\ IsFiniteSet({Rt})
    BY FS_Singleton
  <2>6. IsFiniteSet(Ifaces \cup {Packet} \cup {Rt})
    BY Zenon, <2>4, <2>5, FS_Union
  <2>7. Owners = Ifaces \cup {Packet} \cup {Rt}
    BY DaemonAssumption
  <2> QED BY Zenon, <2>6, <2>7
<1> DEFINE S == {p \in Owners : fds[p] # CLOSED}
           g == [o \in S |-> [owner |-> o, fd |-> fds[o]]]
<1>2. IsFiniteSet(S)
  BY <1>1, FS_Subset
<1>3. g \in Surjection(S, Ios)
  BY DEF Surjection, Ios
<1> QED BY Zenon, <1>2, <1>3, FS_Surjection

LEMMA DescriptorsCounted ==
    /\ Cardinality(Ios) \in Nat
    /\ Cardinality({io.fd : io \in Ios}) \in Nat
    /\ Cardinality({io.fd : io \in Ios}) <= Cardinality(Ios)
<1> DEFINE D == {io.fd : io \in Ios}
           f == [io \in Ios |-> io.fd]
<1>1. f \in Surjection(Ios, D)
  BY DEF Surjection
<1>2. IsFiniteSet(D) /\ Cardinality(D) <= Cardinality(Ios)
  BY Zenon, <1>1, IosFinite, FS_Surjection
<1> QED BY Zenon, <1>2, IosFinite, FS_CardinalityType

\* The array changes only when it is filled.
LEMMA ArrayStep ==
    ASSUME [Next]_vars
    PROVE  UNCHANGED <<pollfds, size>> \/ ndL_refresh_pollfds
<1> USE DEF NoIo, Opened, ListBecomes, ioVars
<1>1. CASE Startup
  BY <1>1 DEF Startup, ParseOptions, CheckPidfile, nd_conf_load, ndL_netns, nd_iface_startup, nd_proxy_startup,
              nd_rt_open, ndL_drop_privileges, ndL_daemonize, ChildDetaches
<1>2. CASE nd_rt_query_routes \/ Stops \/ PollFails \/ Fatal \/ ParentExits \/ ParentCleansUp \/ Signal
  BY <1>2 DEF nd_rt_query_routes, Stops, PollFails, Fatal, ParentExits, ParentCleansUp, Signal
<1>3. ASSUME NEW unread, RebindPass(unread) PROVE UNCHANGED <<pollfds, size>>
  BY <1>3 DEF RebindPass, nd_iface_rebind_all
<1>4. CASE Round
  BY <1>3, <1>4 DEF Round
<1>5. CASE Polls
  BY <1>5 DEF Polls, nd_io_poll
<1>6. CASE Dispatches \/ Returns
  BY <1>6 DEF Dispatches, Dispatch, Returns, HandlerReturns
<1>7. CASE Handle
  BY <1>3, <1>7 DEF Handle
<1>8. ASSUME NEW d \in -1 .. 1, ReadClock(d) PROVE UNCHANGED <<pollfds, size>>
  BY <1>8 DEF ReadClock
<1>9. CASE Exits
  BY <1>9 DEF Exits
<1>10. ASSUME NEW o \in Owners, Incoming(o) PROVE UNCHANGED <<pollfds, size>>
  BY <1>10 DEF Incoming, Arrive
<1>11. ASSUME NEW recreated, LinksChange(recreated) PROVE UNCHANGED <<pollfds, size>>
  BY <1>11 DEF LinksChange
<1>12. CASE UNCHANGED vars
  BY <1>12 DEF vars
<1> QED BY Zenon, <1>1, <1>2, <1>4, <1>5, <1>6, <1>7, <1>8, <1>9, <1>10, <1>11, <1>12 DEF Next, Main

\* io.c:65: the array of poll() has room for every descriptor that is put into it, for
\* any number of interfaces and whatever a pass has opened.
THEOREM ArrayFits == Spec => []PollfdsFit
<1> DEFINE Inv == size \in Nat /\ PollfdsFit
<1>1. Init => Inv
  BY DaemonAssumption, FS_EmptySet DEF Init, IoInit, PollfdsFit
<1>2. Inv /\ [Next]_vars => Inv'
  <2> SUFFICES ASSUME Inv, [Next]_vars PROVE Inv'
    OBVIOUS
  <2>1. CASE UNCHANGED <<pollfds, size>>
    BY <2>1 DEF PollfdsFit
  <2>2. CASE ndL_refresh_pollfds
    BY <2>2, DescriptorsCounted DEF ndL_refresh_pollfds, PollfdsFit
  <2> QED BY <2>1, <2>2, ArrayStep
<1> QED BY <1>1, <1>2, PTL DEF Spec

----------------------------------------------------------------------------
(* The memberships, which the parent and the child share.                  *)

\* Whoever is about to clean up as a parent has been told to keep them; until the daemon
\* itself exits, every interface that is up has one.
MembersOK ==
    /\ Running => bound \subseteq member
    /\ parent = "exiting" => kept

\* No step takes a membership from an interface that is up, but the exit of the daemon.
LEMMA MembersStep ==
    ASSUME MembersOK, [Next]_vars
    PROVE  MembersOK'
<1> USE DEF MembersOK, Running
<1>1. CASE Startup
  <2>1. CASE nd_proxy_startup /\ UNCHANGED kept
    BY <2>1 DEF nd_proxy_startup, Proceed, Fail
  <2>2. CASE ndL_daemonize
    BY <2>2 DEF ndL_daemonize, Proceed, Fail
  <2>3. CASE ParseOptions \/ CheckPidfile \/ nd_conf_load \/ ndL_netns
    BY <2>3 DEF ParseOptions, CheckPidfile, nd_conf_load, ndL_netns, Proceed, Fail
  <2>4. CASE nd_iface_startup \/ nd_rt_open \/ ndL_drop_privileges \/ ChildDetaches
    BY <2>4 DEF nd_iface_startup, nd_rt_open, ndL_drop_privileges, ChildDetaches, Proceed, Fail
  <2> QED BY Zenon, <1>1, <2>1, <2>2, <2>3, <2>4 DEF Startup, nd_proxy_startup
<1>2. CASE nd_rt_query_routes \/ Stops \/ PollFails \/ Fatal \/ Signal
  BY <1>2 DEF nd_rt_query_routes, Stops, PollFails, Fatal, Fail, Signal
<1>3. CASE ParentExits
  BY <1>3 DEF ParentExits
<1>4. CASE ParentCleansUp
  BY <1>4 DEF ParentCleansUp
<1>5. CASE Round \/ Handle
  BY <1>5 DEF Round, Handle
<1>6. CASE Polls \/ Dispatches \/ Returns
  BY <1>6 DEF Polls, Dispatches, Returns, procVars
<1>7. ASSUME NEW d \in -1 .. 1, ReadClock(d) PROVE MembersOK'
  BY <1>7 DEF ReadClock, procVars
<1>8. CASE Exits
  BY <1>8 DEF Exits
<1>9. ASSUME NEW o \in Owners, Incoming(o) PROVE MembersOK'
  BY <1>9 DEF Incoming, procVars
<1>10. ASSUME NEW recreated, LinksChange(recreated) PROVE MembersOK'
  BY <1>10 DEF LinksChange
<1>11. CASE UNCHANGED vars
  BY <1>11 DEF vars, procVars
<1> HIDE DEF MembersOK, Running
<1> QED BY Zenon, <1>1, <1>2, <1>3, <1>4, <1>5, <1>6, <1>7, <1>8, <1>9, <1>10, <1>11 DEF Next, Main

\* ndppd.c, ndL_daemonize: the parent, whenever it gets to clean up, takes no membership from
\* the packet socket that the child goes on using.
THEOREM MembershipsAreKept == Spec => []MembershipsKept
<1>1. Init => MembersOK
  BY DEF Init, MembersOK
<1>2. MembersOK /\ [Next]_vars => MembersOK'
  BY MembersStep
<1>3. MembersOK => MembershipsKept
  BY DEF MembersOK, MembershipsKept, Running
<1> QED BY <1>1, <1>2, <1>3, PTL DEF Spec

----------------------------------------------------------------------------
(* The change of user.                                                     *)

\* The process is the user that was named.
IsNamed ==
    /\ cred.uid = Named(opt.user).uid /\ cred.uid # 0
    /\ cred.gid = Named(opt.user).gid /\ cred.groups = {cred.gid}
    /\ cred.effective = KeptCaps /\ cred.permitted = KeptCaps

\* What ndL_parse_userspec accepts is what the comment above it says.
LEMMA ParsedIsNamed ==
    ASSUME NEW spec, ndL_parse_userspec(spec).ok
    PROVE  /\ ndL_parse_userspec(spec).uid = Named(spec).uid
           /\ ndL_parse_userspec(spec).gid = Named(spec).gid
<1> DEFINE first == spec[1]
           own == IF first.kind = "number" THEN [uid |-> first.id, gid |-> first.id] ELSE Passwd[first.name]
<1>1. \A uid, gid : Granted(uid, gid).ok /\ Granted(uid, gid).uid = uid /\ Granted(uid, gid).gid = gid
  BY DEF Granted
<1>2. ~Refused.ok
  BY DEF Refused
<1>3. UserPart(first).ok
  BY <1>2 DEF ndL_parse_userspec
<1>4. /\ UserPart(first).uid = own.uid /\ UserPart(first).gid = own.gid
      /\ own = [uid |-> own.uid, gid |-> own.gid]
  <2>1. CASE first.kind = "number"
    BY <2>1, <1>1, <1>2, <1>3 DEF UserPart
  <2>2. CASE first.kind = "name" /\ first.name \in DOMAIN Passwd
    <3>1. UserPart(first) = Granted(Passwd[first.name].uid, Passwd[first.name].gid)
      BY <2>2 DEF UserPart
    <3>2. Passwd[first.name] \in [uid : Nat, gid : Nat]
      BY <2>2, DaemonAssumption
    <3> QED BY <2>2, <3>1, <3>2, <1>1
  <2> QED BY <2>1, <2>2, <1>2, <1>3 DEF UserPart
<1>5. CASE Len(spec) = 1
  BY <1>2, <1>3, <1>4, <1>5 DEF ndL_parse_userspec, Named
<1>6. CASE Len(spec) # 1
  <2> DEFINE second == spec[2]
             gid == IF second.kind = "number" THEN second.id ELSE Groups[second.name]
  <2>1. ndL_parse_userspec(spec) = GroupPart(second, UserPart(first).uid)
    BY <1>2, <1>6 DEF ndL_parse_userspec
  <2>2. GroupPart(second, UserPart(first).uid) = Granted(UserPart(first).uid, gid)
    <3>1. GroupPart(second, UserPart(first).uid).ok
      BY <2>1
    <3> QED BY <3>1, <1>2 DEF GroupPart
  <2>3. Named(spec) = [own EXCEPT !.gid = gid]
    BY Zenon, <1>6 DEF Named
  <2>4. Named(spec).uid = own.uid /\ Named(spec).gid = gid
    <3> HIDE DEF own, gid
    <3> QED BY <2>3, <1>4
  <2> HIDE DEF own, gid
  <2>5. ndL_parse_userspec(spec).uid = UserPart(first).uid /\ ndL_parse_userspec(spec).gid = gid
    BY <2>1, <2>2 DEF Granted
  <2> QED BY Zenon, <1>4, <2>4, <2>5
<1> QED BY <1>5, <1>6

\* The five calls, one after the other.
LEMMA CredAfterIs ==
    ASSUME NEW id
    PROVE  CredAfter(Len(Calls), id) =
             After("capset", After("setresuid", After("setresgid", After("setgroups", After("prctl", cred, id), id), id), id), id)
<1> DEFINE c1 == After("prctl", cred, id)
           c2 == After("setgroups", c1, id)
           c3 == After("setresgid", c2, id)
           c4 == After("setresuid", c3, id)
           c5 == After("capset", c4, id)
           Goes(f) == f = [i \in 0 .. Len(Calls) |-> IF i = 0 THEN cred ELSE After(Calls[i], f[i - 1], id)]
           g == [i \in 0 .. 5 |-> IF i = 0 THEN cred ELSE IF i = 1 THEN c1 ELSE IF i = 2 THEN c2
                                  ELSE IF i = 3 THEN c3 ELSE IF i = 4 THEN c4 ELSE c5]
           f == CHOOSE f : Goes(f)
<1>1. /\ Len(Calls) = 5 /\ Calls[1] = "prctl" /\ Calls[2] = "setgroups" /\ Calls[3] = "setresgid"
      /\ Calls[4] = "setresuid" /\ Calls[5] = "capset"
  BY DEF Calls
<1>2. Goes(g)
  <2> HIDE DEF c1, c2, c3, c4, c5
  <2>1. g[0] = cred /\ g[1] = c1 /\ g[2] = c2 /\ g[3] = c3 /\ g[4] = c4 /\ g[5] = c5
    OBVIOUS
  <2>2. g = [i \in 0 .. 5 |-> g[i]]
    OBVIOUS
  <2> HIDE DEF g
  <2>3. ASSUME NEW i \in 0 .. 5 PROVE g[i] = IF i = 0 THEN cred ELSE After(Calls[i], g[i - 1], id)
    <3>1. i = 0 \/ i = 1 \/ i = 2 \/ i = 3 \/ i = 4 \/ i = 5
      OBVIOUS
    <3> QED BY <3>1, <2>1, <1>1 DEF c1, c2, c3, c4, c5
  <2> QED BY <2>2, <2>3, <1>1
<1>3. Goes(f)
  BY Zenon, <1>2
<1>4. CredAfter(Len(Calls), id) = f[Len(Calls)]
  BY Zenon DEF CredAfter
<1> HIDE DEF f, g
<1>5. \A i \in 0 .. 5 : f[i] = IF i = 0 THEN cred ELSE After(Calls[i], f[i - 1], id)
  BY <1>1, <1>3
<1>6. f[0] = cred /\ \A i \in 1 .. 5 : f[i] = After(Calls[i], f[i - 1], id)
  BY <1>5
<1>7. f[1] = c1
  BY <1>1, <1>6
<1> HIDE DEF c1
<1>8. f[2] = c2
  BY <1>1, <1>6, <1>7
<1> HIDE DEF c2
<1>9. f[3] = c3
  BY <1>1, <1>6, <1>8
<1> HIDE DEF c3
<1>10. f[4] = c4
  BY <1>1, <1>6, <1>9
<1> HIDE DEF c4
<1>11. f[5] = c5
  BY <1>1, <1>6, <1>10
<1> QED BY Zenon, <1>1, <1>4, <1>11 DEF c1, c2, c3, c4

\* Each of the calls of ndL_drop_privileges, on credentials whose fields are given.
LEMMA AfterIs ==
    ASSUME NEW c, NEW id
    PROVE  /\ After("prctl", c, id) = [c EXCEPT !.keepcaps = TRUE]
           /\ After("setgroups", c, id) = [c EXCEPT !.groups = {id.gid}]
           /\ After("setresgid", c, id) = [c EXCEPT !.gid = id.gid]
           /\ After("setresuid", c, id) =
                IF c.uid = 0 /\ id.uid # 0
                THEN [c EXCEPT !.uid = id.uid, !.effective = {}, !.permitted = IF c.keepcaps THEN @ ELSE {}]
                ELSE [c EXCEPT !.uid = id.uid]
           /\ After("capset", c, id) = [c EXCEPT !.permitted = KeptCaps, !.effective = KeptCaps]
  BY DEF After

\* The calls of ndL_drop_privileges, when all of them succeed, make the process that user.
LEMMA DropsAll ==
    ASSUME cred \in Credentials, NEW id
    PROVE  LET c == CredAfter(Len(Calls), id)
           IN  /\ c.uid = id.uid /\ c.gid = id.gid /\ c.groups = {id.gid}
               /\ c.effective = KeptCaps /\ c.permitted = KeptCaps
<1> DEFINE Fields == {"uid", "gid", "groups", "permitted", "effective", "keepcaps"}
           c1 == After("prctl", cred, id)
           c2 == After("setgroups", c1, id)
           c3 == After("setresgid", c2, id)
           c4 == After("setresuid", c3, id)
           c5 == After("capset", c4, id)
<1> HIDE DEF c1, c2, c3, c4, c5
<1>1. DOMAIN cred = Fields
  BY DEF Credentials
<1>2. DOMAIN c1 = Fields
  <2>1. c1 = [cred EXCEPT !.keepcaps = TRUE]
    BY Zenon, AfterIs DEF c1
  <2> QED BY <1>1, <2>1
<1>3. DOMAIN c2 = Fields /\ c2.groups = {id.gid}
  <2>1. c2 = [c1 EXCEPT !.groups = {id.gid}]
    BY Zenon, AfterIs DEF c2
  <2> QED BY <1>2, <2>1
<1>4. DOMAIN c3 = Fields /\ c3.groups = {id.gid} /\ c3.gid = id.gid
  <2>1. c3 = [c2 EXCEPT !.gid = id.gid]
    BY Zenon, AfterIs DEF c3
  <2> QED BY <1>3, <2>1
<1>5. DOMAIN c4 = Fields /\ c4.groups = {id.gid} /\ c4.gid = id.gid /\ c4.uid = id.uid
  <2>1. c4 = IF c3.uid = 0 /\ id.uid # 0
             THEN [c3 EXCEPT !.uid = id.uid, !.effective = {}, !.permitted = IF c3.keepcaps THEN @ ELSE {}]
             ELSE [c3 EXCEPT !.uid = id.uid]
    BY Zenon, AfterIs DEF c4
  <2> QED BY <1>4, <2>1
<1>6. /\ c5.groups = {id.gid} /\ c5.gid = id.gid /\ c5.uid = id.uid
      /\ c5.effective = KeptCaps /\ c5.permitted = KeptCaps
  <2>1. c5 = [c4 EXCEPT !.permitted = KeptCaps, !.effective = KeptCaps]
    BY Zenon, AfterIs DEF c5
  <2> QED BY <1>5, <2>1
<1>7. CredAfter(Len(Calls), id) = c5
  BY Zenon, CredAfterIs DEF c1, c2, c3, c4, c5
<1> QED BY <1>6, <1>7

\* The stages before the change of user, and those after it.
Early == {"options", "pidfile", "conf", "netns", "iface", "proxy", "rt", "user"}
Late == {"daemonize", "child", "query", "loop"}

\* Once the change of user is past, and for whatever runs then, the process is that user.
UserOK ==
    /\ stage \in Early \cup Late \cup {"exiting", "ended"}
    /\ stage \in Early => cred \in Credentials /\ parent = "none" /\ handling = Nothing
    /\ opt.user # <<>> /\ (stage \in Late \/ parent # "none" \/ handling # Nothing) => IsNamed

LEMMA UserStep ==
    ASSUME UserOK, [Next]_vars
    PROVE  UserOK'
<1> USE DEF Early, Late
<1>1. ASSUME UNCHANGED <<cred, opt, parent, handling>>, stage' = stage \/ (stage \in Late /\ stage' \in Late) \/ stage' \in {"exiting", "ended"}
      PROVE  UserOK'
  BY <1>1 DEF UserOK, IsNamed
<1>2. CASE Startup
  <2>1. UNCHANGED opt
    BY <1>2 DEF Startup
  <2>2. ASSUME stage \in Early, stage' \in Early, UNCHANGED <<cred, parent, handling>>
        PROVE  UserOK'
    BY <2>1, <2>2 DEF UserOK, IsNamed
  <2>3. CASE ParseOptions \/ CheckPidfile \/ nd_conf_load \/ ndL_netns \/ nd_iface_startup \/ nd_proxy_startup \/ nd_rt_open
    <3>1. stage \in Early /\ stage' \in Early \cup {"exiting"} /\ UNCHANGED <<cred, parent, handling>>
      BY <2>3 DEF ParseOptions, CheckPidfile, nd_conf_load, ndL_netns, nd_iface_startup, nd_proxy_startup, nd_rt_open,
                  Proceed, Fail, NoIo, ioVars, Opened
    <3> QED BY Zenon, <3>1, <2>1, <2>2, <1>1
  <2>4. CASE ndL_drop_privileges
    <3> DEFINE id == ndL_parse_userspec(opt.user)
    <3>1. stage = "user" /\ cred \in Credentials /\ parent = "none" /\ handling = Nothing
      BY <2>4 DEF ndL_drop_privileges, UserOK
    <3>2. UNCHANGED <<parent, handling>> /\ stage' \in {"daemonize", "exiting"}
      BY <2>4 DEF ndL_drop_privileges, Proceed, Fail, NoIo, ioVars
    <3>3. CASE opt.user = <<>> \/ stage' = "exiting"
      BY <3>1, <3>2, <3>3, <2>1 DEF UserOK
    <3>4. CASE opt.user # <<>> /\ stage' = "daemonize"
      <4>1. Acceptable(id) /\ cred' = CredAfter(Len(Calls), id)
        BY <2>4, <3>4 DEF ndL_drop_privileges, Fail
      <4>2. id.uid = Named(opt.user).uid /\ id.gid = Named(opt.user).gid /\ id.uid # 0
        BY <4>1, ParsedIsNamed DEF Acceptable
      <4>3. /\ cred'.uid = id.uid /\ cred'.gid = id.gid /\ cred'.groups = {id.gid}
            /\ cred'.effective = KeptCaps /\ cred'.permitted = KeptCaps
        BY Zenon, <3>1, <4>1, DropsAll
      <4>4. IsNamed'
        BY Zenon, <2>1, <4>2, <4>3 DEF IsNamed, Named
      <4> QED BY <3>4, <4>4 DEF UserOK
    <3> QED BY <3>2, <3>3, <3>4
  <2>5. CASE ndL_daemonize \/ ChildDetaches
    <3>1. stage \in Late /\ stage' \in Late \cup {"exiting"} /\ UNCHANGED <<cred, handling>>
      BY <2>5 DEF ndL_daemonize, ChildDetaches, Proceed, Fail, NoIo, ioVars
    <3> QED BY <3>1, <2>1 DEF UserOK, IsNamed
  <2> QED BY Zenon, <1>2, <2>3, <2>4, <2>5 DEF Startup
<1>3. CASE nd_rt_query_routes \/ Round \/ Stops \/ Polls \/ PollFails \/ Handle \/ Fatal \/ Exits \/ Signal
  BY <1>3, <1>1 DEF nd_rt_query_routes, Round, Stops, Polls, nd_io_poll, PollFails, Handle, Fatal, Exits, Signal,
                    Fail, NoIo, ioVars, procVars
<1>4. CASE Dispatches \/ Returns
  BY <1>4 DEF Dispatches, Returns, Handlers, procVars, UserOK, IsNamed
<1>5. CASE ParentExits \/ ParentCleansUp
  BY <1>5 DEF ParentExits, ParentCleansUp, NoIo, ioVars, UserOK, IsNamed
<1>6. ASSUME NEW d \in -1 .. 1, ReadClock(d) PROVE UserOK'
  BY <1>1, <1>6 DEF ReadClock, procVars, NoIo, ioVars
<1>7. ASSUME NEW o \in Owners, Incoming(o) PROVE UserOK'
  BY <1>1, <1>7 DEF Incoming, Arrive, procVars
<1>8. ASSUME NEW recreated, LinksChange(recreated) PROVE UserOK'
  BY <1>1, <1>8 DEF LinksChange, NoIo, ioVars
<1>9. CASE UNCHANGED vars
  BY <1>1, <1>9 DEF vars, procVars, ioVars
<1> QED BY Zenon, <1>2, <1>3, <1>4, <1>5, <1>6, <1>7, <1>8, <1>9 DEF Next, Main

\* ndppd.c, ndL_drop_privileges: with `--user' nothing is handled, forked or written before
\* the process is the user that was named, with its two capabilities and no others, for
\* any accounts, any form of the option and any credentials at the start.
THEOREM ItRunsAsUser == Spec => []RunsAsUser
<1>1. Init => UserOK
  BY DaemonAssumption DEF Init, IoInit, UserOK, Early, Late
<1>2. UserOK /\ [Next]_vars => UserOK'
  BY UserStep
<1>3. UserOK => RunsAsUser
  BY DEF UserOK, IsNamed, RunsAsUser, Late
<1> QED BY <1>1, <1>2, <1>3, PTL DEF Spec

----------------------------------------------------------------------------
(* The event loop.                                                         *)

\* Events are dispatched, and handlers run, only between the poll and the reading of the
\* clock; what is handled is open, and with epoll so is what is yet to be dispatched.
LoopOK ==
    /\ DOMAIN fds = Owners
    /\ epoll <=> build = "linux"
    /\ handling # Nothing \/ batch # {} => stage \in {"loop", "exiting", "ended"} /\ (stage = "loop" => at = "handlers")
    /\ HandlesOpenIo

\* What a change of the list has to leave alone for that.
LEMMA LoopKept ==
    ASSUME LoopOK, UNCHANGED <<epoll, build, batch, handling>>,
           DOMAIN fds' = Owners,
           handling # Nothing \/ batch # {} => UNCHANGED <<fds, at>> /\ (stage' = stage \/ stage' \in {"exiting", "ended"})
    PROVE  LoopOK'
<1>1. CASE handling = Nothing /\ batch = {}
  BY <1>1 DEF LoopOK, HandlesOpenIo
<1>2. CASE handling # Nothing \/ batch # {}
  <2>1. UNCHANGED <<fds, at, Ios>> /\ (stage' = stage \/ stage' \in {"exiting", "ended"})
    BY <1>2 DEF Ios
  <2> QED BY <1>2, <2>1 DEF LoopOK, HandlesOpenIo, Running
<1> QED BY <1>1, <1>2

\* A pass of nd_iface_rebind_all: on Linux it leaves the list alone, on BSD the routing socket.
LEMMA PassKeeps ==
    ASSUME LoopOK, NEW unread, RebindPass(unread)
    PROVE  /\ UNCHANGED epoll /\ DOMAIN fds' = Owners
           /\ build = "linux" => UNCHANGED fds
           /\ fds'[Rt] = fds[Rt]
<1>1. PICK due \in SUBSET Stale, bad \in SUBSET Stale : nd_iface_rebind_all(unread, due, bad)
  BY DEF RebindPass
<1>2. CASE build = "bsd"
  <2>1. UNCHANGED epoll /\ fds' = Reopened(fds, due, bad)
    BY <1>1, <1>2 DEF nd_iface_rebind_all, ListBecomes
  <2> QED BY <2>1, <1>2, ReopenedIs DEF LoopOK
<1>3. CASE build # "bsd"
  BY <1>1, <1>3 DEF nd_iface_rebind_all, LoopOK
<1> QED BY <1>2, <1>3

\* Handling a message: a pass may close handles while one is being handled, that of the
\* routing socket.
LEMMA HandleKeeps == ASSUME LoopOK, Handle PROVE LoopOK'
<1>1. /\ stage = "loop" /\ at = "handlers" /\ handling # Nothing /\ handling \in Ios
      /\ UNCHANGED <<batch, handling, build, stage, at>>
  BY DEF Handle, Handlers, LoopOK, HandlesOpenIo, Running
<1>2. CASE UNCHANGED <<epoll, fds>>
  BY <1>1, <1>2, LoopKept DEF LoopOK
<1>3. ASSUME NEW unread, handling.owner = Rt, RebindPass(unread) PROVE LoopOK'
  <2>1. /\ UNCHANGED epoll /\ DOMAIN fds' = Owners /\ fds'[Rt] = fds[Rt]
        /\ build = "linux" => UNCHANGED <<fds, Ios>>
    BY <1>3, PassKeeps DEF Ios
  <2>2. handling = [owner |-> Rt, fd |-> fds[Rt]] /\ fds[Rt] # CLOSED /\ Rt \in Owners
    BY <1>1, <1>3 DEF Ios
  <2>3. handling \in Ios'
    BY <2>1, <2>2 DEF Ios
  <2>4. epoll' => batch' \subseteq Ios'
    BY Zenon, <1>1, <2>1 DEF LoopOK, HandlesOpenIo, Running
  <2> QED BY Zenon, <1>1, <2>1, <2>3, <2>4 DEF LoopOK, HandlesOpenIo, Running
<1> QED BY <1>2, <1>3 DEF Handle

LEMMA LoopStep ==
    ASSUME LoopOK, [Next]_vars
    PROVE  LoopOK'
<1>1. CASE Startup
  <2>1. /\ stage \notin {"loop", "exiting", "ended"} /\ UNCHANGED <<build, at>>
        /\ UNCHANGED <<epoll, batch, handling>>
    BY <1>1 DEF Startup, ParseOptions, CheckPidfile, nd_conf_load, ndL_netns, nd_iface_startup, nd_proxy_startup,
                nd_rt_open, ndL_drop_privileges, ndL_daemonize, ChildDetaches, NoIo, ioVars, Opened, ListBecomes, loopVars
  <2>2. DOMAIN fds' = Owners
    <3>1. CASE nd_iface_startup \/ nd_rt_open
      BY <3>1 DEF nd_iface_startup, nd_rt_open, Opened, ListBecomes, ndL_create, NoIo, ioVars, LoopOK
    <3>2. CASE nd_proxy_startup
      BY <3>2, ReopenedIs DEF nd_proxy_startup, Opened, ListBecomes, NoIo, ioVars, LoopOK
    <3>3. CASE ParseOptions \/ CheckPidfile \/ nd_conf_load \/ ndL_netns \/ ndL_drop_privileges \/ ndL_daemonize \/ ChildDetaches
      BY <3>3 DEF ParseOptions, CheckPidfile, nd_conf_load, ndL_netns, ndL_drop_privileges, ndL_daemonize, ChildDetaches,
                  NoIo, ioVars, LoopOK
    <3> QED BY Zenon, <1>1, <3>1, <3>2, <3>3 DEF Startup
  <2>3. handling = Nothing /\ batch = {}
    BY <2>1 DEF LoopOK
  <2> QED BY <2>1, <2>2, <2>3, LoopKept
<1>2. CASE nd_rt_query_routes
  BY <1>2, LoopKept DEF nd_rt_query_routes, NoIo, ioVars, LoopOK
<1>3. CASE Round
  <2>1. stage = "loop" /\ at = "top" /\ UNCHANGED <<batch, handling, build>>
    BY <1>3 DEF Round
  <2>2. UNCHANGED epoll /\ DOMAIN fds' = Owners
    BY <1>3, PassKeeps DEF Round, LoopOK
  <2>3. handling = Nothing /\ batch = {}
    BY <2>1 DEF LoopOK
  <2> QED BY <2>1, <2>2, <2>3, LoopKept
<1>4. CASE Stops \/ PollFails \/ Fatal \/ ParentExits \/ ParentCleansUp \/ Signal
  BY <1>4, LoopKept DEF Stops, PollFails, Fatal, Fail, ParentExits, ParentCleansUp, Signal, NoIo, ioVars, loopVars, LoopOK
<1>5. CASE Polls
  <2>1. /\ stage = "loop" /\ at = "poll" /\ at' = "handlers"
        /\ UNCHANGED <<epoll, fds, handling, build, stage>> /\ batch' \subseteq Ios
    BY <1>5 DEF Polls, nd_io_poll, procVars
  <2>2. handling = Nothing /\ UNCHANGED Ios
    BY <2>1 DEF LoopOK, Ios
  <2> QED BY <2>1, <2>2 DEF LoopOK, HandlesOpenIo
<1>6. CASE Dispatches
  <2>1. stage = "loop" /\ at = "handlers" /\ UNCHANGED <<epoll, fds, build, stage, at, Ios>>
    BY <1>6 DEF Dispatches, Dispatch, Handlers, procVars, loopVars, Ios
  <2>2. PICK e \in batch : batch' = batch \ {e} /\ handling' = Found(e)
    BY <1>6 DEF Dispatches, Dispatch
  <2>3. Found(e) # Nothing => Found(e) \in Ios
    BY <2>1, <2>2 DEF Found, LoopOK, HandlesOpenIo, Running
  <2> QED BY <2>1, <2>2, <2>3 DEF LoopOK, HandlesOpenIo, Running
<1>7. CASE Handle
  BY <1>7, HandleKeeps
<1>8. CASE Returns
  <2>1. stage = "loop" /\ at = "handlers" /\ UNCHANGED <<epoll, fds, batch, build, stage, at, Ios>> /\ handling' = Nothing
    BY <1>8 DEF Returns, HandlerReturns, Handlers, procVars, loopVars, Ios
  <2> QED BY <2>1 DEF LoopOK, HandlesOpenIo, Running
<1>9. ASSUME NEW d \in -1 .. 1, ReadClock(d) PROVE LoopOK'
  BY <1>9, LoopKept DEF ReadClock, procVars, NoIo, ioVars, LoopOK
<1>10. CASE Exits
  BY <1>10 DEF Exits, ListBecomes, LoopOK, HandlesOpenIo, Running
<1>11. ASSUME NEW o \in Owners, Incoming(o) PROVE LoopOK'
  BY <1>11, LoopKept DEF Incoming, Arrive, procVars, loopVars, LoopOK
<1>12. ASSUME NEW recreated, LinksChange(recreated) PROVE LoopOK'
  BY <1>12, LoopKept DEF LinksChange, NoIo, ioVars, loopVars, LoopOK
<1>13. CASE UNCHANGED vars
  BY <1>13, LoopKept DEF vars, procVars, ioVars, loopVars, LoopOK
<1> QED BY Zenon, <1>1, <1>2, <1>3, <1>4, <1>5, <1>6, <1>7, <1>8, <1>9, <1>10, <1>11, <1>12, <1>13 DEF Next, Main

\* io.c, nd_io_poll: no handler runs on an io that has been closed, for any number of
\* interfaces, whichever of them a pass closes and reopens between two events of a batch.
THEOREM ItHandlesOpenIo == Spec => []HandlesOpenIo
<1>1. Init => LoopOK
  BY DEF Init, IoInit, LoopOK, HandlesOpenIo
<1>2. LoopOK /\ [Next]_vars => LoopOK'
  BY LoopStep
<1>3. LoopOK => HandlesOpenIo
  BY DEF LoopOK
<1> QED BY <1>1, <1>2, <1>3, PTL DEF Spec

=============================================================================
