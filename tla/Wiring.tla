------------------------------- MODULE Wiring -------------------------------
(***************************************************************************)
(* The session table together with the kernel's interfaces and routes: do  *)
(* the /128 routes of `autowire' agree with what the sessions believe?     *)
(*                                                                         *)
(* The kernel flushes the routes of an interface that goes down or is      *)
(* deleted, and refuses new ones on it.  The daemon learns of it at the    *)
(* next pass of nd_iface_rebind_all, which compares the index and the      *)
(* IFF_UP flag that it finds with those of the last pass; sessions are     *)
(* handled in between.  The first pass comes before the first packet.      *)
(***************************************************************************)
EXTENDS Session

CONSTANTS
    Moving,     \* the interfaces that the kernel may change
    MAXINDEX,   \* the indexes an interface may get, one after the other
    LATE        \* whether a packet may be handled after its interface went down

ASSUME WiringAssumption == Moving \subseteq Ifaces /\ MAXINDEX \in Nat \ {0} /\ LATE \in BOOLEAN

VARIABLES
    link,       \* the kernel's interface of each name: its index, 0 if none, and IFF_UP
    last,       \* the last index that each name had
    index,      \* iface->index
    fib,        \* the routes of this process in the kernel
    visited,    \* interfaces that a pass has visited
    flushed,    \* history: interfaces that went down since the last pass
    renamed,    \* history: interfaces that were renamed
    missed      \* history: sessions whose route was lost without their noticing

wiringVars == <<link, last, index, fib, visited, flushed, renamed, missed>>

allVars == <<vars, wiringVars>>

Carries(i) == link[i].index # 0 /\ link[i].admin

\* The route of the session k through the interface i.
RouteOf(k, i) == [dst |-> k[2], table |-> RuleOf[k].table, iface |-> i, index |-> index'[i]]

\* The kernel carries out what the step sends: it adds a route if it has the interface,
\* under that index, up; it removes one route of ours to the destination, whichever comes
\* first, for the request names no interface.
Asked(type) == {m \in sent' : m.type = type}

Added == {RouteOf(m.key, m.iface) : m \in {x \in Asked("ADDROUTE") : Carries(x.iface) /\ link[x.iface].index = index'[x.iface]}}

Matching == {r \in fib : \E m \in Asked("DELROUTE") : r.dst = m.key[2] /\ r.table = RuleOf[m.key].table}

Removals == IF Matching = {} THEN {{}} ELSE {{r} : r \in Matching}

Others(k) == {j \in live' \ {k} : j[2] = k[2] /\ sess'[j].autowired}

\* The sessions that miss out: the kernel refuses their route, or another session of the
\* same destination has it removed.
MissOut ==
    {m.key : m \in {x \in Asked("ADDROUTE") : ~Carries(x.iface)}} \cup
    UNION {Others(m.key) : m \in Asked("DELROUTE")}

\* The kernel has the route of the session k, on the interface that the daemon is bound to.
Routed(k) ==
    \E r \in fib :
        /\ r.dst = k[2] /\ r.table = RuleOf[k].table
        /\ r.iface = sess[k].iface /\ r.index = index[r.iface]

\* What the step makes of the kernel's routes; of those who miss out, and of `more', only
\* the sessions that go on believing in a route they do not have are remembered.
Effects(more) ==
    /\ \E removed \in Removals : fib' = (fib \ removed) \cup Added
    /\ missed' = {k \in missed \cup MissOut \cup more : k \in live' /\ sess'[k].autowired /\ ~Routed(k)'}

----------------------------------------------------------------------------
(* The daemon. *)

NoPass == UNCHANGED <<link, last, index, visited, flushed, renamed>>

HandleNs(p, tgt, h) ==
    /\ visited = Ifaces
    /\ LATE \/ Carries(ProxyIface[p])
    /\ nd_proxy_handle_ns(p, tgt, h)
    /\ NoPass /\ Effects({})

HandleNa(i, a) ==
    /\ visited = Ifaces
    /\ LATE \/ Carries(i)
    /\ ndL_handle_na(i, a)
    /\ NoPass /\ Effects({})

Round(d) ==
    /\ visited = Ifaces
    /\ MainLoop(d)
    /\ NoPass /\ Effects({})

Update(k) == nd_session_update(k) /\ NoPass /\ Effects({})

Rebind(action) ==
    /\ pending = {}
    /\ action
    /\ UNCHANGED <<live, ahead, count, refs, route, local, upd_age, pending, probed>>

NoChange(i) ==
    /\ sent' = {}
    /\ UNCHANGED <<sess, up, admin_up, vouched>>

\* Mutant: the index of the interface is not compared.
SameInterfaceAnyIndex(i) == up[i] /\ link[i].index # 0

\* The interface is the one of the last pass.
SameInterface(i) == up[i] /\ link[i].index = index[i]

\* nd_iface_rebind_all on the interface i.
Pass(i) ==
    /\ \/ link[i].index = 0 /\ up[i] /\ Rebind(IfaceGone(i))
       \/ link[i].index = 0 /\ ~up[i] /\ Rebind(NoChange(i))
       \/ link[i].index # 0 /\ SameInterface(i) /\ link[i].admin # admin_up[i] /\ Rebind(IfaceAdmin(i))
       \/ link[i].index # 0 /\ SameInterface(i) /\ link[i].admin = admin_up[i] /\ Rebind(NoChange(i))
       \/ link[i].index # 0 /\ ~SameInterface(i) /\ Rebind(IfaceBound(i, link[i].admin))
    /\ index' = [index EXCEPT ![i] = IF link[i].index = 0 THEN @ ELSE link[i].index]
    /\ visited' = visited \cup {i}
    /\ flushed' = flushed \ {i}
    /\ Effects(IF i \in flushed THEN SessionsOn(i) ELSE {})
    /\ UNCHANGED <<link, last, renamed>>

----------------------------------------------------------------------------
(* The kernel. *)

\* The daemon does nothing.
Still ==
    /\ sent' = {}
    /\ UNCHANGED <<sess, live, ahead, count, up, admin_up, refs, route, local, upd_age, pending, probed, vouched>>

Flush(i) == fib' = {r \in fib : r.iface # i}

LinkDown(i) ==
    /\ Carries(i)
    /\ link' = [link EXCEPT ![i].admin = FALSE]
    /\ flushed' = flushed \cup {i}
    /\ Flush(i)
    /\ Still /\ UNCHANGED <<last, index, visited, renamed, missed>>

LinkUp(i) ==
    /\ link[i].index # 0 /\ ~link[i].admin
    /\ link' = [link EXCEPT ![i].admin = TRUE]
    /\ Still /\ UNCHANGED <<last, index, fib, visited, flushed, renamed, missed>>

LinkDeleted(i) ==
    /\ link[i].index # 0
    /\ link' = [link EXCEPT ![i] = [index |-> 0, admin |-> FALSE]]
    /\ Flush(i)
    /\ Still /\ UNCHANGED <<last, index, visited, flushed, renamed, missed>>

\* The interface lives on, with its routes, under a name that the daemon does not know.
LinkRenamed(i) ==
    /\ link[i].index # 0
    /\ link' = [link EXCEPT ![i] = [index |-> 0, admin |-> FALSE]]
    /\ renamed' = renamed \cup {i}
    /\ Still /\ UNCHANGED <<last, index, fib, visited, flushed, missed>>

LinkCreated(i, admin) ==
    /\ link[i].index = 0
    /\ last[i] < MAXINDEX
    /\ last' = [last EXCEPT ![i] = @ + 1]
    /\ link' = [link EXCEPT ![i] = [index |-> last[i] + 1, admin |-> admin]]
    /\ Still /\ UNCHANGED <<index, fib, visited, flushed, renamed, missed>>

Kernel(i) ==
    \/ LinkDown(i) \/ LinkUp(i) \/ LinkDeleted(i) \/ LinkRenamed(i)
    \/ \E admin \in BOOLEAN : LinkCreated(i, admin)

WiringInit ==
    /\ Init
    /\ \A i \in Ifaces \ Moving : up[i]
    /\ link = [i \in Ifaces |-> IF up[i] THEN [index |-> 1, admin |-> TRUE] ELSE [index |-> 0, admin |-> FALSE]]
    /\ last = [i \in Ifaces |-> link[i].index]
    /\ index = last
    /\ fib = {}
    /\ visited = {}
    /\ flushed = {}
    /\ renamed = {}
    /\ missed = {}

WiringNext ==
    \/ \E p \in Proxies, tgt \in Addrs, h \in Hosts \cup {None} : HandleNs(p, tgt, h)
    \/ \E i \in Ifaces, a \in Addrs : HandleNa(i, a)
    \/ \E d \in Steps : Round(d)
    \/ \E k \in Keys : Update(k)
    \/ \E i \in Ifaces : Pass(i)
    \/ \E i \in Moving : Kernel(i)

WiringSpec == WiringInit /\ [][WiringNext]_allVars

----------------------------------------------------------------------------
(* Properties. *)

\* The rules of all proxies send the target dst through one interface.
OneWay(dst, table) ==
    \A j, k \in Keys :
        /\ RuleOf[j] # None /\ RuleOf[j].autowire /\ j[2] = dst /\ RuleOf[j].table = table
        /\ RuleOf[k] # None /\ RuleOf[k].autowire /\ k[2] = dst /\ RuleOf[k].table = table
        => RuleOf[j].iface = RuleOf[k].iface

\* No route outlives its session: every route that this process has put into the kernel
\* is one that a session believes in and will have removed when it expires, whatever the
\* interface did meanwhile short of changing its name, if the rules agree on the interface.
NoOrphans ==
    \A r \in fib : r.iface \notin renamed /\ OneWay(r.dst, r.table) =>
        \E k \in live : sess[k].autowired /\ k[2] = r.dst /\ sess[k].iface = r.iface

\* The last pass has seen the interface as it is, and nothing happened to it since.
Settled(i) == up[i] /\ link[i].index = index[i] /\ link[i].admin = admin_up[i] /\ i \notin flushed

\* A session that believes in its route has it, once a pass has seen what became of the
\* interface, unless the route was lost in one of three ways: its interface went down and
\* up again between two passes, the kernel refused it because the interface was down, or
\* another session of the same target expired.
RouteMissingOnlyIfMissed ==
    \A k \in live \ missed : sess[k].autowired /\ Settled(sess[k].iface) => Routed(k)

----------------------------------------------------------------------------
(* What the code says of routes and does not do. *)

\* session.c: the routes of an interface that went away are re-added "for sessions that
\* are still VALID once it reappears": such a session has its route once a pass has seen
\* the interface up.
ValidIsRouted ==
    \A k \in live : sess[k].state = "VALID" /\ RuleOf[k].autowire /\ sess[k].iface # None
        /\ Settled(sess[k].iface) /\ link[sess[k].iface].admin => Routed(k)

=============================================================================
