------------------------------- MODULE Routes -------------------------------
(***************************************************************************)
(* The copy that rt.c keeps of the kernel's IPv6 routes and addresses, and *)
(* the start-up sequence of ndppd.c that fills it and removes the routes   *)
(* that an earlier process left behind.                                    *)
(*                                                                         *)
(* The netlink socket is bound before the dumps are requested, so events   *)
(* and dump replies share one queue.  A request sent on it is carried out  *)
(* by the kernel before sendmsg returns; its effects come back as events.  *)
(* Addresses are W-bit numbers, W standing for 128.                        *)
(***************************************************************************)
EXTENDS Integers, Sequences, FiniteSetsExt

CONSTANTS
    W,              \* the width of an address
    Worlds,         \* the hosts considered, one for each behaviour
    None,           \* NULL
    NLMAX,          \* messages that fit in the socket's buffer
    DUMP_TIMEOUT,   \* 5000 ms
    Steps           \* the amounts by which the clock may advance between two polls

Addr == 0 .. 2^W - 1

\* A route.  The metric stands for what else the kernel tells routes to one destination
\* apart by; the daemon does not look at it.
nd_rt_route == [dst : Addr, pflen : 0 .. W, table : Nat, oif : Nat, owned : BOOLEAN, metric : Nat]

nd_rt_addr == [iif : Nat, addr : Addr, pflen : 0 .. W]

\* The routes its kernel may hold and those that an earlier process left, the addresses it
\* may have, whether an event that does not fit may be lost, and whether a route may be
\* replaced in place (ip route replace).
World ==
    [routes : SUBSET nd_rt_route, earlier : SUBSET nd_rt_route, addresses : SUBSET nd_rt_addr,
     lossy : BOOLEAN, replace : BOOLEAN]

ASSUME RoutesAssumption ==
    /\ W \in Nat \ {0}
    /\ Worlds \subseteq World
    /\ \A w \in Worlds : w.earlier \subseteq {r \in w.routes : r.owned /\ r.pflen = W /\ r.oif # 0}
    /\ None \notin nd_rt_route
    /\ NLMAX \in Nat \ {0}
    /\ DUMP_TIMEOUT \in Nat \ {0}
    /\ Steps \subseteq Nat \ {0}

VARIABLES
    world,          \* the host
    kernel,         \* the kernel's routes
    hosted,         \* the kernel's addresses
    walk,           \* what the kernel has yet to report in the dump in progress
    nl,             \* the messages waiting in the netlink socket
    ndL_routes,     \* the list of routes
    ndL_addrs,      \* the list of addresses, whose order nothing depends on
    stage,          \* where main is: "opened", "querying" routes, or "running"
    timer,          \* nd_rt_dump_timeout, as the time left
    wired,          \* the routes that sessions of this process have added
    lost,           \* history: an event did not fit in the buffer
    expired,        \* history: the dump of routes was not over in time
    left,           \* history: the earlier process's routes that were in the kernel all the time
    doubled,        \* history: the keys of which the kernel has had two routes at a time
    replaced        \* history: the keys of which a route was replaced in place

vars == <<world, kernel, hosted, walk, nl, ndL_routes, ndL_addrs, stage, timer, wired, lost, expired,
          left, doubled, replaced>>

history == <<left, doubled, replaced>>

\* What the list of routes is searched by.  The kernel may hold several routes of one key:
\* it has fe80::/64 and ff00::/8 once for every interface.
Key(r) == <<r.dst, r.pflen, r.table>>

SameKey(r, q) == Key(r) = Key(q)

\* What the kernel refuses to hold twice, whichever program added it.
SameRoute(r, q) == SameKey(r, q) /\ r.oif = q.oif /\ r.metric = q.metric

\* The kernel reports no destination for a default route, and no interface for a
\* multipath one (oif = 0): the handlers ignore both.
Reported(r) == r.pflen # 0 /\ r.oif # 0

----------------------------------------------------------------------------
(* The list of routes. *)

InsertAt(list, i, r) == SubSeq(list, 1, i - 1) \o <<r>> \o SubSeq(list, i, Len(list))

RemoveAt(list, i) == SubSeq(list, 1, i - 1) \o SubSeq(list, i + 1, Len(list))

\* The places of a list whose routes match.
Matching(list, Match(_)) == {i \in 1 .. Len(list) : Match(list[i])}

RemoveFirst(list, Match(_)) ==
    IF Matching(list, Match) = {} THEN list ELSE RemoveAt(list, Min(Matching(list, Match)))

nd_addr_match(first, second, pflen) == first \div 2^(W - pflen) = second \div 2^(W - pflen)

\* Mutant: the list is sorted the other way round.
InsertPositionAscending(list, r) ==
    Min({i \in 1 .. Len(list) : r.pflen <= list[i].pflen} \cup {Len(list) + 1})

\* The first place whose route is not more specific.
InsertPosition(list, r) ==
    Min({i \in 1 .. Len(list) : r.pflen >= list[i].pflen} \cup {Len(list) + 1})

ndL_new_route(list, r) ==
    IF \E i \in 1 .. Len(list) : SameKey(list[i], r)
    THEN list
    ELSE InsertAt(list, InsertPosition(list, r), r)

\* Mutant: the table is not compared.
DeleteRouteAnyTable(list, r) ==
    RemoveFirst(list, LAMBDA q : q.dst = r.dst /\ q.pflen = r.pflen /\ q.oif = r.oif)

ndL_delete_route(list, r) ==
    RemoveFirst(list, LAMBDA q : SameKey(q, r) /\ q.oif = r.oif)

ndL_handle_newroute(list, r) == IF Reported(r) THEN ndL_new_route(list, r) ELSE list

ndL_handle_delroute(list, r) == IF Reported(r) THEN ndL_delete_route(list, r) ELSE list

nd_rt_find_route(addr, table) ==
    LET found == Matching(ndL_routes, LAMBDA r : nd_addr_match(r.dst, addr, r.pflen) /\ r.table = table)
    IN  IF found = {} THEN None ELSE ndL_routes[Min(found)]

ndL_delete_addr(list, a) == list \ {a}

ndL_new_addr(list, a) == list \cup {a}

----------------------------------------------------------------------------
(* Messages of the netlink socket. *)

NewRoute(r) == [type |-> "NEWROUTE", route |-> r]
DelRoute(r) == [type |-> "DELROUTE", route |-> r]
NewAddr(a) == [type |-> "NEWADDR", addr |-> a]
DelAddr(a) == [type |-> "DELADDR", addr |-> a]
Done == [type |-> "DONE"]

Message ==
    {NewRoute(r) : r \in world.routes} \cup {DelRoute(r) : r \in world.routes} \cup
    {NewAddr(a) : a \in world.addresses} \cup {DelAddr(a) : a \in world.addresses} \cup {Done}

\* An event is queued, or lost when the buffer is full.
Notify(m) ==
    IF Len(nl) < NLMAX
    THEN nl' = Append(nl, m) /\ UNCHANGED lost
    ELSE world.lossy /\ lost' = TRUE /\ UNCHANGED nl

\* The keys that are doubled once r is there as well.
Doubling(r) == doubled \cup {Key(q) : q \in {p \in kernel : SameKey(p, r)}}

Init ==
    /\ world \in Worlds
    /\ kernel \in {world.earlier \cup s : s \in SUBSET {r \in world.routes : ~r.owned}}
    /\ \A q, r \in kernel : SameRoute(q, r) => q = r
    /\ hosted \in SUBSET world.addresses
    /\ walk = {}
    /\ nl = <<>>
    /\ ndL_routes = <<>>
    /\ ndL_addrs = {}
    /\ stage = "opened"
    /\ timer = 0
    /\ wired = {}
    /\ lost = FALSE
    /\ expired = FALSE
    /\ left = world.earlier
    /\ doubled = {Key(r) : r \in {p \in kernel : \E q \in kernel : q # p /\ SameKey(q, p)}}
    /\ replaced = {}

----------------------------------------------------------------------------
(* The kernel. *)

\* Another program adds a route that the kernel does not have.
KernelAddRoute(r) ==
    /\ ~r.owned
    /\ \A q \in kernel : ~SameRoute(q, r)
    /\ kernel' = kernel \cup {r}
    /\ doubled' = Doubling(r)
    /\ Notify(NewRoute(r))
    /\ UNCHANGED <<world, hosted, walk, ndL_routes, ndL_addrs, stage, timer, wired, expired, left, replaced>>

KernelDelRoute(r) ==
    /\ r \in kernel
    /\ kernel' = kernel \ {r}
    /\ left' = left \ {r}
    /\ Notify(DelRoute(r))
    /\ UNCHANGED <<world, hosted, walk, ndL_routes, ndL_addrs, stage, timer, wired, expired, doubled, replaced>>

\* `ip route replace': one event, for the new route.
KernelReplaceRoute(q, r) ==
    /\ world.replace
    /\ q \in kernel /\ SameKey(q, r) /\ q.metric = r.metric
    /\ ~r.owned
    /\ \A p \in kernel : ~SameRoute(p, r)
    /\ kernel' = (kernel \ {q}) \cup {r}
    /\ left' = left \ {q}
    /\ replaced' = replaced \cup {Key(r)}
    /\ Notify(NewRoute(r))
    /\ UNCHANGED <<world, hosted, walk, ndL_routes, ndL_addrs, stage, timer, wired, expired, doubled>>

KernelAddr(a) ==
    /\ hosted' = IF a \in hosted THEN hosted \ {a} ELSE hosted \cup {a}
    /\ Notify(IF a \in hosted THEN DelAddr(a) ELSE NewAddr(a))
    /\ UNCHANGED <<world, kernel, walk, ndL_routes, ndL_addrs, stage, timer, wired, expired, history>>

\* What a dump reports is still there when it is reported.
Holds(m) ==
    \/ m.type = "DONE"
    \/ m.type = "NEWROUTE" /\ m.route \in kernel
    \/ m.type = "NEWADDR" /\ m.addr \in hosted

\* The dump goes on while there is room, and ends with NLMSG_DONE.
KernelDump ==
    /\ Len(nl) < NLMAX
    /\ \E m \in walk :
          /\ m = Done => walk = {Done}
          /\ walk' = walk \ {m}
          /\ nl' = IF Holds(m) THEN Append(nl, m) ELSE nl
    /\ UNCHANGED <<world, kernel, hosted, ndL_routes, ndL_addrs, stage, timer, wired, lost, expired, history>>

----------------------------------------------------------------------------
(* The daemon. *)

nd_rt_query_routes ==
    /\ stage = "opened"
    /\ stage' = "querying"
    /\ timer' = DUMP_TIMEOUT
    /\ walk' = {NewRoute(r) : r \in kernel} \cup {Done}
    /\ UNCHANGED <<world, kernel, hosted, nl, ndL_routes, ndL_addrs, wired, lost, expired, history>>

\* One message of ndL_io_handler's loop.
ndL_io_handler ==
    /\ stage # "opened"
    /\ nl # <<>>
    /\ nl' = Tail(nl)
    /\ LET m == Head(nl)
       IN  /\ ndL_routes' = CASE m.type = "NEWROUTE" -> ndL_handle_newroute(ndL_routes, m.route)
                              [] m.type = "DELROUTE" -> ndL_handle_delroute(ndL_routes, m.route)
                              [] OTHER -> ndL_routes
           /\ ndL_addrs' = CASE m.type = "NEWADDR" -> ndL_new_addr(ndL_addrs, m.addr)
                             [] m.type = "DELADDR" -> ndL_delete_addr(ndL_addrs, m.addr)
                             [] OTHER -> ndL_addrs
           /\ timer' = IF m.type = "DONE" THEN 0 ELSE timer
    /\ UNCHANGED <<world, kernel, hosted, walk, stage, wired, lost, expired, history>>

\* nd_rt_dump_timeout when the clock has advanced by d.
Left(d) == IF timer > d THEN timer - d ELSE 0

\* Mutant: the clean-up does not wait for the dump.
CleanUpAtOnce(d) == stage = "querying"

\* The clean-up is due.
CleanUpDue(d) == stage = "querying" /\ Left(d) = 0

\* The routes that a request to remove one of ours with the key of r is about.  It names no
\* interface, and the kernel removes one of them.
Ours(r) == {q \in kernel : SameKey(q, r) /\ q.owned}

\* One request for every owned route in the list, which has one route of a key at most.
nd_rt_remove_owned_routes ==
    LET asked == {i \in 1 .. Len(ndL_routes) : ndL_routes[i].owned /\ Ours(ndL_routes[i]) # {}}
    IN  \E choice \in [asked -> kernel] :
          LET gone == {choice[i] : i \in asked}
          IN  /\ \A i \in asked : choice[i] \in Ours(ndL_routes[i])
              /\ kernel' = kernel \ gone
              /\ left' = left \ gone
              /\ \E n \in 0 .. Len(ndL_routes) : \E events \in Bijection(1 .. n, {DelRoute(r) : r \in gone}) :
                    IF Len(nl) + Len(events) <= NLMAX
                    THEN nl' = nl \o events /\ UNCHANGED lost
                    ELSE world.lossy /\ lost' = TRUE /\ nl' = SubSeq(nl \o events, 1, NLMAX)

\* The kernel refuses a second dump while one goes on.
nd_rt_query_addresses ==
    /\ timer' = DUMP_TIMEOUT
    /\ walk' = IF walk = {} THEN {NewAddr(a) : a \in hosted} \cup {Done} ELSE walk

\* The poll returns and main goes round: the owned routes are removed once, when the
\* dump is over or late, and the addresses are asked for.
MainLoop(d) ==
    /\ stage # "opened"
    /\ IF CleanUpDue(d)
       THEN /\ stage' = "running"
            /\ nd_rt_remove_owned_routes
            /\ nd_rt_query_addresses
            /\ expired' = (timer > 0 /\ Left(d) = 0)
       ELSE /\ timer' = Left(d)
            /\ UNCHANGED <<kernel, left, nl, lost, stage, walk, expired>>
    /\ UNCHANGED <<world, hosted, ndL_routes, ndL_addrs, wired, doubled, replaced>>

\* ndL_up of a session.  Without NLM_F_REPLACE a route that exists stays; one to the same
\* destination through another interface does not keep r out.
nd_rt_add_route(r) ==
    /\ stage # "opened"
    /\ r.owned /\ r.pflen = W
    /\ wired' = wired \cup {r}
    /\ IF \E q \in kernel : SameRoute(q, r)
       THEN UNCHANGED <<kernel, nl, lost, doubled>>
       ELSE kernel' = kernel \cup {r} /\ doubled' = Doubling(r) /\ Notify(NewRoute(r))
    /\ UNCHANGED <<world, hosted, walk, ndL_routes, ndL_addrs, stage, timer, expired, left, replaced>>

\* ndL_down of a session.
nd_rt_remove_route(r) ==
    /\ r \in wired
    /\ wired' = wired \ {r}
    /\ IF Ours(r) # {}
       THEN \E q \in Ours(r) : kernel' = kernel \ {q} /\ left' = left \ {q} /\ Notify(DelRoute(q))
       ELSE UNCHANGED <<kernel, left, nl, lost>>
    /\ UNCHANGED <<world, hosted, walk, ndL_routes, ndL_addrs, stage, timer, expired, doubled, replaced>>

Next ==
    \/ \E r \in world.routes : KernelAddRoute(r) \/ KernelDelRoute(r)
    \/ \E q, r \in world.routes : KernelReplaceRoute(q, r)
    \/ \E a \in world.addresses : KernelAddr(a)
    \/ KernelDump
    \/ nd_rt_query_routes
    \/ ndL_io_handler
    \/ \E d \in Steps : MainLoop(d)
    \/ \E r \in world.routes : nd_rt_add_route(r) \/ nd_rt_remove_route(r)

Spec == Init /\ [][Next]_vars

----------------------------------------------------------------------------
(* Properties. *)

\* Every variable has its type.
TypeOK ==
    /\ world \in Worlds
    /\ kernel \subseteq world.routes
    /\ hosted \subseteq world.addresses
    /\ walk \subseteq Message
    /\ nl \in Seq(Message) /\ Len(nl) <= NLMAX
    /\ ndL_routes \in Seq(world.routes)
    /\ ndL_addrs \subseteq world.addresses
    /\ stage \in {"opened", "querying", "running"}
    /\ timer \in 0 .. DUMP_TIMEOUT
    /\ wired \subseteq world.routes
    /\ lost \in BOOLEAN /\ expired \in BOOLEAN
    /\ left \subseteq kernel \cap world.earlier
    /\ doubled \cup replaced \subseteq {Key(r) : r \in world.routes}

Known == Range(ndL_routes)

\* The routing decision of auto mode is the kernel's: nd_rt_find_route, which stops at
\* the first match, finds a route whenever the list holds one that covers the address,
\* and the most specific one, in whatever order the events came.
FindLongest ==
    \A addr \in Addr : \A table \in {r.table : r \in world.routes} :
        LET found == nd_rt_find_route(addr, table)
            covering == {r \in Known : r.table = table /\ nd_addr_match(r.dst, addr, r.pflen)}
        IN  IF covering = {}
            THEN found = None
            ELSE found \in covering /\ \A r \in covering : r.pflen <= found.pflen

\* Nothing is on its way from the kernel to the daemon.
Quiet == stage # "opened" /\ nl = <<>> /\ walk = {}

\* The lists follow the kernel although events and dump replies arrive interleaved: once all
\* of them are handled, and none was lost, every route in the list is in the kernel, and every
\* route that the kernel reports is in the list.  Two kinds of key (destination, length and
\* table) are excepted.  A route replaced in place stays in the list as it was.  Of a key of
\* which the kernel has had two routes, as it has of fe80::/64 with two interfaces, the list
\* has one at most, and may have none: ndL_new_route drops the second report, and a deletion
\* can take the entry that stood for the other route.  The list of addresses is complete as
\* well, if the dump of routes ended in time; otherwise that of addresses may be refused.
ListsKnown ==
    Quiet /\ ~lost =>
        /\ \A r \in Known : r \in kernel \/ Key(r) \in replaced
        /\ \A r \in kernel : Reported(r) => r \in Known \/ Key(r) \in doubled \cup replaced
        /\ stage = "running" /\ ~expired => ndL_addrs = hosted

\* Start-up cleans up after an earlier process: when the dump of routes has ended in time and
\* main goes on, no route which that process left is in the kernel any more, whatever events
\* were lost meanwhile, except of a key of which the kernel has had two routes.  Of those the
\* list has one, nd_rt_remove_owned_routes sends one request or none, and one route stays.
EarlierRemoved == stage = "running" /\ ~expired => \A r \in left : Key(r) \in doubled

----------------------------------------------------------------------------
(* What the documentation says of routes and the code does not do. *)

\* rt.c calls ndL_routes "All IPV6 routes on the system": whatever happened before, once
\* everything is handled the list is what the kernel reports.
RoutesComplete == Quiet => Known = {r \in kernel : Reported(r)}

=============================================================================
