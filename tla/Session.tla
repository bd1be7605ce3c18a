------------------------------ MODULE Session ------------------------------
(***************************************************************************)
(* The session table of the proxy: nd_proxy_handle_ns (proxy.c) and all of *)
(* session.c, driven by the main loop of ndppd.c.                          *)
(*                                                                         *)
(* Time.  The code keeps absolute stamps and only ever compares            *)
(* `nd_current_time - stamp' with a threshold.  The model keeps the ages   *)
(* themselves; MainLoop makes all of them grow.  An age stops growing at   *)
(* AGE_CAP, which is beyond every threshold it is compared with.           *)
(*                                                                         *)
(* The daemon is single threaded.  Packet handlers run inside nd_io_poll,  *)
(* with nd_current_time fixed; after the poll the clock is read and, when  *)
(* more than PERIOD has passed, every session is updated, one at a time,   *)
(* before the next poll.  `pending' holds the sessions still to be visited.*)
(***************************************************************************)
EXTENDS Naturals, FiniteSets

CONSTANTS
    Proxies,        \* the proxy blocks of the configuration
    Addrs,          \* IPv6 addresses: targets before and after rewriting
    Ifaces,         \* network interfaces (nd_iface_t objects, when opened)
    Hosts,          \* soliciting neighbours: (source address, source lladdr)
    None,           \* NULL
    RuleOf,         \* [Keys -> Rule]: the first rule of the proxy that matches, or None
    TgtR,           \* [Keys -> Addrs]: nd_addr_combine on that rule's rewrite prefix
    ProxyIface,     \* [Proxies -> Ifaces]
    BaseRefs,       \* [Ifaces -> Nat]: references held by the proxies and the rules
    Ownable,        \* the (iface, address) pairs that may become local addresses
    Routable,       \* the (address, table) pairs whose route may change
    ND_SESSION_MAX,
    ND_SESSION_MAX_SUBS,
    INVALID_TTL, VALID_TTL, STALE_TTL, RETRANS_TIME, RETRANS_LIMIT, KEEPALIVE,
    PERIOD,         \* the 100 ms between two nd_session_update_all
    Steps,          \* the amounts by which the clock may advance between two polls
    AGE_CAP         \* where ages saturate

Keys == Proxies \X Addrs

Modes == {"STATIC", "IFACE", "AUTO"}

States == {"INCOMPLETE", "VALID", "STALE", "INVALID"}

\* conf.c requires one of `auto', `iface <if>' and `static', and allows autowire with
\* `iface' only: see ConfigAssumption.
Rule == [mode : Modes, iface : Ifaces \cup {None}, table : Nat, autowire : BOOLEAN]

Tables == {RuleOf[k].table : k \in {j \in Keys : RuleOf[j] # None}}

ASSUME NoneAssumption ==
    /\ None \notin Ifaces
    /\ None \notin Hosts
    /\ None \notin Rule

ASSUME ConfigAssumption ==
    /\ RuleOf \in [Keys -> Rule \cup {None}]
    /\ TgtR \in [Keys -> Addrs]
    /\ ProxyIface \in [Proxies -> Ifaces]
    /\ BaseRefs \in [Ifaces -> Nat]
    /\ Ownable \subseteq Ifaces \X Addrs
    /\ Routable \subseteq Addrs \X Tables
    /\ \A p \in Proxies : BaseRefs[ProxyIface[p]] > 0
    /\ \A k \in Keys : RuleOf[k] # None =>
          /\ RuleOf[k].mode = "IFACE" <=> RuleOf[k].iface # None
          /\ RuleOf[k].iface # None => BaseRefs[RuleOf[k].iface] > 0
          /\ RuleOf[k].autowire => RuleOf[k].mode = "IFACE"

ASSUME FiniteAssumption ==
    /\ IsFiniteSet(Keys)
    /\ IsFiniteSet(Hosts)

ASSUME TimeAssumption ==
    /\ ND_SESSION_MAX \in Nat /\ ND_SESSION_MAX_SUBS \in Nat
    /\ INVALID_TTL \in Nat /\ VALID_TTL \in Nat \ {0} /\ STALE_TTL \in Nat
    /\ RETRANS_TIME \in Nat /\ RETRANS_LIMIT \in Nat
    /\ KEEPALIVE \in BOOLEAN
    /\ PERIOD \in Nat
    /\ Steps \subseteq Nat \ {0}
    /\ AGE_CAP \in Nat
    /\ \A t \in {INVALID_TTL, STALE_TTL, RETRANS_TIME, VALID_TTL + PERIOD} : AGE_CAP > t

Age == 0 .. AGE_CAP

Sat(n) == IF n > AGE_CAP THEN AGE_CAP ELSE n

VARIABLES
    sess,       \* [Keys -> SessionRec]: the session of each (proxy, target), if live
    live,       \* the keys with a session in the table
    ahead,      \* <<j, k>>: j stands before k in the lists of ndL_sessions_r
    count,      \* ndL_session_count
    up,         \* iface->up
    admin_up,   \* iface->admin_up
    refs,       \* iface->refcount, 0 when there is no such object
    route,      \* what nd_rt_find_route returns: an interface, or None
    local,      \* the (iface, address) pairs for which nd_rt_is_local_addr holds
    upd_age,    \* nd_current_time - last_session_update
    pending,    \* sessions that nd_session_update_all has yet to visit
    sent,       \* what the last step sent: NA, NS and route requests
    probed,     \* history, per live session: time since it last sent an NS
    vouched     \* history, per live session: time since an NA for its target came in on
                \* its interface, or since the target ceased to be an own address

vars == <<sess, live, ahead, count, up, admin_up, refs, route, local, upd_age, pending, sent, probed, vouched>>

SessionRec ==
    [state : States, iface : Ifaces \cup {None}, subs : SUBSET Hosts,
     state_age : Age, ons_age : Age, ins_age : Age, ons_count : Nat, autowired : BOOLEAN]

\* The fields a fresh session starts from: everything zero, state_time = now.  A
\* stamp of zero is as old as the clock.
Blank ==
    [state |-> "INCOMPLETE", iface |-> None, subs |-> {}, state_age |-> 0,
     ons_age |-> AGE_CAP, ins_age |-> AGE_CAP, ons_count |-> 0, autowired |-> FALSE]

----------------------------------------------------------------------------
(* What a step can send. *)

Na(dst, k) == [type |-> "NA", dst |-> dst, key |-> k]

\* Solicits TgtR[k] on i.
Ns(i, k) == [type |-> "NS", iface |-> i, key |-> k]

AddRoute(k, i) == [type |-> "ADDROUTE", key |-> k, iface |-> i]

DelRoute(k) == [type |-> "DELROUTE", key |-> k]

\* ndL_send_icmp6 fails on an interface that is not bound.
nd_iface_send_na(dsts, k) == IF up[ProxyIface[k[1]]] THEN {Na(d, k) : d \in dsts} ELSE {}

nd_iface_send_ns(i, k, bound) == IF bound THEN {Ns(i, k)} ELSE {}

----------------------------------------------------------------------------
(* The operations on one session.  Each gives the new session, what was    *)
(* sent, and the interface that the operation took a reference on.         *)

Outcome(s, msgs, i) == [sess |-> s, sent |-> msgs, open |-> i]

nd_rt_is_local_addr(k) == <<RuleOf[k].iface, TgtR[k]>> \in local

\* The target is an address of this host on the rule's interface.
OwnAddress(k) ==
    /\ RuleOf[k].iface # None
    /\ up[RuleOf[k].iface]
    /\ nd_rt_is_local_addr(k)

\* The interface an AUTO session can be opened on: the routing table names one,
\* it is not the proxy's own, and nd_iface_open succeeds (`opens').
AutoIface(k, opens) ==
    LET oif == route[<<k[2], RuleOf[k].table>>]
    IN  IF oif # ProxyIface[k[1]] /\ opens THEN oif ELSE None

\* A newly opened interface is bound; a shared one may be waiting.
UpOnceOpen(i) == up[i] \/ refs[i] = 0

\* Mutant: the session takes no reference on its interface.
StartProbingUnreferenced(k, s, i) ==
    Outcome([s EXCEPT !.state = "INCOMPLETE", !.iface = i, !.state_age = 0,
                      !.ons_count = 1, !.ons_age = 0],
            nd_iface_send_ns(i, k, UpOnceOpen(i)), None)

StartProbing(k, s, i) ==
    Outcome([s EXCEPT !.state = "INCOMPLETE", !.iface = i, !.state_age = 0,
                      !.ons_count = 1, !.ons_age = 0],
            nd_iface_send_ns(i, k, UpOnceOpen(i)), i)

\* Mutant: a session without a route is left INCOMPLETE.
CreateIncomplete(k, opens) ==
    LET mode == RuleOf[k].mode
        iface == IF mode = "AUTO" THEN AutoIface(k, opens) ELSE RuleOf[k].iface
    IN  IF mode = "STATIC" \/ (mode = "IFACE" /\ OwnAddress(k))
        THEN Outcome([Blank EXCEPT !.state = "VALID"], {}, None)
        ELSE IF iface = None THEN Outcome(Blank, {}, None) ELSE StartProbing(k, Blank, iface)

nd_session_create(k, opens) ==
    LET mode == RuleOf[k].mode
        iface == IF mode = "AUTO" THEN AutoIface(k, opens) ELSE RuleOf[k].iface
    IN  IF mode = "STATIC" \/ (mode = "IFACE" /\ OwnAddress(k))
        THEN Outcome([Blank EXCEPT !.state = "VALID"], {}, None)
        ELSE IF iface = None
        THEN Outcome([Blank EXCEPT !.state = "INVALID"], {}, None)
        ELSE StartProbing(k, Blank, iface)

\* `h' is the soliciting neighbour, None for duplicate address detection (no source).
nd_session_handle_ns(k, s, h, opens) ==
    LET asked == [s EXCEPT !.ins_age = 0]
        queued == [asked EXCEPT !.subs = @ \cup {h}]
        iface == AutoIface(k, opens)
    IN  IF s.state = "VALID"
        THEN Outcome(asked, nd_iface_send_na({h}, k), None)
        ELSE IF h = None \/ (h \notin s.subs /\ Cardinality(s.subs) >= ND_SESSION_MAX_SUBS)
        THEN Outcome(asked, {}, None)
        ELSE IF s.state = "INVALID" /\ s.iface = None /\ RuleOf[k].mode = "AUTO" /\ iface # None
        THEN StartProbing(k, queued, iface)
        ELSE IF s.state = "STALE" /\ s.iface # None /\ s.ons_age >= RETRANS_TIME
        THEN Outcome([queued EXCEPT !.ons_count = IF @ = 0 THEN 1 ELSE @, !.ons_age = 0],
                     nd_iface_send_ns(s.iface, k, up[s.iface]), None)
        ELSE Outcome(queued, {}, None)

\* Whether ndL_up has a route to add.
Wires(k, s, bound) == s.iface # None /\ bound /\ ~s.autowired /\ RuleOf[k].autowire

\* Mutant: the queue is answered but not emptied.
HandleNaKeepsSubs(k, s) ==
    IF s.state = "VALID"
    THEN Outcome([s EXCEPT !.state_age = 0], {}, None)
    ELSE Outcome([s EXCEPT !.state = "VALID", !.state_age = 0], nd_iface_send_na(s.subs, k), None)

nd_session_handle_na(k, s) ==
    IF s.state = "VALID"
    THEN Outcome([s EXCEPT !.state_age = 0], {}, None)
    ELSE Outcome([s EXCEPT !.subs = {}, !.state = "VALID", !.state_age = 0,
                           !.autowired = @ \/ Wires(k, s, up[s.iface])],
                 nd_iface_send_na(s.subs, k) \cup
                    (IF Wires(k, s, up[s.iface]) THEN {AddRoute(k, s.iface)} ELSE {}),
                 None)

\* Mutant: a change of state empties the queue.
EnterDropsSubs(s, state) == [s EXCEPT !.state = state, !.state_age = 0, !.subs = {}]

Enter(s, state) == [s EXCEPT !.state = state, !.state_age = 0]

\* Mutant: a session waits for an absent interface for as long as it takes.
UpdateIncompleteHolds(k, s) ==
    IF s.iface # None /\ ~up[s.iface]
    THEN Outcome([s EXCEPT !.ons_age = 0], {}, None)
    ELSE IF s.ons_age < RETRANS_TIME
    THEN Outcome(s, {}, None)
    ELSE Outcome(Enter(s, "INVALID"), {}, None)

UpdateIncomplete(k, s) ==
    IF s.iface # None /\ ~up[s.iface]
    THEN Outcome(IF s.state_age < INVALID_TTL THEN [s EXCEPT !.ons_age = 0]
                                              ELSE Enter(s, "INVALID"), {}, None)
    ELSE IF s.ons_age < RETRANS_TIME
    THEN Outcome(s, {}, None)
    ELSE LET again == [s EXCEPT !.ons_count = @ + 1]
         IN  IF again.ons_count > RETRANS_LIMIT
             THEN Outcome(Enter(again, "INVALID"), {}, None)
             ELSE Outcome(again, nd_iface_send_ns(s.iface, k, TRUE), None)

\* Mutant: the session is kept one pass too long.
UpdateValidOffByOne(k, s) ==
    IF s.state_age <= VALID_TTL
    THEN Outcome(s, {}, None)
    ELSE Outcome(Enter(s, IF s.iface = None THEN "INVALID" ELSE "STALE"), {}, None)

UpdateValid(k, s) ==
    IF s.state_age < VALID_TTL
    THEN Outcome(s, {}, None)
    ELSE IF s.iface = None
    THEN Outcome(Enter(s, IF RuleOf[k].mode = "STATIC" \/ OwnAddress(k) THEN "VALID" ELSE "INVALID"),
                 {}, None)
    ELSE LET probe == KEEPALIVE \/ s.ins_age < VALID_TTL
         IN  Outcome([Enter(s, "STALE") EXCEPT !.ons_age = 0, !.ons_count = IF probe THEN 1 ELSE 0],
                     nd_iface_send_ns(s.iface, k, probe /\ up[s.iface]), None)

\* The time to the next probe of a STALE session after n probes.
StaleInterval(n) ==
    LET shift == IF n \div 3 > 16 THEN 16 ELSE n \div 3
    IN  IF n # 0 /\ RETRANS_LIMIT > 0 /\ n % RETRANS_LIMIT = 0
        THEN RETRANS_TIME * 2^shift
        ELSE RETRANS_TIME

\* Mutant: ons_time is not set when a probe is sent.
UpdateStaleUnstamped(k, s) ==
    IF s.state_age >= STALE_TTL
    THEN Outcome(Enter(s, "INVALID"), {}, None)
    ELSE IF \/ ~KEEPALIVE /\ s.ins_age > VALID_TTL
            \/ s.ons_age < StaleInterval(s.ons_count)
    THEN Outcome(s, {}, None)
    ELSE Outcome([s EXCEPT !.ons_count = @ + 1], nd_iface_send_ns(s.iface, k, up[s.iface]), None)

UpdateStale(k, s) ==
    IF s.state_age >= STALE_TTL
    THEN Outcome(Enter(s, "INVALID"), {}, None)
    ELSE IF \/ ~KEEPALIVE /\ s.ins_age > VALID_TTL
            \/ s.ons_age < StaleInterval(s.ons_count)
    THEN Outcome(s, {}, None)
    ELSE Outcome([s EXCEPT !.ons_count = @ + 1, !.ons_age = 0],
                 nd_iface_send_ns(s.iface, k, up[s.iface]), None)

----------------------------------------------------------------------------
(* The actions. *)

Init ==
    /\ sess = [k \in Keys |-> Blank]
    /\ live = {}
    /\ ahead = {}
    /\ count = 0
    /\ up \in {u \in [Ifaces -> BOOLEAN] : \A i \in Ifaces : u[i] => BaseRefs[i] > 0}
    /\ admin_up = [i \in Ifaces |-> FALSE]
    /\ refs = BaseRefs
    /\ route = [x \in Addrs \X Tables |-> None]
    /\ local = {}
    /\ upd_age = 0
    /\ pending = {}
    /\ sent = {}
    /\ probed = [k \in Keys |-> AGE_CAP]
    /\ vouched = [k \in Keys |-> AGE_CAP]

\* The session k becomes o.sess, and the reference o.open is counted.
Commit(k, o) ==
    /\ sess' = [sess EXCEPT ![k] = o.sess]
    /\ sent' = o.sent
    /\ probed' = [probed EXCEPT ![k] = IF \E m \in o.sent : m.type = "NS" THEN 0 ELSE @]
    /\ refs' = [i \in Ifaces |-> IF i = o.open THEN refs[i] + 1 ELSE refs[i]]
    /\ up' = [i \in Ifaces |-> IF i = o.open THEN UpOnceOpen(i) ELSE up[i]]

NsExisting(k, h) ==
    /\ k \in live
    /\ \E opens \in BOOLEAN : Commit(k, nd_session_handle_ns(k, sess[k], h, opens))
    /\ UNCHANGED <<live, ahead, count>>

\* Mutant: the cap is checked one session too late.
RoomOffByOne == count <= ND_SESSION_MAX

RoomForSession == count < ND_SESSION_MAX

\* Mutant: ndL_session_count is not incremented.
LinkUncounted(k) ==
    /\ live' = live \cup {k}
    /\ ahead' = ahead \cup ({k} \X live)
    /\ UNCHANGED count

\* A new session is counted and put at the head of its two lists.
Link(k) ==
    /\ live' = live \cup {k}
    /\ ahead' = ahead \cup ({k} \X live)
    /\ count' = count + 1

\* The session is created and at once handed the solicitation.
NsNew(k, h) ==
    /\ k \notin live
    /\ RuleOf[k] # None
    /\ RoomForSession
    /\ \E first, second \in BOOLEAN :
          LET c == nd_session_create(k, first)
              o == nd_session_handle_ns(k, c.sess, h, second)
          IN  Commit(k, Outcome(o.sess, c.sent \cup o.sent, IF c.open # None THEN c.open ELSE o.open))
    /\ Link(k)

NsDropped(k) ==
    /\ k \notin live
    /\ RuleOf[k] = None \/ ~RoomForSession
    /\ sent' = {}
    /\ UNCHANGED <<sess, live, ahead, count, up, refs, probed>>

nd_proxy_handle_ns(p, tgt, h) ==
    /\ pending = {}
    /\ up[ProxyIface[p]]
    /\ \/ NsExisting(<<p, tgt>>, h)
       \/ NsNew(<<p, tgt>>, h)
       \/ NsDropped(<<p, tgt>>)
    /\ UNCHANGED <<admin_up, route, local, upd_age, pending, vouched>>

\* The sessions an NA received on i for address a could be for ...
Candidates(i, a) == {k \in live : sess[k].iface = i /\ TgtR[k] = a}

\* ... and the one it is given to: the first of them in the list.
nd_session_find_r(i, a) == {k \in Candidates(i, a) : \A j \in Candidates(i, a) : <<j, k>> \notin ahead}

ndL_handle_na(i, a) ==
    /\ pending = {}
    /\ up[i]
    /\ vouched' = [k \in Keys |-> IF k \in Candidates(i, a) THEN 0 ELSE vouched[k]]
    /\ IF Candidates(i, a) = {}
       THEN /\ sent' = {}
            /\ UNCHANGED <<sess, up, refs, probed>>
       ELSE \E k \in nd_session_find_r(i, a) : Commit(k, nd_session_handle_na(k, sess[k]))
    /\ UNCHANGED <<live, ahead, count, admin_up, route, local, upd_age, pending>>

Older(s, d) ==
    [s EXCEPT !.state_age = Sat(@ + d), !.ons_age = Sat(@ + d), !.ins_age = Sat(@ + d)]

\* The poll returns, the clock is read; when PERIOD is over all sessions are due.
MainLoop(d) ==
    /\ pending = {}
    /\ sess' = [k \in Keys |-> IF k \in live THEN Older(sess[k], d) ELSE sess[k]]
    /\ probed' = [k \in Keys |-> Sat(probed[k] + d)]
    /\ vouched' = [k \in Keys |-> Sat(vouched[k] + d)]
    /\ IF upd_age + d > PERIOD
       THEN pending' = live /\ upd_age' = 0
       ELSE pending' = pending /\ upd_age' = upd_age + d
    /\ sent' = {}
    /\ UNCHANGED <<live, ahead, count, up, admin_up, refs, route, local>>

\* Mutant: only a session that was VALID removes its route.
DownIfValid(k, s) == IF s.iface # None /\ s.autowired /\ s.state = "VALID" THEN {DelRoute(k)} ELSE {}

ndL_down(k, s) == IF s.iface # None /\ s.autowired THEN {DelRoute(k)} ELSE {}

\* nd_session_update in the state INVALID, past invalid-ttl.
DeleteSession(k) ==
    LET s == sess[k]
        freed == s.iface # None /\ refs[s.iface] = 1
    IN  /\ sess' = [sess EXCEPT ![k] = Blank]
        /\ live' = live \ {k}
        /\ ahead' = {e \in ahead : k \notin {e[1], e[2]}}
        /\ count' = count - 1
        /\ refs' = [i \in Ifaces |-> IF i = s.iface THEN refs[i] - 1 ELSE refs[i]]
        /\ up' = [i \in Ifaces |-> IF i = s.iface /\ freed THEN FALSE ELSE up[i]]
        /\ admin_up' = [i \in Ifaces |-> IF i = s.iface /\ freed THEN FALSE ELSE admin_up[i]]
        /\ probed' = [probed EXCEPT ![k] = AGE_CAP]
        /\ vouched' = [vouched EXCEPT ![k] = AGE_CAP]
        /\ sent' = ndL_down(k, s)

KeepSession(k) ==
    LET s == sess[k]
    IN  /\ Commit(k, CASE s.state = "INCOMPLETE" -> UpdateIncomplete(k, s)
                       [] s.state = "VALID" -> UpdateValid(k, s)
                       [] s.state = "STALE" -> UpdateStale(k, s)
                       [] s.state = "INVALID" -> Outcome(s, {}, None))
        /\ UNCHANGED <<live, ahead, count, admin_up, vouched>>

nd_session_update(k) ==
    /\ k \in pending
    /\ pending' = pending \ {k}
    /\ IF sess[k].state = "INVALID" /\ sess[k].state_age >= INVALID_TTL
       THEN DeleteSession(k)
       ELSE KeepSession(k)
    /\ UNCHANGED <<route, local, upd_age>>

----------------------------------------------------------------------------
(* What nd_iface_rebind_all does to the sessions of an interface.          *)

\* The sessions of i in table t forget their autowired route, or, if VALID, add it.
nd_session_iface_changed(t, i, isup) ==
    [k \in Keys |->
        IF k \in live /\ t[k].iface = i
        THEN [t[k] EXCEPT !.autowired =
                 isup /\ (@ \/ (t[k].state = "VALID" /\ Wires(k, t[k], TRUE)))]
        ELSE t[k]]

RoutesAdded(old, new) ==
    {AddRoute(k, old[k].iface) : k \in {j \in live : ~old[j].autowired /\ new[j].autowired}}

\* The history when the addresses xs cease to be local or reachable.
Disowned(xs) ==
    [k \in Keys |-> IF k \in live /\ OwnAddress(k) /\ <<RuleOf[k].iface, TgtR[k]>> \in xs THEN 0 ELSE vouched[k]]

\* The interface has disappeared from the kernel.
IfaceGone(i) ==
    /\ up[i]
    /\ up' = [up EXCEPT ![i] = FALSE]
    /\ admin_up' = [admin_up EXCEPT ![i] = FALSE]
    /\ sess' = nd_session_iface_changed(sess, i, FALSE)
    /\ sent' = {}
    /\ vouched' = Disowned({i} \X Addrs)

\* Same interface, same index: IFF_UP has changed.
IfaceAdmin(i) ==
    /\ up[i]
    /\ admin_up' = [admin_up EXCEPT ![i] = ~@]
    /\ sess' = nd_session_iface_changed(sess, i, ~admin_up[i])
    /\ sent' = RoutesAdded(sess, sess')
    /\ UNCHANGED <<up, vouched>>

\* The interface exists under a new index, with IFF_UP = isup: the routes on the
\* old index are forgotten first.
IfaceBound(i, isup) ==
    /\ refs[i] > 0
    /\ up' = [up EXCEPT ![i] = TRUE]
    /\ admin_up' = [admin_up EXCEPT ![i] = isup]
    /\ LET lost == IF up[i] THEN nd_session_iface_changed(sess, i, FALSE) ELSE sess
       IN  /\ sess' = IF isup THEN nd_session_iface_changed(lost, i, TRUE) ELSE lost
           /\ sent' = RoutesAdded(lost, sess')
    /\ UNCHANGED vouched

nd_iface_rebind_all(i) ==
    /\ pending = {}
    /\ \/ IfaceGone(i)
       \/ IfaceAdmin(i)
       \/ \E isup \in BOOLEAN : IfaceBound(i, isup)
    /\ UNCHANGED <<live, ahead, count, refs, route, local, upd_age, pending, probed>>

----------------------------------------------------------------------------
(* What the netlink handler of rt.c changes under the sessions.            *)

RouteChanged(x, i) ==
    /\ pending = {}
    /\ route' = [route EXCEPT ![x] = i]
    /\ sent' = {}
    /\ UNCHANGED <<sess, live, ahead, count, up, admin_up, refs, local, upd_age, pending, probed, vouched>>

AddrChanged(x) ==
    /\ pending = {}
    /\ local' = IF x \in local THEN local \ {x} ELSE local \cup {x}
    /\ vouched' = IF x \in local THEN Disowned({x}) ELSE vouched
    /\ sent' = {}
    /\ UNCHANGED <<sess, live, ahead, count, up, admin_up, refs, route, upd_age, pending, probed>>

Next ==
    \/ \E p \in Proxies, tgt \in Addrs, h \in Hosts \cup {None} : nd_proxy_handle_ns(p, tgt, h)
    \/ \E i \in Ifaces, a \in Addrs : ndL_handle_na(i, a)
    \/ \E d \in Steps : MainLoop(d)
    \/ \E k \in Keys : nd_session_update(k)
    \/ \E i \in Ifaces : nd_iface_rebind_all(i)
    \/ \E x \in Routable, i \in Ifaces \cup {None} : RouteChanged(x, i)
    \/ \E x \in Ownable : AddrChanged(x)

Spec == Init /\ [][Next]_vars

\* The loop keeps running: no handler drains its socket forever.
FairSpec == Spec /\ WF_vars(\E d \in Steps : MainLoop(d)) /\ WF_vars(\E k \in Keys : nd_session_update(k))

----------------------------------------------------------------------------
(* Properties. *)

\* Every variable has its type.
TypeOK ==
    /\ sess \in [Keys -> SessionRec]
    /\ live \subseteq Keys
    /\ ahead \subseteq live \X live
    /\ count \in Nat
    /\ up \in [Ifaces -> BOOLEAN]
    /\ admin_up \in [Ifaces -> BOOLEAN]
    /\ refs \in [Ifaces -> Nat]
    /\ route \in [Addrs \X Tables -> Ifaces \cup {None}]
    /\ local \subseteq Ifaces \X Addrs
    /\ upd_age \in 0 .. PERIOD
    /\ pending \subseteq live
    /\ probed \in [Keys -> Age]
    /\ vouched \in [Keys -> Age]

\* No session can make nd_iface_send_ns dereference a null interface: a session that
\* is probing (INCOMPLETE, STALE) has one.  tests/session-harness.c counts such calls
\* and expects none; the model follows every mode, the route re-check included.
ProbesHaveIface == \A k \in live : sess[k].state \in {"INCOMPLETE", "STALE"} => sess[k].iface # None

\* Nobody waits on an answered question: a VALID session, which answers at once and
\* never looks at its queue again until the next NA, has no queued subscriber.
NoStrandedSubs == \A k \in live : sess[k].state = "VALID" => sess[k].subs = {}

\* Time since the target of k was last known to be there: zero while it is an address
\* of this host, else the time since the last NA (or since it ceased to be local).
VouchAge(k) == IF OwnAddress(k) THEN 0 ELSE vouched[k]

\* The proxy never speaks for a target that has been silent for long: except for
\* static rules, an NA goes out only while the target has been heard of in the last
\* valid-ttl, plus the interval between two passes of nd_session_update_all.
FreshReply ==
    \A m \in sent : m.type = "NA" /\ RuleOf[m.key].mode # "STATIC" => VouchAge(m.key) < VALID_TTL + PERIOD

\* The table is bounded and counted exactly: ndL_session_count is the number of
\* sessions in the lists, at most ND_SESSION_MAX, and no session queues more than
\* ND_SESSION_MAX_SUBS subscribers.
TableBounded ==
    /\ count = Cardinality(live)
    /\ count <= ND_SESSION_MAX
    /\ \A k \in live : Cardinality(sess[k].subs) <= ND_SESSION_MAX_SUBS

SessionsOn(i) == {k \in live : sess[k].iface = i}

\* Interface references are exact: refcount counts the proxies, the rules and the
\* sessions that point to the interface, so nd_iface_close never frees one that a
\* session still uses and never leaks one.
RefsExact == \A i \in Ifaces : refs[i] = BaseRefs[i] + Cardinality(SessionsOn(i))

\* A session that goes away takes its route with it: a session deleted while it
\* believes its /128 route is installed asks for the removal of that route.
RouteRemovedOnExpiry ==
    [][\A k \in live \ live' : sess[k].autowired => DelRoute(k) \in sent']_vars

\* A STALE target is probed gently: however many solicitations arrive, from however
\* many hosts and between whichever passes of nd_session_update_all, two probes of a
\* STALE session are at least retrans-time apart.
StaleProbesSpaced ==
    [][\A k \in live : sess[k].state = "STALE" /\ Ns(sess[k].iface, k) \in sent'
          => probed[k] >= RETRANS_TIME]_vars

\* Nothing pins the table: if the target of a non-static rule is never vouched for
\* again, its session is deleted over and over however many solicitations arrive, and
\* whether or not its interface ever comes back.
SilentTargetForgotten ==
    \A k \in {j \in Keys : RuleOf[j] # None /\ RuleOf[j].mode # "STATIC"} :
        <>[](VouchAge(k) > 0) => []<>(k \notin live)

----------------------------------------------------------------------------
(* What the documentation says of sessions and the code does not do. *)

\* README.md: an INCOMPLETE session "retransmits every retrans-time": two probes of an
\* unresolved target are at least retrans-time apart.
IncompleteProbesSpaced ==
    [][\A k \in live : sess[k].state = "INCOMPLETE" /\ Ns(sess[k].iface, k) \in sent'
          => probed[k] >= RETRANS_TIME]_vars

\* README.md: "INCOMPLETE -- NA received --> VALID": an NA for the target of a session,
\* received on its interface, makes it VALID.
NaMakesValid ==
    [][\A k \in live : vouched[k] # 0 /\ vouched'[k] = 0 => sess'[k].state = "VALID"]_vars

=============================================================================
