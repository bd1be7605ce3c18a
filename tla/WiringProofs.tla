---------------------------- MODULE WiringProofs ----------------------------
(***************************************************************************)
(* The routes of `autowire' never outlive their sessions, for every number *)
(* of proxies, targets, rules and interfaces, and whatever the kernel's    *)
(* interfaces do between two passes.                                       *)
(***************************************************************************)
EXTENDS Wiring, SessionProofs

----------------------------------------------------------------------------
(* The inductive invariant.                                                *)

KernelTypes ==
    /\ link \in [Ifaces -> [index : Nat, admin : BOOLEAN]]
    /\ last \in [Ifaces -> Nat]
    /\ index \in [Ifaces -> Nat]

\* The session k, which is in the table, will have the route r removed.
Backs(k, r) == sess[k].autowired /\ k[2] = r.dst /\ RuleOf[k].table = r.table /\ sess[k].iface = r.iface

\* The route is on the interface that the daemon knows by that name, and it is up.
Current(r) == Carries(r.iface) /\ r.index = link[r.iface].index /\ r.index = index[r.iface]

\* The session k has a rule that installs routes to dst in the table, on the interface i.
Installs(k, dst, table, i) ==
    RuleOf[k] # None /\ RuleOf[k].autowire /\ k[2] = dst /\ RuleOf[k].table = table /\ RuleOf[k].iface = i

Route == [dst : Addrs, table : Tables, iface : Ifaces, index : Nat]

\* The session k, if its record is s, is on the interface of its rule, and believes in a
\* route only if the rule says so.
Follows(k, s) ==
    /\ RuleOf[k].mode = "IFACE" => s.iface \in {None, RuleOf[k].iface}
    /\ s.autowired => RuleOf[k].autowire

RulesFollowed == \A k \in live : Follows(k, sess[k])

\* Without Current the pass that finds an interface down, gone, or replaced could make a
\* session forget a route that is still there.  That every route comes from a rule, renamed
\* interfaces included, leaves the kernel no other route to remove where the rules agree.
RoutesBacked ==
    \A r \in fib :
        /\ r \in Route
        /\ \E k \in Keys : Installs(k, r.dst, r.table, r.iface)
        /\ r.iface \notin renamed /\ OneWay(r.dst, r.table) => Current(r) /\ \E k \in live : Backs(k, r)

\* The interfaces that proxies and rules refer to have been bound once if they are up.  No
\* interface of the kernel has an index that it has not reached yet.
Indexed ==
    \A i \in Ifaces :
        /\ up[i] /\ BaseRefs[i] > 0 => index[i] # 0
        /\ index[i] <= last[i] /\ link[i].index <= last[i]

\* The daemon has yet to find out what became of the interface.
Doubtful(i) == i \in flushed \/ link[i].index # index[i]

\* A session that believes in its route is on an interface that is up, so that the daemon
\* will tell it when the interface goes; it has the route, or is known to miss it, or the next
\* pass will see to it.
RoutesHad ==
    \A k \in live : sess[k].autowired =>
        /\ up[sess[k].iface]
        /\ k \in missed \/ Routed(k) \/ Doubtful(sess[k].iface)

WInv == IInv /\ KernelTypes /\ RulesFollowed /\ RoutesBacked /\ Indexed /\ RoutesHad

\* The initial state satisfies the invariant.
LEMMA WiringInitInv == WiringInit => WInv
<1> SUFFICES ASSUME WiringInit PROVE WInv
  OBVIOUS
<1>1. IInv
  BY Zenon, InitInv DEF WiringInit
<1>2. link \in [Ifaces -> [index : Nat, admin : BOOLEAN]]
  BY Zenon DEF WiringInit
<1>3. last \in [Ifaces -> Nat] /\ index = last
  BY Zenon, <1>2 DEF WiringInit
<1>4. RoutesBacked /\ RulesFollowed /\ RoutesHad
  BY Zenon DEF WiringInit, RoutesBacked, Init, RulesFollowed, RoutesHad
<1>5. Indexed
  BY <1>2, <1>3 DEF WiringInit, Indexed
<1> QED BY Zenon, <1>1, <1>2, <1>3, <1>4, <1>5 DEF WInv, KernelTypes

----------------------------------------------------------------------------
(* The sessions keep their own invariant.                                  *)

\* A step in which the daemon does nothing.
LEMMA StillInv == ASSUME IInv, Still PROVE IInv'
<1>1. /\ TypeOK' /\ SessionsOK' /\ DeadBlank' /\ InTime' /\ Stamped' /\ RefsExact' /\ Counted'
  BY Zenon DEF IInv, StateInv, Still, TypeOK, SessionsOK, DeadBlank, InTime, Stamped, RefsExact, SessionsOn, Counted
<1>2. Vouched'
  BY Zenon DEF IInv, StateInv, Still, Vouched, VouchAge, OwnAddress, nd_rt_is_local_addr
<1>3. FreshReply'
  BY Zenon DEF Still, FreshReply
<1> QED BY Zenon, <1>1, <1>2, <1>3 DEF IInv, StateInv

\* A pass is one of the session table's steps, or changes nothing there.
LEMMA PassIsRebind ==
    ASSUME KernelTypes, NEW i \in Ifaces, Pass(i) PROVE nd_iface_rebind_all(i) \/ Still
<1>1. ASSUME Rebind(NoChange(i)) PROVE Still
  BY Zenon, <1>1 DEF Rebind, NoChange, Still
<1>2. ASSUME Rebind(IfaceGone(i)) PROVE nd_iface_rebind_all(i)
  BY Zenon, <1>2 DEF Rebind, nd_iface_rebind_all
<1>3. ASSUME Rebind(IfaceAdmin(i)) PROVE nd_iface_rebind_all(i)
  BY Zenon, <1>3 DEF Rebind, nd_iface_rebind_all
<1>4. ASSUME link[i].admin \in BOOLEAN, Rebind(IfaceBound(i, link[i].admin)) PROVE nd_iface_rebind_all(i)
  BY Zenon, <1>4 DEF Rebind, nd_iface_rebind_all
<1>5. link[i].admin \in BOOLEAN
  BY Zenon DEF KernelTypes
<1> QED BY Zenon, <1>1, <1>2, <1>3, <1>4, <1>5 DEF Pass

----------------------------------------------------------------------------
(* The routes, given what a step of the daemon does to the sessions.       *)

\* The routes that the step asks for are those of sessions that believe in them.
AsksForBelieved ==
    \A m \in Asked("ADDROUTE") :
        m.iface \in Ifaces /\ m.key \in live' /\ sess'[m.key].autowired /\ sess'[m.key].iface = m.iface

\* A step that asks for no route but one its session believes in, and that makes no session
\* forget a route which stays in the kernel, keeps the routes backed.
LEMMA RoutesStep ==
    ASSUME RoutesBacked, IInv', RulesFollowed', KernelTypes', AsksForBelieved, NEW removed,
           fib' = (fib \ removed) \cup Added, link' = link, renamed' = renamed,
           \A r \in fib \ removed : r.iface \notin renamed /\ OneWay(r.dst, r.table) /\ Current(r) =>
              /\ index'[r.iface] = index[r.iface]
              /\ \A k \in live : Backs(k, r) =>
                    k \in live' /\ sess'[k].autowired /\ sess'[k].iface = sess[k].iface
    PROVE  RoutesBacked'
<1> SUFFICES ASSUME NEW r \in fib'
             PROVE  /\ r \in Route
                    /\ \E k \in Keys : Installs(k, r.dst, r.table, r.iface)
                    /\ r.iface \notin renamed /\ OneWay(r.dst, r.table) =>
                          Current(r)' /\ \E k \in live' : Backs(k, r)'
  BY Zenon DEF RoutesBacked, OneWay, Installs
<1>1. CASE r \in fib \ removed
  <2>1. r \in Route /\ \E k \in Keys : Installs(k, r.dst, r.table, r.iface)
    BY Zenon, <1>1 DEF RoutesBacked
  <2>2. ASSUME r.iface \notin renamed, OneWay(r.dst, r.table)
        PROVE  Current(r)' /\ \E k \in live' : Backs(k, r)'
    <3>1. PICK k \in live : Current(r) /\ Backs(k, r)
      BY Zenon, <1>1, <2>2 DEF RoutesBacked
    <3>2. index'[r.iface] = index[r.iface] /\ k \in live' /\ sess'[k].autowired /\ sess'[k].iface = sess[k].iface
      BY Zenon, <1>1, <2>2, <3>1
    <3>3. Current(r)'
      BY Zenon, <3>1, <3>2 DEF Current, Carries
    <3>4. Backs(k, r)'
      BY Zenon, <3>1, <3>2 DEF Backs
    <3> QED BY Zenon, <3>2, <3>3, <3>4
  <2> QED BY Zenon, <2>1, <2>2
<1>2. CASE r \in Added
  <2>1. PICK m \in Asked("ADDROUTE") :
           /\ r = RouteOf(m.key, m.iface)
           /\ Carries(m.iface) /\ link[m.iface].index = index'[m.iface]
    BY Zenon, <1>2 DEF Added
  <2>2. r = [dst |-> m.key[2], table |-> RuleOf[m.key].table, iface |-> m.iface, index |-> index'[m.iface]]
    BY Zenon, <2>1 DEF RouteOf
  <2>3. m.iface \in Ifaces /\ m.key \in live' /\ sess'[m.key].autowired /\ sess'[m.key].iface = m.iface
    BY Zenon, <2>1 DEF AsksForBelieved
  <2>4. m.key \in Keys /\ RuleOf[m.key] # None
    BY Zenon, <2>3 DEF IInv, StateInv, TypeOK, SessionsOK
  <2>5. RuleOf[m.key].autowire /\ RuleOf[m.key].iface = m.iface
    BY Zenon, <2>3, <2>4, ConfigAssumption, NoneAssumption DEF RulesFollowed, Follows
  <2>6. r \in Route
    <3>1. m.key[2] \in Addrs /\ RuleOf[m.key].table \in Tables
      BY Zenon, <2>4 DEF Keys, Tables
    <3>2. index'[m.iface] \in Nat
      BY Zenon, <2>3 DEF KernelTypes
    <3> QED BY Zenon, <2>2, <2>3, <3>1, <3>2 DEF Route
  <2>7. Installs(m.key, r.dst, r.table, r.iface)
    BY Zenon, <2>2, <2>4, <2>5 DEF Installs
  <2>8. Current(r)'
    BY <2>1, <2>2 DEF Current, Carries
  <2>9. Backs(m.key, r)'
    BY Zenon, <2>2, <2>3 DEF Backs
  <2> QED BY Zenon, <2>3, <2>4, <2>6, <2>7, <2>8, <2>9
<1> QED BY Zenon, <1>1, <1>2

\* A session that believes in a route did so before, on the same interface, or asks for it
\* now, on an interface that is up; only sessions that leave the table have a route removed.
AsksOnly ==
    /\ \A k \in live' : sess'[k].autowired =>
          \/ k \in live /\ sess[k].autowired /\ sess'[k].iface = sess[k].iface
          \/ AddRoute(k, sess'[k].iface) \in sent' /\ up'[sess'[k].iface]
    /\ \A m \in Asked("DELROUTE") : m.key \notin live'

\* A route in doubt stays so, or is looked after in this step.
LEMMA HadStep ==
    ASSUME RoutesHad, AsksOnly, NEW more, Effects(more), link' = link,
           \A k \in live \cap live' : sess[k].autowired /\ sess'[k].autowired /\ sess'[k].iface = sess[k].iface =>
              \/ AddRoute(k, sess[k].iface) \in sent' /\ up'[sess[k].iface]
              \/ /\ up'[sess[k].iface] /\ index'[sess[k].iface] = index[sess[k].iface]
                 /\ sess[k].iface \in flushed => sess[k].iface \in flushed' \/ k \in more
    PROVE  RoutesHad'
<1> SUFFICES ASSUME NEW k \in live', sess'[k].autowired
             PROVE  /\ up'[sess'[k].iface]
                    /\ \/ k \in missed' \/ Routed(k)' \/ sess'[k].iface \in flushed'
                       \/ link'[sess'[k].iface].index # index'[sess'[k].iface]
  BY Zenon DEF RoutesHad, Doubtful
<1> DEFINE i == sess'[k].iface
<1>1. missed' = {j \in missed \cup MissOut \cup more : j \in live' /\ sess'[j].autowired /\ ~Routed(j)'}
  BY Zenon DEF Effects
<1>2. k \in missed \cup MissOut \cup more => k \in missed' \/ Routed(k)'
  BY Zenon, <1>1
<1>3. PICK removed \in Removals : fib' = (fib \ removed) \cup Added
  BY Zenon DEF Effects
<1>4. CASE AddRoute(k, i) \in sent' /\ up'[i]
  <2> DEFINE m == AddRoute(k, i)
  <2>1. m \in Asked("ADDROUTE") /\ m.key = k /\ m.iface = i
    BY Zenon, <1>4 DEF AddRoute, Asked
  <2> HIDE DEF m
  <2>2. CASE ~Carries(i)
    <3>1. k \in MissOut
      BY Zenon, <2>1, <2>2 DEF MissOut
    <3> QED BY Zenon, <1>2, <1>4, <3>1
  <2>3. CASE Carries(i) /\ link[i].index = index'[i]
    <3>1. RouteOf(k, i) \in fib'
      BY <1>3, <2>1, <2>3 DEF Added
    <3>2. Routed(k)'
      BY Zenon, <3>1 DEF Routed, RouteOf
    <3> QED BY Zenon, <1>4, <3>2
  <2>4. CASE link[i].index # index'[i]
    BY Zenon, <1>4, <2>4
  <2> QED BY Zenon, <2>2, <2>3, <2>4
<1>5. CASE ~(AddRoute(k, i) \in sent' /\ up'[i])
  <2>1. k \in live /\ sess[k].autowired /\ sess[k].iface = i
    BY Zenon, <1>5 DEF AsksOnly
  <2>2. up'[i] /\ index'[i] = index[i] /\ (i \in flushed => i \in flushed' \/ k \in more)
    BY <1>5, <2>1
  <2>3. k \in missed \/ Routed(k) \/ Doubtful(i)
    BY Zenon, <2>1 DEF RoutesHad
  <2>4. CASE Doubtful(i)
    BY Zenon, <1>2, <2>2, <2>4 DEF Doubtful
  <2>5. CASE Routed(k)
    <3>1. PICK r \in fib : r.dst = k[2] /\ r.table = RuleOf[k].table /\ r.iface = i /\ r.index = index[i]
      BY Zenon, <2>1, <2>5 DEF Routed
    <3>2. CASE r \notin removed
      <4>1. r \in fib'
        BY Zenon, <1>3, <3>2
      <4> QED BY Zenon, <2>2, <3>1, <4>1 DEF Routed
    <3>3. CASE r \in removed
      <4>1. r \in Matching
        BY Zenon, <1>3, <3>3 DEF Removals
      <4>2. PICK m \in Asked("DELROUTE") : r.dst = m.key[2]
        BY Zenon, <4>1 DEF Matching
      <4>3. k \in Others(m.key)
        <5>1. m.key \notin live'
          BY Zenon, <4>2 DEF AsksOnly
        <5> QED BY Zenon, <3>1, <4>2, <5>1 DEF Others
      <4>4. k \in MissOut
        BY Zenon, <4>2, <4>3 DEF MissOut
      <4> QED BY Zenon, <1>2, <2>2, <4>4
    <3> QED BY Zenon, <3>2, <3>3
  <2> QED BY Zenon, <1>2, <2>2, <2>3, <2>4, <2>5
<1> QED BY Zenon, <1>4, <1>5

\* A session that believes in a route is on the interface of a rule.
LEMMA WiredBased ==
    ASSUME TypeOK, SessionsOK, RulesFollowed, NEW k \in live, sess[k].autowired
    PROVE  sess[k].iface \in Ifaces /\ BaseRefs[sess[k].iface] > 0
<1>1. k \in Keys /\ sess[k] \in SessionRec /\ sess[k].iface # None /\ RuleOf[k] # None
  BY Zenon DEF TypeOK, SessionsOK, SessionOK
<1>2. RuleOf[k].autowire /\ (RuleOf[k].mode = "IFACE" => sess[k].iface \in {None, RuleOf[k].iface})
  BY Zenon DEF RulesFollowed, Follows
<1>3. sess[k].iface = RuleOf[k].iface
  BY Zenon, <1>1, <1>2, ConfigAssumption
<1> QED BY Zenon, <1>1, <1>3, ConfigAssumption DEF SessionRec

\* The interfaces of the configuration stay as they are.
UpSame == \A i \in Ifaces : BaseRefs[i] > 0 => up'[i] = up[i]

\* Only an interface that nothing refers to comes up by being opened.
LEMMA CommitUp ==
    ASSUME IInv, NEW k, NEW o, Commit(k, o)
    PROVE  UpSame
<1> SUFFICES ASSUME NEW i \in Ifaces, BaseRefs[i] > 0 PROVE up'[i] = up[i]
  BY Zenon DEF UpSame
<1>1. refs[i] = BaseRefs[i] + Cardinality(SessionsOn(i)) /\ BaseRefs[i] \in Nat /\ Cardinality(SessionsOn(i)) \in Nat
  BY Zenon, LiveFinite, FS_CardinalityType, ConfigAssumption DEF IInv, StateInv, RefsExact
<1>2. refs[i] # 0
  BY <1>1
<1>3. up[i] \in BOOLEAN
  BY Zenon DEF IInv, StateInv, TypeOK
<1>4. up'[i] = IF i = o.open THEN up[i] \/ refs[i] = 0 ELSE up[i]
  BY Zenon DEF Commit, UpOnceOpen
<1> QED BY Zenon, <1>2, <1>3, <1>4

\* Only an interface that no rule and no proxy refers to goes with its last session.
LEMMA DeleteUp ==
    ASSUME IInv, NEW k \in live, DeleteSession(k)
    PROVE  UpSame
<1> SUFFICES ASSUME NEW i \in Ifaces, BaseRefs[i] > 0 PROVE up'[i] = up[i]
  BY Zenon DEF UpSame
<1>1. refs[i] = BaseRefs[i] + Cardinality(SessionsOn(i)) /\ BaseRefs[i] \in Nat /\ Cardinality(SessionsOn(i)) \in Nat
  BY Zenon, LiveFinite, FS_CardinalityType, ConfigAssumption DEF IInv, StateInv, RefsExact
<1>2. i = sess[k].iface => Cardinality(SessionsOn(i)) # 0
  <2>1. i = sess[k].iface => k \in SessionsOn(i)
    BY Zenon DEF SessionsOn
  <2> QED BY Zenon, <2>1, LiveFinite, FS_EmptySet DEF IInv, StateInv
<1>3. ~(i = sess[k].iface /\ refs[i] = 1)
  BY <1>1, <1>2
<1>4. up'[i] = IF i = sess[k].iface /\ sess[k].iface # None /\ refs[sess[k].iface] = 1 THEN FALSE ELSE up[i]
  BY Zenon DEF DeleteSession
<1> QED BY Zenon, <1>3, <1>4

\* The packet handlers and the timers leave no route missing that is not known to be missed.
LEMMA QuietHad ==
    ASSUME WInv, AsksOnly, UpSame, NoPass, Effects({})
    PROVE  Indexed' /\ RoutesHad'
<1>1. link' = link /\ last' = last /\ index' = index /\ flushed' = flushed
  BY Zenon DEF NoPass
<1>2. Indexed'
  BY Zenon, <1>1 DEF WInv, Indexed, UpSame
<1>3. ASSUME NEW k \in live, sess[k].autowired PROVE up'[sess[k].iface]
  <2>1. sess[k].iface \in Ifaces /\ BaseRefs[sess[k].iface] > 0 /\ up[sess[k].iface]
    BY Zenon, <1>3, WiredBased DEF WInv, IInv, StateInv, RoutesHad
  <2> QED BY Zenon, <2>1 DEF UpSame
<1>4. RoutesHad'
  BY Zenon, <1>1, <1>3, HadStep DEF WInv
<1> QED BY Zenon, <1>2, <1>4

\* No session goes, and none that believes in a route forgets it or changes its interface.
Believes ==
    \A k \in live : k \in live' /\ (sess[k].autowired => sess'[k].autowired /\ sess'[k].iface = sess[k].iface)

\* The packet handlers and the timers, which leave the interfaces alone.
LEMMA QuietStep ==
    ASSUME RoutesBacked, KernelTypes, IInv', RulesFollowed', AsksForBelieved, Believes, NoPass,
           NEW more, Effects(more)
    PROVE  RoutesBacked'
<1>1. link' = link /\ renamed' = renamed /\ index' = index /\ KernelTypes'
  BY Zenon DEF NoPass, KernelTypes
<1>2. PICK removed \in Removals : fib' = (fib \ removed) \cup Added
  BY Zenon DEF Effects
<1>3. ASSUME NEW r \in fib \ removed, NEW k \in live, Backs(k, r)
      PROVE  k \in live' /\ sess'[k].autowired /\ sess'[k].iface = sess[k].iface
  BY Zenon, <1>3 DEF Believes, Backs
<1> QED BY Zenon, <1>1, <1>2, <1>3, RoutesStep

----------------------------------------------------------------------------
(* What the operations on one session do to its route.                     *)

\* A probe or an answer is no request for a route.
LEMMA PacketsOnly ==
    ASSUME NEW k
    PROVE  /\ \A i, bound : \A m \in nd_iface_send_ns(i, k, bound) : m.type \notin {"ADDROUTE", "DELROUTE"}
           /\ \A hs : \A m \in nd_iface_send_na(hs, k) : m.type \notin {"ADDROUTE", "DELROUTE"}
BY DEF nd_iface_send_ns, Ns, nd_iface_send_na, Na

\* An operation that has nothing to do with the route of the session.
Unwired(k, s, o) ==
    /\ o.sess.autowired = s.autowired
    /\ o.sess.iface = s.iface \/ (s.iface = None /\ RuleOf[k].mode = "AUTO")
    /\ \A m \in o.sent : m.type \notin {"ADDROUTE", "DELROUTE"}

\* nd_session_handle_ns, if the interface is set, leaves it as it is.
LEMMA HandleNsUnwired ==
    ASSUME NEW k, NEW s \in SessionRec, NEW h, NEW opens
    PROVE  Unwired(k, s, nd_session_handle_ns(k, s, h, opens))
<1> DEFINE o == nd_session_handle_ns(k, s, h, opens)
           asked == [s EXCEPT !.ins_age = 0]
           queued == [asked EXCEPT !.subs = @ \cup {h}]
           again == [queued EXCEPT !.ons_count = IF @ = 0 THEN 1 ELSE @, !.ons_age = 0]
<1>1. /\ asked.autowired = s.autowired /\ asked.iface = s.iface
      /\ queued.autowired = s.autowired /\ queued.iface = s.iface
      /\ again.autowired = s.autowired /\ again.iface = s.iface
  BY Zenon DEF SessionRec
<1>2. \A i : [queued EXCEPT !.state = "INCOMPLETE", !.iface = i, !.state_age = 0,
                            !.ons_count = 1, !.ons_age = 0].autowired = s.autowired
  BY Zenon DEF SessionRec
<1> HIDE DEF asked, queued, again, o
<1>3. \/ o = Outcome(asked, nd_iface_send_na({h}, k), None)
      \/ o = Outcome(asked, {}, None)
      \/ s.iface = None /\ RuleOf[k].mode = "AUTO" /\ o = StartProbing(k, queued, AutoIface(k, opens))
      \/ o = Outcome(again, nd_iface_send_ns(s.iface, k, up[s.iface]), None)
      \/ o = Outcome(queued, {}, None)
  BY Zenon DEF nd_session_handle_ns, asked, queued, again, o
<1>4. /\ o.sess.autowired = s.autowired
      /\ o.sess.iface = s.iface \/ (s.iface = None /\ RuleOf[k].mode = "AUTO")
  <2>1. CASE s.iface = None /\ RuleOf[k].mode = "AUTO" /\ o = StartProbing(k, queued, AutoIface(k, opens))
    <3>1. o.sess = [queued EXCEPT !.state = "INCOMPLETE", !.iface = AutoIface(k, opens), !.state_age = 0,
                                  !.ons_count = 1, !.ons_age = 0]
      BY Zenon, <2>1 DEF Outcome, StartProbing
    <3> QED BY Zenon, <1>2, <2>1, <3>1
  <2>2. CASE ~(s.iface = None /\ RuleOf[k].mode = "AUTO" /\ o = StartProbing(k, queued, AutoIface(k, opens)))
    <3>1. o.sess \in {asked, again, queued}
      BY <1>3, <2>2 DEF Outcome
    <3> QED BY Zenon, <1>1, <3>1
  <2> QED BY Zenon, <2>1, <2>2
<1>5. \A m \in o.sent : m.type \notin {"ADDROUTE", "DELROUTE"}
  BY <1>3, PacketsOnly DEF Outcome, StartProbing
<1> QED BY Zenon, <1>4, <1>5 DEF Unwired, o

\* nd_session_handle_na asks for the route of the session, which from then on believes in it.
LEMMA HandleNaWires ==
    ASSUME NEW k, NEW s \in SessionRec, NEW o, o = nd_session_handle_na(k, s)
    PROVE  /\ s.autowired => o.sess.autowired
           /\ o.sess.autowired => s.autowired \/ RuleOf[k].autowire
           /\ o.sess.iface = s.iface
           /\ \A m \in o.sent : m.type = "ADDROUTE" => m.key = k /\ m.iface = s.iface /\ o.sess.autowired
           /\ \A m \in o.sent : m.type # "DELROUTE"
           /\ o.sess.autowired => s.autowired \/ (AddRoute(k, s.iface) \in o.sent /\ up[s.iface])
<1>1. CASE s.state = "VALID"
  BY Zenon, <1>1 DEF nd_session_handle_na, Outcome, SessionRec
<1>2. CASE s.state # "VALID"
  <2> DEFINE wires == Wires(k, s, up[s.iface])
  <2>1. /\ o.sess = [s EXCEPT !.subs = {}, !.state = "VALID", !.state_age = 0, !.autowired = @ \/ wires]
        /\ o.sent = nd_iface_send_na(s.subs, k) \cup (IF wires THEN {AddRoute(k, s.iface)} ELSE {})
    BY Zenon, <1>2 DEF nd_session_handle_na, Outcome
  <2> HIDE DEF wires
  <2>2. o.sess.autowired = (s.autowired \/ wires) /\ o.sess.iface = s.iface
    BY Zenon, <2>1 DEF SessionRec
  <2>3. \A m \in o.sent : m.type = "ADDROUTE" => wires /\ m = AddRoute(k, s.iface)
    BY Zenon, <2>1, PacketsOnly
  <2>4. AddRoute(k, s.iface).key = k /\ AddRoute(k, s.iface).iface = s.iface
    BY Zenon DEF AddRoute
  <2>5. wires => RuleOf[k].autowire /\ up[s.iface]
    BY Zenon DEF wires, Wires
  <2>6. \A m \in o.sent : m.type # "DELROUTE"
    BY <2>1, PacketsOnly DEF AddRoute
  <2>7. wires => AddRoute(k, s.iface) \in o.sent
    BY Zenon, <2>1
  <2> QED BY Zenon, <2>2, <2>3, <2>4, <2>5, <2>6, <2>7
<1> QED BY Zenon, <1>1, <1>2

\* nd_session_create takes the interface of the rule, or none, and no route.
LEMMA CreateFollows ==
    ASSUME NEW k, NEW opens
    PROVE  LET s == nd_session_create(k, opens).sess
           IN  ~s.autowired /\ (RuleOf[k].mode = "IFACE" => s.iface \in {None, RuleOf[k].iface})
BY Zenon DEF nd_session_create, Outcome, StartProbing, Blank

\* nd_session_update, on a session that it keeps.
LEMMA UpdateUnwired ==
    ASSUME NEW k, NEW s \in SessionRec, NEW o,
           \/ o = UpdateIncomplete(k, s)
           \/ o = UpdateValid(k, s)
           \/ o = UpdateStale(k, s)
           \/ o = Outcome(s, {}, None)
    PROVE  Unwired(k, s, o)
<1>1. ASSUME NEW state PROVE Enter(s, state).autowired = s.autowired /\ Enter(s, state).iface = s.iface
  BY Zenon DEF Enter, SessionRec
<1>2. CASE o = UpdateIncomplete(k, s)
  <2>1. /\ [s EXCEPT !.ons_age = 0].autowired = s.autowired /\ [s EXCEPT !.ons_age = 0].iface = s.iface
        /\ [s EXCEPT !.ons_count = @ + 1].autowired = s.autowired /\ [s EXCEPT !.ons_count = @ + 1].iface = s.iface
        /\ Enter([s EXCEPT !.ons_count = @ + 1], "INVALID").autowired = s.autowired
        /\ Enter([s EXCEPT !.ons_count = @ + 1], "INVALID").iface = s.iface
    BY Zenon DEF Enter, SessionRec
  <2> QED BY Zenon, <1>1, <1>2, <2>1, PacketsOnly DEF UpdateIncomplete, Unwired, Outcome
<1>3. CASE o = UpdateValid(k, s)
  <2>1. \A n : LET t == [Enter(s, "STALE") EXCEPT !.ons_age = 0, !.ons_count = n]
               IN  t.autowired = s.autowired /\ t.iface = s.iface
    BY Zenon DEF Enter, SessionRec
  <2> QED BY Zenon, <1>1, <1>3, <2>1, PacketsOnly DEF UpdateValid, Unwired, Outcome
<1>4. CASE o = UpdateStale(k, s)
  <2>1. LET t == [s EXCEPT !.ons_count = @ + 1, !.ons_age = 0] IN t.autowired = s.autowired /\ t.iface = s.iface
    BY Zenon DEF SessionRec
  <2> QED BY Zenon, <1>1, <1>4, <2>1, PacketsOnly DEF UpdateStale, Unwired, Outcome
<1>5. CASE o = Outcome(s, {}, None)
  BY Zenon, <1>5 DEF Unwired, Outcome
<1> QED BY Zenon, <1>2, <1>3, <1>4, <1>5

----------------------------------------------------------------------------
(* The steps of the daemon.                                                *)

\* A step that changes the session k only, and leaves it following its rule.
LEMMA RulesStep ==
    ASSUME TypeOK, RulesFollowed, NEW k \in Keys, NEW s, sess' = [sess EXCEPT ![k] = s], live' \subseteq live \cup {k},
           k \in live' => Follows(k, s)
    PROVE  RulesFollowed'
BY Zenon DEF RulesFollowed, Follows, TypeOK

\* A solicitation installs no route, and makes no session forget one.
LEMMA NsBacked ==
    ASSUME WInv, NEW p \in Proxies, NEW tgt \in Addrs, NEW h \in Hosts \cup {None}, HandleNs(p, tgt, h), IInv'
    PROVE  RulesFollowed' /\ RoutesBacked' /\ Indexed' /\ RoutesHad'
<1> DEFINE k == <<p, tgt>>
<1>1. TypeOK /\ SessionsOK /\ RulesFollowed /\ k \in Keys
  BY Zenon DEF WInv, IInv, StateInv, Keys
<1>2. nd_proxy_handle_ns(p, tgt, h) /\ NoPass /\ Effects({})
  BY Zenon DEF HandleNs
<1>3. /\ Believes /\ RulesFollowed' /\ UpSame
      /\ \A m \in sent' : m.type \notin {"ADDROUTE", "DELROUTE"}
      /\ \A j \in live' : sess'[j].autowired => j \in live /\ sess[j].autowired /\ sess'[j].iface = sess[j].iface
  <2>1. CASE NsExisting(k, h)
    <3>1. PICK opens \in BOOLEAN : Commit(k, nd_session_handle_ns(k, sess[k], h, opens))
      BY Zenon, <2>1 DEF NsExisting
    <3> DEFINE o == nd_session_handle_ns(k, sess[k], h, opens)
    <3>2. sess' = [sess EXCEPT ![k] = o.sess] /\ sent' = o.sent /\ live' = live
      BY Zenon, <2>1, <3>1 DEF Commit, NsExisting
    <3>3. Unwired(k, sess[k], o)
      BY Zenon, <1>1, HandleNsUnwired DEF TypeOK
    <3>4. k \in live /\ (sess[k].autowired => sess[k].iface # None)
      BY Zenon, <1>1, <2>1 DEF NsExisting, SessionsOK, SessionOK
    <3> HIDE DEF o, k
    <3>5. RulesFollowed'
      <4>1. Follows(k, o.sess)
        BY Zenon, <1>1, <3>3, <3>4 DEF RulesFollowed, Follows, Unwired
      <4> QED BY Zenon, <1>1, <3>2, <4>1, RulesStep
    <3>6. UpSame
      BY Zenon, <3>1, CommitUp DEF WInv
    <3> QED BY Zenon, <1>1, <3>2, <3>3, <3>4, <3>5, <3>6 DEF Believes, Unwired, TypeOK
  <2>2. CASE NsNew(k, h)
    <3>1. PICK first \in BOOLEAN, second \in BOOLEAN :
             LET c == nd_session_create(k, first)
                 o == nd_session_handle_ns(k, c.sess, h, second)
             IN  Commit(k, Outcome(o.sess, c.sent \cup o.sent, IF c.open # None THEN c.open ELSE o.open))
      BY Zenon, <2>2 DEF NsNew
    <3> DEFINE c == nd_session_create(k, first)
               o == nd_session_handle_ns(k, c.sess, h, second)
    <3>2. Commit(k, Outcome(o.sess, c.sent \cup o.sent, IF c.open # None THEN c.open ELSE o.open))
      BY Zenon, <3>1
    <3>3. k \notin live /\ RuleOf[k] # None /\ live' = live \cup {k}
      BY Zenon, <2>2 DEF NsNew, Link
    <3>4. c.sess \in SessionRec /\ \A m \in c.sent : m.type = "NS"
      <4>1. OutcomeOK(k, Blank, c) /\ \A m \in c.sent : m.type = "NS"
        BY Zenon, <1>1, <3>1, <3>3, CreateOK
      <4> QED BY Zenon, <4>1 DEF OutcomeOK, SessionOK
    <3>5. Unwired(k, c.sess, o)
      BY Zenon, <3>4, HandleNsUnwired
    <3>6. ~c.sess.autowired /\ (RuleOf[k].mode = "IFACE" => c.sess.iface \in {None, RuleOf[k].iface})
      BY Zenon, CreateFollows
    <3> HIDE DEF c, o, k
    <3>7. sess' = [sess EXCEPT ![k] = o.sess] /\ sent' = c.sent \cup o.sent
      BY Zenon, <3>2 DEF Commit, Outcome
    <3>8. RulesFollowed'
      BY Zenon, <1>1, <3>3, <3>5, <3>6, <3>7, RulesStep DEF Unwired, Follows
    <3>9. UpSame
      BY Zenon, <3>2, CommitUp DEF WInv
    <3>10. ~o.sess.autowired
      BY Zenon, <3>5, <3>6 DEF Unwired
    <3>11. Believes /\ \A m \in sent' : m.type \notin {"ADDROUTE", "DELROUTE"}
      BY Zenon, <1>1, <3>3, <3>4, <3>5, <3>7 DEF Believes, Unwired, TypeOK
    <3>12. \A j \in live' : sess'[j].autowired => j \in live /\ sess[j].autowired /\ sess'[j].iface = sess[j].iface
      BY Zenon, <1>1, <3>3, <3>7, <3>10 DEF TypeOK
    <3> QED BY Zenon, <3>8, <3>9, <3>11, <3>12
  <2>3. CASE NsDropped(k)
    BY Zenon, <1>1, <2>3 DEF NsDropped, Believes, RulesFollowed, UpSame
  <2> QED BY Zenon, <1>2, <2>1, <2>2, <2>3 DEF nd_proxy_handle_ns
<1>4. AsksForBelieved /\ AsksOnly
  BY Zenon, <1>3 DEF Asked, AsksForBelieved, AsksOnly
<1>5. Indexed' /\ RoutesHad'
  BY Zenon, <1>2, <1>3, <1>4, QuietHad
<1> QED BY Zenon, <1>2, <1>3, <1>4, <1>5, QuietStep DEF WInv

\* An advertisement installs the route of the session it is given to.
LEMMA NaBacked ==
    ASSUME WInv, NEW i \in Ifaces, NEW a \in Addrs, HandleNa(i, a), IInv'
    PROVE  RulesFollowed' /\ RoutesBacked' /\ Indexed' /\ RoutesHad'
<1>1. TypeOK /\ RulesFollowed
  BY Zenon DEF WInv, IInv, StateInv
<1>2. ndL_handle_na(i, a) /\ NoPass /\ Effects({})
  BY Zenon DEF HandleNa
<1>3. Believes /\ RulesFollowed' /\ AsksForBelieved /\ AsksOnly /\ UpSame
  <2>1. live' = live
    BY Zenon, <1>2 DEF ndL_handle_na
  <2>2. CASE sent' = {} /\ sess' = sess /\ up' = up
    BY Zenon, <1>1, <2>1, <2>2 DEF Believes, RulesFollowed, Asked, AsksForBelieved, AsksOnly, UpSame
  <2>3. CASE \E j \in nd_session_find_r(i, a) : Commit(j, nd_session_handle_na(j, sess[j]))
    <3>1. PICK k, o : k \in nd_session_find_r(i, a) /\ o = nd_session_handle_na(k, sess[k]) /\ Commit(k, o)
      BY Zenon, <2>3
    <3>2. k \in live /\ k \in Keys /\ sess[k] \in SessionRec /\ sess[k].iface = i
      BY Zenon, <1>1, <3>1 DEF nd_session_find_r, Candidates, TypeOK
    <3>3. sess' = [sess EXCEPT ![k] = o.sess] /\ sent' = o.sent
      BY Zenon, <3>1 DEF Commit
    <3>4. /\ sess[k].autowired => o.sess.autowired
          /\ o.sess.autowired => sess[k].autowired \/ RuleOf[k].autowire
          /\ o.sess.iface = sess[k].iface
          /\ \A m \in o.sent : m.type = "ADDROUTE" => m.key = k /\ m.iface = sess[k].iface /\ o.sess.autowired
          /\ \A m \in o.sent : m.type # "DELROUTE"
          /\ o.sess.autowired => sess[k].autowired \/ (AddRoute(k, sess[k].iface) \in o.sent /\ up[sess[k].iface])
      BY <3>1, <3>2, HandleNaWires
    <3>5. RulesFollowed'
      <4>1. Follows(k, o.sess)
        BY Zenon, <1>1, <3>2, <3>4 DEF RulesFollowed, Follows
      <4> QED BY Zenon, <1>1, <2>1, <3>2, <3>3, <4>1, RulesStep
    <3>6. UpSame
      BY Zenon, <3>1, CommitUp DEF WInv
    <3>7. AsksOnly
      <4>1. up[i] => up'[i]
        BY Zenon, <3>1 DEF Commit, UpOnceOpen
      <4>2. \A j \in live \ {k} : sess'[j] = sess[j]
        BY Zenon, <1>1, <3>3 DEF TypeOK
      <4>3. sess'[k] = o.sess
        BY Zenon, <1>1, <3>2, <3>3 DEF TypeOK
      <4> QED BY Zenon, <2>1, <3>2, <3>3, <3>4, <4>1, <4>2, <4>3 DEF AsksOnly, Asked
    <3>8. Believes /\ AsksForBelieved
      BY Zenon, <1>1, <2>1, <3>2, <3>3, <3>4 DEF Believes, Asked, AsksForBelieved, TypeOK
    <3> QED BY Zenon, <3>5, <3>6, <3>7, <3>8
  <2> QED BY Zenon, <1>2, <2>2, <2>3 DEF ndL_handle_na
<1>4. Indexed' /\ RoutesHad'
  BY Zenon, <1>2, <1>3, QuietHad
<1> QED BY Zenon, <1>2, <1>3, <1>4, QuietStep DEF WInv

\* The passing of time.
LEMMA RoundBacked ==
    ASSUME WInv, NEW d \in Steps, Round(d), IInv'
    PROVE  RulesFollowed' /\ RoutesBacked' /\ Indexed' /\ RoutesHad'
<1>1. TypeOK /\ RulesFollowed
  BY Zenon DEF WInv, IInv, StateInv
<1>2. MainLoop(d) /\ NoPass /\ Effects({})
  BY Zenon DEF Round
<1>3. AsksForBelieved
  BY Zenon, <1>2 DEF MainLoop, Asked, AsksForBelieved
<1>4. ASSUME NEW k \in live
      PROVE  k \in live' /\ sess'[k].autowired = sess[k].autowired /\ sess'[k].iface = sess[k].iface
  <2>1. live' = live /\ k \in Keys /\ sess[k] \in SessionRec
    BY Zenon, <1>1, <1>2 DEF MainLoop, TypeOK
  <2>2. sess'[k] = Older(sess[k], d)
    BY Zenon, <1>2, <2>1 DEF MainLoop
  <2> QED BY Zenon, <2>1, <2>2 DEF Older, SessionRec
<1>5. Believes /\ RulesFollowed' /\ AsksOnly /\ UpSame
  <2>1. live' = live /\ up' = up /\ sent' = {}
    BY Zenon, <1>2 DEF MainLoop
  <2> QED BY Zenon, <1>1, <1>4, <2>1 DEF Believes, RulesFollowed, Follows, AsksOnly, UpSame, Asked
<1>6. Indexed' /\ RoutesHad'
  BY Zenon, <1>2, <1>5, QuietHad
<1> QED BY Zenon, <1>2, <1>3, <1>5, <1>6, QuietStep DEF WInv

\* A session that expires takes its route along; one that stays keeps it.
LEMMA UpdateBacked ==
    ASSUME WInv, NEW k \in Keys, Update(k), IInv'
    PROVE  RulesFollowed' /\ RoutesBacked' /\ Indexed' /\ RoutesHad'
<1>1. TypeOK /\ SessionsOK /\ RulesFollowed /\ RoutesBacked /\ sess[k] \in SessionRec
  BY Zenon DEF WInv, IInv, StateInv, TypeOK
<1>2. nd_session_update(k) /\ NoPass /\ Effects({}) /\ k \in live
  BY Zenon, <1>1 DEF Update, nd_session_update, TypeOK
<1>3. CASE DeleteSession(k)
  <2>1. /\ sess' = [sess EXCEPT ![k] = Blank] /\ live' = live \ {k}
        /\ sent' = IF sess[k].iface # None /\ sess[k].autowired THEN {DelRoute(k)} ELSE {}
    BY Zenon, <1>3 DEF DeleteSession, ndL_down
  <2>2. DelRoute(k).type = "DELROUTE" /\ DelRoute(k).key = k
    BY Zenon DEF DelRoute
  <2>3. AsksForBelieved
    BY Zenon, <2>1, <2>2 DEF Asked, AsksForBelieved
  <2>4. PICK removed \in Removals : fib' = (fib \ removed) \cup Added
    BY Zenon, <1>2 DEF Effects
  <2>5. ASSUME NEW r \in fib \ removed, r.iface \notin renamed, OneWay(r.dst, r.table), Backs(k, r)
        PROVE  FALSE
    <3>1. sess[k].autowired /\ sess[k].iface # None
      BY Zenon, <1>1, <1>2, <2>5 DEF Backs, SessionsOK, SessionOK
    <3>2. Asked("DELROUTE") = {DelRoute(k)}
      BY Zenon, <2>1, <2>2, <3>1 DEF Asked
    <3>3. Matching = {x \in fib : x.dst = r.dst /\ x.table = r.table}
      BY Zenon, <2>2, <2>5, <3>2 DEF Matching, Backs
    <3>4. PICK x \in fib : removed = {x} /\ x.dst = r.dst /\ x.table = r.table
      BY Zenon, <2>4, <2>5, <3>3 DEF Removals
    <3>5. PICK i, j \in Keys : Installs(i, r.dst, r.table, r.iface) /\ Installs(j, r.dst, r.table, x.iface)
      BY Zenon, <1>1, <2>5, <3>4 DEF RoutesBacked
    <3>6. x.iface = r.iface
      BY Zenon, <2>5, <3>5 DEF OneWay, Installs
    <3>7. x.index = r.index
      BY Zenon, <1>1, <2>5, <3>4, <3>6 DEF RoutesBacked, Current
    <3>8. r \in Route /\ x \in Route
      BY Zenon, <1>1, <2>5 DEF RoutesBacked
    <3>9. r = x
      BY <3>4, <3>6, <3>7, <3>8 DEF Route
    <3> QED BY Zenon, <2>5, <3>4, <3>9
  <2>6. ASSUME NEW r \in fib \ removed, r.iface \notin renamed, OneWay(r.dst, r.table),
               NEW j \in live, Backs(j, r)
        PROVE  j \in live' /\ sess'[j].autowired /\ sess'[j].iface = sess[j].iface
    <3>1. j # k
      BY Zenon, <2>5, <2>6
    <3> QED BY Zenon, <1>1, <2>1, <2>6, <3>1 DEF Backs, TypeOK
  <2>7. link' = link /\ renamed' = renamed /\ index' = index /\ KernelTypes'
    BY Zenon, <1>2 DEF NoPass, WInv, KernelTypes
  <2>8. RulesFollowed'
    BY Zenon, <1>1, <2>1, RulesStep
  <2>9. AsksOnly
    <3>1. \A m \in sent' : m = DelRoute(k)
      BY Zenon, <2>1
    <3>2. \A j \in live' : j \in live /\ sess'[j] = sess[j]
      BY Zenon, <1>1, <2>1 DEF TypeOK
    <3> QED BY Zenon, <2>1, <2>2, <3>1, <3>2 DEF AsksOnly, Asked
  <2>10. Indexed' /\ RoutesHad'
    BY Zenon, <1>2, <1>3, <2>9, DeleteUp, QuietHad DEF WInv
  <2>11. RoutesBacked'
    BY Zenon, <1>1, <2>3, <2>4, <2>6, <2>7, <2>8, RoutesStep
  <2> QED BY Zenon, <2>8, <2>10, <2>11
<1>4. CASE KeepSession(k)
  <2>1. PICK o : /\ Commit(k, o)
                 /\ \/ o = UpdateIncomplete(k, sess[k])
                    \/ o = UpdateValid(k, sess[k])
                    \/ o = UpdateStale(k, sess[k])
                    \/ o = Outcome(sess[k], {}, None)
    <3>1. sess[k].state \in {"INCOMPLETE", "VALID", "STALE", "INVALID"}
      BY Zenon, <1>1 DEF SessionRec, States
    <3> QED BY Zenon, <1>4, <3>1 DEF KeepSession
  <2>2. sess' = [sess EXCEPT ![k] = o.sess] /\ sent' = o.sent /\ live' = live
    BY Zenon, <1>4, <2>1 DEF Commit, KeepSession
  <2>3. Unwired(k, sess[k], o)
    BY Zenon, <1>1, <2>1, UpdateUnwired
  <2>4. sess[k].autowired => sess[k].iface # None
    BY Zenon, <1>1, <1>2 DEF SessionsOK, SessionOK
  <2>5. Believes
    BY Zenon, <1>1, <1>2, <2>2, <2>3, <2>4 DEF Believes, Unwired, TypeOK
  <2>6. AsksForBelieved
    BY Zenon, <2>2, <2>3 DEF Asked, AsksForBelieved, Unwired
  <2>7. RulesFollowed'
    <3>1. Follows(k, o.sess)
      BY Zenon, <1>1, <1>2, <2>3, <2>4 DEF RulesFollowed, Follows, Unwired
    <3> QED BY Zenon, <1>1, <2>2, <3>1, RulesStep
  <2>8. AsksOnly
    <3>1. \A j \in live : sess'[j].autowired = sess[j].autowired /\ (sess[j].autowired => sess'[j].iface = sess[j].iface)
      BY Zenon, <1>1, <2>2, <2>3, <2>4 DEF Unwired, TypeOK
    <3> QED BY Zenon, <2>2, <2>3, <3>1 DEF AsksOnly, Asked, Unwired
  <2>9. Indexed' /\ RoutesHad'
    BY Zenon, <1>2, <2>1, <2>8, CommitUp, QuietHad DEF WInv
  <2> QED BY Zenon, <1>2, <2>5, <2>6, <2>7, <2>9, QuietStep DEF WInv
<1> QED BY Zenon, <1>2, <1>3, <1>4 DEF nd_session_update

\* nd_session_iface_changed makes only the sessions of an interface that is down forget.
LEMMA ChangedKeeps ==
    ASSUME NEW t \in [Keys -> SessionRec], NEW i, NEW isup \in BOOLEAN, NEW k \in Keys,
           t[k].autowired, isup \/ t[k].iface # i
    PROVE  LET u == nd_session_iface_changed(t, i, isup)
           IN  u[k].autowired /\ u[k].iface = t[k].iface
<1> DEFINE u == nd_session_iface_changed(t, i, isup)
<1>1. CASE k \in live /\ t[k].iface = i
  <2>1. u[k] = [t[k] EXCEPT !.autowired =
                   isup /\ (t[k].autowired \/ (t[k].state = "VALID" /\ Wires(k, t[k], TRUE)))]
    BY Zenon, <1>1 DEF nd_session_iface_changed
  <2>2. u[k] = [t[k] EXCEPT !.autowired = TRUE]
    BY Zenon, <1>1, <2>1
  <2> HIDE DEF u
  <2> QED BY Zenon, <2>2 DEF SessionRec, u
<1>2. CASE ~(k \in live /\ t[k].iface = i)
  BY Zenon, <1>2 DEF nd_session_iface_changed
<1> QED BY Zenon, <1>1, <1>2

\* nd_session_iface_changed gives routes only to the sessions whose rule says so.
LEMMA ChangedFollows ==
    ASSUME NEW t \in [Keys -> SessionRec], NEW i, NEW isup \in BOOLEAN, NEW k \in Keys, Follows(k, t[k])
    PROVE  Follows(k, nd_session_iface_changed(t, i, isup)[k])
<1> DEFINE wired == isup /\ (t[k].autowired \/ (t[k].state = "VALID" /\ Wires(k, t[k], TRUE)))
           s == nd_session_iface_changed(t, i, isup)[k]
<1>1. s = [t[k] EXCEPT !.autowired = wired] \/ s = t[k]
  BY Zenon DEF nd_session_iface_changed
<1>2. wired => RuleOf[k].autowire
  BY Zenon DEF Follows, Wires
<1> HIDE DEF wired, s
<1>3. Follows(k, s)
  BY Zenon, <1>1, <1>2 DEF Follows, SessionRec
<1> QED BY Zenon, <1>3 DEF s

\* The routes that nd_session_iface_changed asks for are those its sessions now believe in.
LEMMA AddedBelieved ==
    ASSUME NEW old \in [Keys -> SessionRec], live \subseteq Keys, AutowireOnly(old, sess'),
           live' = live, sent' = RoutesAdded(old, sess'), NEW m \in sent'
    PROVE  m.iface \in Ifaces /\ m.key \in live' /\ sess'[m.key].autowired /\ sess'[m.key].iface = m.iface
<1>1. PICK k \in live : ~old[k].autowired /\ sess'[k].autowired /\ m = AddRoute(k, old[k].iface)
  BY Zenon DEF RoutesAdded
<1>2. m.key = k /\ m.iface = old[k].iface
  BY Zenon, <1>1 DEF AddRoute
<1>3. old[k] \in SessionRec /\ sess'[k].iface = old[k].iface /\ old[k].iface # None
  BY Zenon, <1>1 DEF AutowireOnly
<1> QED BY Zenon, <1>1, <1>2, <1>3 DEF SessionRec

\* A pass makes a session forget its route only if the interface is down, gone or replaced,
\* and adds the routes of the sessions that then believe in one.
LEMMA PassSessions ==
    ASSUME WInv, NEW i \in Ifaces, Pass(i)
    PROVE  /\ live' = live
           /\ AsksForBelieved /\ RulesFollowed'
           /\ \A k \in live : sess[k].autowired /\ (sess[k].iface = i => Carries(i) /\ link[i].index = index[i]) =>
                 sess'[k].autowired /\ sess'[k].iface = sess[k].iface
<1>1. /\ sess \in [Keys -> SessionRec] /\ live \subseteq Keys /\ RulesFollowed
      /\ link[i].admin \in BOOLEAN /\ admin_up[i] \in BOOLEAN /\ up[i] \in BOOLEAN
  BY Zenon DEF WInv, IInv, StateInv, TypeOK, KernelTypes
<1>2. CASE Rebind(NoChange(i))
  BY Zenon, <1>1, <1>2 DEF Rebind, NoChange, RulesFollowed, Asked, AsksForBelieved
<1>3. CASE link[i].index = 0 /\ Rebind(IfaceGone(i))
  <2>1. sess' = nd_session_iface_changed(sess, i, FALSE) /\ sent' = {} /\ live' = live
    BY Zenon, <1>3 DEF Rebind, IfaceGone
  <2>2. ASSUME NEW k \in live, sess[k].autowired, sess[k].iface # i
        PROVE  sess'[k].autowired /\ sess'[k].iface = sess[k].iface
    BY Zenon, <1>1, <2>1, <2>2, ChangedKeeps
  <2>3. ASSUME NEW k \in live PROVE Follows(k, sess'[k])
    <3>1. k \in Keys /\ Follows(k, sess[k])
      BY Zenon, <1>1 DEF RulesFollowed
    <3> QED BY Zenon, <1>1, <2>1, <3>1, ChangedFollows
  <2>4. AsksForBelieved /\ RulesFollowed'
    BY Zenon, <2>1, <2>3 DEF RulesFollowed, Follows, Asked, AsksForBelieved
  <2> QED BY Zenon, <1>3, <2>1, <2>2, <2>4 DEF Carries
<1>4. CASE link[i].admin # admin_up[i] /\ Rebind(IfaceAdmin(i))
  <2> DEFINE isup == ~admin_up[i]
  <2>1. /\ sess' = nd_session_iface_changed(sess, i, isup)
        /\ sent' = RoutesAdded(sess, sess') /\ live' = live /\ isup \in BOOLEAN
    BY Zenon, <1>4 DEF Rebind, IfaceAdmin
  <2>2. isup = link[i].admin
    BY Zenon, <1>1, <1>4
  <2> HIDE DEF isup
  <2>3. AutowireOnly(sess, sess')
    BY Zenon, <1>1, <2>1, IfaceChangedOK
  <2>4. ASSUME NEW k \in live, sess[k].autowired, isup \/ sess[k].iface # i
        PROVE  sess'[k].autowired /\ sess'[k].iface = sess[k].iface
    BY Zenon, <1>1, <2>1, <2>4, ChangedKeeps
  <2>5. ASSUME NEW k \in live PROVE Follows(k, sess'[k])
    <3>1. k \in Keys /\ Follows(k, sess[k])
      BY Zenon, <1>1 DEF RulesFollowed
    <3> QED BY Zenon, <1>1, <2>1, <3>1, ChangedFollows
  <2>6. RulesFollowed'
    BY Zenon, <2>1, <2>5 DEF RulesFollowed, Follows
  <2>7. AsksForBelieved
    BY Zenon, <1>1, <2>1, <2>3, AddedBelieved DEF Asked, AsksForBelieved
  <2> QED BY Zenon, <2>1, <2>2, <2>4, <2>6, <2>7 DEF Carries
<1>5. CASE ~SameInterface(i) /\ Rebind(IfaceBound(i, link[i].admin))
  <2> DEFINE lost == IF up[i] THEN nd_session_iface_changed(sess, i, FALSE) ELSE sess
  <2>1. /\ sess' = IF link[i].admin THEN nd_session_iface_changed(lost, i, TRUE) ELSE lost
        /\ sent' = RoutesAdded(lost, sess') /\ live' = live
    BY Zenon, <1>5 DEF Rebind, IfaceBound
  <2>2. AutowireOnly(sess, lost)
    BY Zenon, <1>1, IfaceChangedOK, AutowireOnlyRefl
  <2>3. ASSUME NEW k \in live, sess[k].autowired, sess[k].iface = i => link[i].index = index[i]
        PROVE  lost[k].autowired /\ lost[k].iface = sess[k].iface
    <3>1. CASE up[i]
      <4>1. sess[k].iface # i
        BY Zenon, <1>5, <2>3, <3>1 DEF SameInterface
      <4> QED BY Zenon, <1>1, <2>3, <3>1, <4>1, ChangedKeeps
    <3>2. CASE ~up[i]
      BY Zenon, <2>3, <3>2
    <3> QED BY Zenon, <3>1, <3>2
  <2>4. lost \in [Keys -> SessionRec]
    BY Zenon, <2>2 DEF AutowireOnly
  <2>5. ASSUME NEW k \in live PROVE k \in Keys /\ Follows(k, lost[k])
    <3>1. k \in Keys /\ Follows(k, sess[k])
      BY Zenon, <1>1 DEF RulesFollowed
    <3>2. Follows(k, nd_session_iface_changed(sess, i, FALSE)[k])
      BY Zenon, <1>1, <3>1, ChangedFollows
    <3> QED BY Zenon, <3>1, <3>2
  <2> HIDE DEF lost
  <2>6. AutowireOnly(lost, sess')
    BY Zenon, <2>1, <2>4, IfaceChangedOK, AutowireOnlyRefl
  <2>7. ASSUME NEW k \in live, sess[k].autowired, sess[k].iface = i => link[i].index = index[i]
        PROVE  sess'[k].autowired /\ sess'[k].iface = sess[k].iface
    <3>1. lost[k].autowired /\ lost[k].iface = sess[k].iface
      BY Zenon, <2>3, <2>7
    <3>2. CASE link[i].admin
      BY Zenon, <1>1, <2>1, <2>4, <3>1, <3>2, ChangedKeeps
    <3>3. CASE ~link[i].admin
      BY Zenon, <2>1, <3>1, <3>3
    <3> QED BY Zenon, <3>2, <3>3
  <2>8. AsksForBelieved
    BY Zenon, <1>1, <2>1, <2>4, <2>6, AddedBelieved DEF Asked, AsksForBelieved
  <2>9. ASSUME NEW k \in live PROVE Follows(k, sess'[k])
    <3>1. Follows(k, nd_session_iface_changed(lost, i, TRUE)[k])
      BY Zenon, <2>4, <2>5, ChangedFollows
    <3> QED BY Zenon, <1>1, <2>1, <2>5, <3>1
  <2>10. RulesFollowed'
    BY Zenon, <2>1, <2>9 DEF RulesFollowed, Follows
  <2> QED BY Zenon, <2>1, <2>7, <2>8, <2>10
<1> QED BY Zenon, <1>2, <1>3, <1>4, <1>5 DEF Pass

\* nd_session_iface_changed leaves the other interfaces alone, and no session of an interface
\* that is down with a route.
LEMMA ChangedIs ==
    ASSUME NEW t \in [Keys -> SessionRec], NEW i, NEW isup \in BOOLEAN, NEW k \in Keys
    PROVE  LET u == nd_session_iface_changed(t, i, isup)
           IN  /\ t[k].iface # i => u[k] = t[k]
               /\ k \in live /\ t[k].iface = i /\ ~isup => ~u[k].autowired
<1> DEFINE u == nd_session_iface_changed(t, i, isup)
<1>1. t[k].iface # i => u[k] = t[k]
  BY Zenon DEF nd_session_iface_changed
<1>2. ASSUME k \in live, t[k].iface = i, ~isup PROVE ~u[k].autowired
  <2>1. u[k] = [t[k] EXCEPT !.autowired = FALSE]
    BY Zenon, <1>2 DEF nd_session_iface_changed
  <2> HIDE DEF u
  <2> QED BY Zenon, <2>1 DEF SessionRec
<1> QED BY Zenon, <1>1, <1>2

\* The sessions of the interface that believe in a route after the pass did before, under the
\* same index, or ask for it now.
LEMMA PassWired ==
    ASSUME WInv, NEW i \in Ifaces, Pass(i)
    PROVE  /\ live' = live /\ \A m \in sent' : m.type # "DELROUTE"
           /\ \A j \in Ifaces \ {i} : up'[j] = up[j] /\ index'[j] = index[j]
           /\ \A k \in live : sess[k].iface # i => sess'[k] = sess[k]
           /\ \A k \in live : sess[k].iface = i /\ sess'[k].autowired =>
                 /\ sess'[k].iface = i /\ up'[i]
                 /\ \/ AddRoute(k, i) \in sent'
                    \/ sess[k].autowired /\ index'[i] = index[i]
<1>1. /\ sess \in [Keys -> SessionRec] /\ live \subseteq Keys
      /\ link[i].admin \in BOOLEAN /\ admin_up[i] \in BOOLEAN /\ up \in [Ifaces -> BOOLEAN]
      /\ \A k \in live : sess[k].autowired => up[sess[k].iface]
  BY Zenon DEF WInv, IInv, StateInv, TypeOK, KernelTypes, RoutesHad
<1>2. /\ \A j \in Ifaces \ {i} : index'[j] = index[j]
      /\ index'[i] = IF link[i].index = 0 THEN index[i] ELSE link[i].index
  BY Zenon DEF Pass, WInv, KernelTypes
<1>3. \A old, new : \A m \in RoutesAdded(old, new) : m.type # "DELROUTE"
  BY DEF RoutesAdded, AddRoute
<1>4. ASSUME NEW old, NEW k \in live, ~old[k].autowired, sess'[k].autowired, old[k].iface = i
      PROVE  AddRoute(k, i) \in RoutesAdded(old, sess')
  BY Zenon, <1>4 DEF RoutesAdded
<1>5. CASE link[i].index = 0 \/ SameInterface(i)
  <2>1. index'[i] = index[i]
    BY Zenon, <1>2, <1>5 DEF SameInterface
  <2>2. CASE Rebind(NoChange(i))
    BY Zenon, <1>1, <1>2, <2>1, <2>2 DEF Rebind, NoChange
  <2>3. CASE Rebind(IfaceGone(i))
    <3>1. sess' = nd_session_iface_changed(sess, i, FALSE) /\ sent' = {} /\ live' = live /\ up' = [up EXCEPT ![i] = FALSE]
      BY Zenon, <2>3 DEF Rebind, IfaceGone
    <3>2. ASSUME NEW k \in live
          PROVE  /\ sess[k].iface # i => sess'[k] = sess[k]
                 /\ sess[k].iface = i => ~sess'[k].autowired
      <4>1. k \in Keys
        BY Zenon, <1>1
      <4>2. LET u == nd_session_iface_changed(sess, i, FALSE)
            IN  /\ sess[k].iface # i => u[k] = sess[k]
                /\ k \in live /\ sess[k].iface = i /\ ~FALSE => ~u[k].autowired
        BY Zenon, <1>1, <3>1, <4>1, ChangedIs
      <4> QED BY Zenon, <3>1, <4>2
    <3> QED BY Zenon, <1>1, <1>2, <3>1, <3>2
  <2>4. CASE Rebind(IfaceAdmin(i))
    <3> DEFINE isup == ~admin_up[i]
    <3>1. /\ sess' = nd_session_iface_changed(sess, i, isup) /\ isup \in BOOLEAN
          /\ sent' = RoutesAdded(sess, sess') /\ live' = live /\ up' = up /\ up[i]
      BY Zenon, <2>4 DEF Rebind, IfaceAdmin
    <3> HIDE DEF isup
    <3>2. AutowireOnly(sess, sess')
      BY Zenon, <1>1, <3>1, IfaceChangedOK
    <3>3. ASSUME NEW k \in live PROVE sess[k].iface # i => sess'[k] = sess[k]
      <4>1. k \in Keys
        BY Zenon, <1>1
      <4> QED BY Zenon, <3>1, <4>1 DEF nd_session_iface_changed
    <3>4. ASSUME NEW k \in live, sess[k].iface = i, sess'[k].autowired
          PROVE  sess'[k].iface = i /\ (AddRoute(k, i) \in sent' \/ sess[k].autowired)
      BY Zenon, <1>1, <1>4, <3>1, <3>2, <3>4 DEF AutowireOnly
    <3> QED BY Zenon, <1>1, <1>2, <1>3, <2>1, <3>1, <3>3, <3>4
  <2>5. link[i].index = 0 => Rebind(NoChange(i)) \/ Rebind(IfaceGone(i))
    BY Zenon DEF Pass
  <2>6. SameInterface(i) => Rebind(NoChange(i)) \/ Rebind(IfaceGone(i)) \/ Rebind(IfaceAdmin(i))
    BY Zenon DEF Pass
  <2> QED BY Zenon, <1>5, <2>2, <2>3, <2>4, <2>5, <2>6
<1>6. CASE link[i].index # 0 /\ ~SameInterface(i) /\ Rebind(IfaceBound(i, link[i].admin))
  <2> DEFINE lost == IF up[i] THEN nd_session_iface_changed(sess, i, FALSE) ELSE sess
  <2>1. /\ sess' = IF link[i].admin THEN nd_session_iface_changed(lost, i, TRUE) ELSE lost
        /\ sent' = RoutesAdded(lost, sess') /\ live' = live /\ up' = [up EXCEPT ![i] = TRUE]
    BY Zenon, <1>6 DEF Rebind, IfaceBound
  <2>2. AutowireOnly(sess, lost)
    BY Zenon, <1>1, IfaceChangedOK, AutowireOnlyRefl
  <2>3. ASSUME NEW k \in live
        PROVE  /\ sess[k].iface # i => lost[k] = sess[k]
               /\ sess[k].iface = i => ~lost[k].autowired
    <3>1. CASE up[i]
      <4>1. k \in Keys
        BY Zenon, <1>1
      <4>2. LET u == nd_session_iface_changed(sess, i, FALSE)
            IN  /\ sess[k].iface # i => u[k] = sess[k]
                /\ k \in live /\ sess[k].iface = i /\ ~FALSE => ~u[k].autowired
        BY Zenon, <1>1, <3>1, <4>1, ChangedIs
      <4> QED BY Zenon, <3>1, <4>2
    <3>2. CASE ~up[i]
      BY Zenon, <1>1, <3>2
    <3> QED BY Zenon, <3>1, <3>2
  <2>4. lost \in [Keys -> SessionRec] /\ \A k \in Keys : lost[k].iface = sess[k].iface
    BY Zenon, <2>2 DEF AutowireOnly
  <2> HIDE DEF lost
  <2>5. AutowireOnly(lost, sess')
    BY Zenon, <2>1, <2>4, IfaceChangedOK, AutowireOnlyRefl
  <2>6. ASSUME NEW k \in live, sess[k].iface # i PROVE sess'[k] = sess[k]
    <3>1. k \in Keys /\ lost[k] = sess[k] /\ lost[k].iface # i
      BY Zenon, <1>1, <2>3, <2>6
    <3>2. nd_session_iface_changed(lost, i, TRUE)[k] = lost[k]
      BY Zenon, <2>4, <3>1, ChangedIs
    <3> QED BY Zenon, <2>1, <3>1, <3>2
  <2>7. ASSUME NEW k \in live, sess[k].iface = i, sess'[k].autowired
        PROVE  sess'[k].iface = i /\ AddRoute(k, i) \in sent'
    <3>1. lost[k].iface = i /\ ~lost[k].autowired /\ sess'[k].iface = lost[k].iface
      BY Zenon, <1>1, <2>3, <2>4, <2>5, <2>7 DEF AutowireOnly
    <3> QED BY Zenon, <1>4, <2>1, <2>7, <3>1
  <2>8. up'[i] /\ \A j \in Ifaces \ {i} : up'[j] = up[j]
    BY Zenon, <1>1, <2>1
  <2> QED BY Zenon, <1>2, <1>3, <2>1, <2>6, <2>7, <2>8
<1> QED BY Zenon, <1>5, <1>6 DEF Pass

\* After the pass, too, whoever believes in a route has it or is known to miss it.
LEMMA PassHad ==
    ASSUME WInv, NEW i \in Ifaces, Pass(i)
    PROVE  Indexed' /\ RoutesHad'
<1>1. /\ index' = [index EXCEPT ![i] = IF link[i].index = 0 THEN index[i] ELSE link[i].index]
      /\ link' = link /\ last' = last /\ flushed' = flushed \ {i}
      /\ Effects(IF i \in flushed THEN SessionsOn(i) ELSE {})
  BY Zenon DEF Pass
<1>2. KernelTypes /\ Indexed /\ RoutesHad /\ TypeOK
  BY Zenon DEF WInv, IInv, StateInv
<1>3. Indexed'
  <2>1. ASSUME NEW j \in Ifaces PROVE index'[j] <= last'[j] /\ link'[j].index <= last'[j]
    BY Zenon, <1>1, <1>2 DEF KernelTypes, Indexed
  <2>2. ASSUME NEW j \in Ifaces, up'[j], BaseRefs[j] > 0 PROVE index'[j] # 0
    <3>1. CASE j # i
      BY <1>2, <2>2, <3>1, PassWired DEF Indexed
    <3>2. CASE j = i /\ link[i].index # 0
      BY Zenon, <1>1, <1>2, <3>2 DEF KernelTypes
    <3>3. CASE j = i /\ link[i].index = 0
      <4>1. Rebind(IfaceGone(i)) \/ (~up[i] /\ Rebind(NoChange(i)))
        BY Zenon, <3>3 DEF Pass
      <4>2. ~up'[i]
        BY Zenon, <1>2, <4>1 DEF Rebind, IfaceGone, NoChange, TypeOK
      <4> QED BY Zenon, <2>2, <3>3, <4>2
    <3> QED BY Zenon, <3>1, <3>2, <3>3
  <2> QED BY Zenon, <2>1, <2>2 DEF Indexed
<1>4. AsksOnly
  BY Zenon, PassWired DEF AsksOnly, Asked
<1>5. ASSUME NEW k \in live, sess[k].autowired, sess'[k].autowired, sess'[k].iface = sess[k].iface
      PROVE  \/ AddRoute(k, sess[k].iface) \in sent' /\ up'[sess[k].iface]
             \/ /\ up'[sess[k].iface] /\ index'[sess[k].iface] = index[sess[k].iface]
                /\ sess[k].iface \in flushed =>
                      sess[k].iface \in flushed' \/ k \in IF i \in flushed THEN SessionsOn(i) ELSE {}
  <2>1. CASE sess[k].iface = i
    <3>1. i \in flushed => k \in SessionsOn(i)
      BY Zenon, <2>1 DEF SessionsOn
    <3> QED BY Zenon, <1>5, <2>1, <3>1, PassWired
  <2>2. CASE sess[k].iface # i
    <3>1. sess[k].iface \in Ifaces /\ up[sess[k].iface]
      BY Zenon, <1>5, WiredBased DEF WInv, IInv, StateInv, RoutesHad
    <3> QED BY <1>1, <2>2, <3>1, PassWired
  <2> QED BY Zenon, <2>1, <2>2
<1>6. RoutesHad'
  BY Zenon, <1>1, <1>2, <1>4, <1>5, HadStep
<1> QED BY Zenon, <1>3, <1>6

\* A pass keeps the routes backed: those on an interface that is down, gone or replaced have
\* been flushed by the kernel.
LEMMA PassBacked ==
    ASSUME WInv, NEW i \in Ifaces, Pass(i), IInv'
    PROVE  RoutesBacked' /\ RulesFollowed' /\ KernelTypes'
<1>1. /\ index' = [index EXCEPT ![i] = IF link[i].index = 0 THEN index[i] ELSE link[i].index]
      /\ link' = link /\ last' = last /\ renamed' = renamed
      /\ Effects(IF i \in flushed THEN SessionsOn(i) ELSE {})
  BY Zenon DEF Pass
<1>2. KernelTypes /\ RoutesBacked
  BY Zenon DEF WInv
<1>3. KernelTypes'
  BY Zenon, <1>1, <1>2 DEF KernelTypes
<1>4. ASSUME NEW r \in fib, Current(r)
      PROVE  /\ index'[r.iface] = index[r.iface]
             /\ \A k \in live : Backs(k, r) =>
                   k \in live' /\ sess'[k].autowired /\ sess'[k].iface = sess[k].iface
  <2>1. r.iface \in Ifaces
    BY Zenon, <1>2 DEF RoutesBacked, Route
  <2>2. index'[r.iface] = index[r.iface]
    BY Zenon, <1>1, <1>2, <1>4, <2>1 DEF KernelTypes, Current
  <2>3. ASSUME NEW k \in live, Backs(k, r)
        PROVE  k \in live' /\ sess'[k].autowired /\ sess'[k].iface = sess[k].iface
    <3>1. sess[k].autowired /\ (sess[k].iface = i => Carries(i) /\ link[i].index = index[i])
      BY Zenon, <1>4, <2>3 DEF Backs, Current
    <3> QED BY Zenon, <3>1, PassSessions
  <2> QED BY Zenon, <2>2, <2>3
<1>5. AsksForBelieved /\ RulesFollowed'
  BY Zenon, PassSessions
<1>6. RoutesBacked'
  <2>1. PICK removed \in Removals : fib' = (fib \ removed) \cup Added
    BY Zenon, <1>1 DEF Effects
  <2> QED BY Zenon, <1>1, <1>2, <1>3, <1>4, <1>5, <2>1, RoutesStep
<1> QED BY Zenon, <1>3, <1>5, <1>6

----------------------------------------------------------------------------
(* The steps of the kernel.                                                *)

\* A step that leaves the daemon alone and adds no route keeps the routes backed, if the
\* links of the routes that stay are as they were.
LEMMA LinkStep ==
    ASSUME RoutesBacked, Still, index' = index, fib' \subseteq fib, renamed \subseteq renamed',
           \A r \in fib' : r.iface \notin renamed' /\ r.iface \in Ifaces /\ Current(r) => link'[r.iface] = link[r.iface]
    PROVE  RoutesBacked'
<1> SUFFICES ASSUME NEW r \in fib'
             PROVE  /\ r \in Route
                    /\ \E k \in Keys : Installs(k, r.dst, r.table, r.iface)
                    /\ r.iface \notin renamed' /\ OneWay(r.dst, r.table) =>
                          Current(r)' /\ \E k \in live' : Backs(k, r)'
  BY Zenon DEF RoutesBacked, OneWay, Installs
<1>1. r \in Route /\ \E k \in Keys : Installs(k, r.dst, r.table, r.iface)
  BY Zenon DEF RoutesBacked
<1>2. ASSUME r.iface \notin renamed', OneWay(r.dst, r.table)
      PROVE  Current(r)' /\ \E k \in live' : Backs(k, r)'
  <2>1. PICK k \in live : Current(r) /\ Backs(k, r)
    BY Zenon, <1>2 DEF RoutesBacked
  <2>2. link'[r.iface] = link[r.iface]
    BY Zenon, <1>1, <1>2, <2>1 DEF Route
  <2>3. Current(r)'
    BY Zenon, <2>1, <2>2 DEF Current, Carries
  <2>4. k \in live' /\ Backs(k, r)'
    BY Zenon, <2>1 DEF Still, Backs
  <2> QED BY Zenon, <2>3, <2>4
<1> QED BY Zenon, <1>1, <1>2

\* What the kernel does to an interface leaves its sessions their routes, or is in doubt until
\* the next pass.
LEMMA KernelHad ==
    ASSUME WInv, NEW i \in Ifaces, Kernel(i)
    PROVE  Indexed' /\ RoutesHad'
<1>1. KernelTypes /\ Indexed /\ RoutesHad
  BY Zenon DEF WInv
<1>2. Still /\ index' = index /\ missed' = missed /\ flushed \subseteq flushed'
  BY Zenon DEF Kernel, LinkDown, LinkUp, LinkDeleted, LinkRenamed, LinkCreated
<1>3. ASSUME NEW k \in live, sess[k].autowired, sess[k].iface # i,
             link'[sess[k].iface] = link[sess[k].iface], \A r \in fib : r.iface # i => r \in fib'
      PROVE  k \in missed' \/ Routed(k)' \/ Doubtful(sess[k].iface)'
  BY Zenon, <1>1, <1>2, <1>3 DEF Still, RoutesHad, Routed, Doubtful
<1>4. /\ \A r \in fib : r.iface # i => r \in fib'
      /\ \A j \in Ifaces \ {i} : link'[j] = link[j] /\ last'[j] = last[j]
  BY Zenon, <1>1 DEF Kernel, LinkDown, LinkUp, LinkDeleted, LinkRenamed, LinkCreated, Flush, KernelTypes
<1>5. /\ index[i] <= last'[i] /\ link'[i].index <= last'[i]
      /\ link'[i].index = link[i].index \/ link'[i].index = 0 \/ link'[i].index > index[i]
  BY <1>1 DEF Kernel, LinkDown, LinkUp, LinkDeleted, LinkRenamed, LinkCreated, KernelTypes, Indexed
<1>6. i \in flushed' \/ link'[i].index = 0 \/ fib' = fib
  BY <1>1 DEF Kernel, LinkDown, LinkUp, LinkDeleted, LinkRenamed, LinkCreated, KernelTypes
<1>7. Indexed'
  BY Zenon, <1>1, <1>2, <1>4, <1>5 DEF Indexed, Still
<1>8. ASSUME NEW k \in live, sess[k].autowired
      PROVE  up[sess[k].iface] /\ (k \in missed' \/ Routed(k)' \/ Doubtful(sess[k].iface)')
  <2>1. /\ sess[k].iface \in Ifaces /\ BaseRefs[sess[k].iface] > 0 /\ up[sess[k].iface]
        /\ k \in missed \/ Routed(k) \/ Doubtful(sess[k].iface)
    BY Zenon, <1>8, WiredBased DEF WInv, IInv, StateInv, RoutesHad
  <2>2. CASE sess[k].iface # i
    BY Zenon, <1>3, <1>4, <1>8, <2>1, <2>2
  <2>3. CASE sess[k].iface = i
    <3>1. index[i] \in Nat /\ index[i] # 0
      BY Zenon, <1>1, <2>1, <2>3 DEF Indexed, KernelTypes
    <3>2. Doubtful(i) => Doubtful(i)'
      BY <1>2, <1>5, <3>1 DEF Doubtful
    <3>3. link'[i].index = 0 \/ i \in flushed' => Doubtful(i)'
      BY Zenon, <1>2, <3>1 DEF Doubtful
    <3>4. fib' = fib /\ Routed(k) => Routed(k)'
      BY Zenon, <1>2 DEF Still, Routed
    <3>5. sess'[k].iface = sess[k].iface
      BY Zenon, <1>2 DEF Still
    <3> QED BY Zenon, <1>2, <1>6, <2>1, <2>3, <3>2, <3>3, <3>4, <3>5
  <2> QED BY Zenon, <2>2, <2>3
<1>9. RoutesHad'
  BY Zenon, <1>2, <1>8 DEF RoutesHad, Still, Doubtful
<1> QED BY Zenon, <1>7, <1>9

\* An interface that goes down or is deleted loses its routes; one that comes had none.
LEMMA KernelBacked ==
    ASSUME WInv, NEW i \in Ifaces, Kernel(i)
    PROVE  RoutesBacked' /\ KernelTypes' /\ Still
<1>1. KernelTypes /\ RoutesBacked
  BY Zenon DEF WInv
<1>2. CASE LinkDown(i)
  <2>1. KernelTypes' /\ Still
    BY Zenon, <1>1, <1>2 DEF LinkDown, Carries, KernelTypes
  <2>2. RoutesBacked'
    BY Zenon, <1>1, <1>2, LinkStep DEF LinkDown, Flush, Still, KernelTypes, Current, Carries
  <2> QED BY Zenon, <2>1, <2>2
<1>3. CASE LinkUp(i)
  <2>1. KernelTypes' /\ Still
    BY Zenon, <1>1, <1>3 DEF LinkUp, KernelTypes
  <2>2. RoutesBacked'
    BY Zenon, <1>1, <1>3, LinkStep DEF LinkUp, Still, KernelTypes, Current, Carries
  <2> QED BY Zenon, <2>1, <2>2
<1>4. CASE LinkDeleted(i)
  <2>1. KernelTypes' /\ Still
    BY Zenon, <1>1, <1>4 DEF LinkDeleted, KernelTypes
  <2>2. RoutesBacked'
    BY Zenon, <1>1, <1>4, LinkStep DEF LinkDeleted, Flush, Still, KernelTypes, Current, Carries
  <2> QED BY Zenon, <2>1, <2>2
<1>5. CASE LinkRenamed(i)
  <2>1. KernelTypes' /\ Still
    BY Zenon, <1>1, <1>5 DEF LinkRenamed, KernelTypes
  <2>2. RoutesBacked'
    BY Zenon, <1>1, <1>5, LinkStep DEF LinkRenamed, Still, KernelTypes, Current, Carries
  <2> QED BY Zenon, <2>1, <2>2
<1>6. ASSUME NEW admin \in BOOLEAN, LinkCreated(i, admin) PROVE RoutesBacked' /\ KernelTypes' /\ Still
  <2>1. KernelTypes' /\ Still
    BY <1>1, <1>6 DEF LinkCreated, KernelTypes
  <2>2. RoutesBacked'
    BY Zenon, <1>1, <1>6, LinkStep DEF LinkCreated, Still, KernelTypes, Current, Carries
  <2> QED BY Zenon, <2>1, <2>2
<1> QED BY Zenon, <1>2, <1>3, <1>4, <1>5, <1>6 DEF Kernel

----------------------------------------------------------------------------
(* The theorem.                                                            *)

\* Every step keeps the invariant.
LEMMA WiringNextInv == WInv /\ [WiringNext]_allVars => WInv'
<1> SUFFICES ASSUME WInv, [WiringNext]_allVars PROVE WInv'
  OBVIOUS
<1>1. IInv /\ KernelTypes /\ RulesFollowed /\ RoutesBacked /\ Indexed /\ RoutesHad
  BY Zenon DEF WInv
<1>2. ASSUME NoPass PROVE KernelTypes'
  BY Zenon, <1>1, <1>2 DEF NoPass, KernelTypes
<1>3. ASSUME NEW p \in Proxies, NEW tgt \in Addrs, NEW h \in Hosts \cup {None}, HandleNs(p, tgt, h) PROVE WInv'
  <2>1. Next /\ NoPass
    BY Zenon, <1>3 DEF HandleNs, Next
  <2> QED BY Zenon, <1>1, <1>2, <1>3, <2>1, NextInv, NsBacked DEF WInv
<1>4. ASSUME NEW i \in Ifaces, NEW a \in Addrs, HandleNa(i, a) PROVE WInv'
  <2>1. Next /\ NoPass
    BY Zenon, <1>4 DEF HandleNa, Next
  <2> QED BY Zenon, <1>1, <1>2, <1>4, <2>1, NextInv, NaBacked DEF WInv
<1>5. ASSUME NEW d \in Steps, Round(d) PROVE WInv'
  <2>1. Next /\ NoPass
    BY Zenon, <1>5 DEF Round, Next
  <2> QED BY Zenon, <1>1, <1>2, <1>5, <2>1, NextInv, RoundBacked DEF WInv
<1>6. ASSUME NEW k \in Keys, Update(k) PROVE WInv'
  <2>1. Next /\ NoPass
    BY Zenon, <1>6 DEF Update, Next
  <2> QED BY Zenon, <1>1, <1>2, <1>6, <2>1, NextInv, UpdateBacked DEF WInv
<1>7. ASSUME NEW i \in Ifaces, Pass(i) PROVE WInv'
  <2>1. Next \/ Still
    BY Zenon, <1>1, <1>7, PassIsRebind DEF Next
  <2>2. Indexed' /\ RoutesHad'
    BY Zenon, <1>7, PassHad
  <2> QED BY Zenon, <1>1, <1>7, <2>1, <2>2, NextInv, StillInv, PassBacked DEF WInv
<1>8. ASSUME NEW i \in Moving, Kernel(i) PROVE WInv'
  <2>1. RoutesBacked' /\ KernelTypes' /\ Still /\ IInv'
    BY Zenon, <1>1, <1>8, WiringAssumption, StillInv, KernelBacked
  <2>2. Indexed' /\ RoutesHad'
    BY Zenon, <1>8, WiringAssumption, KernelHad
  <2>3. RulesFollowed'
    BY Zenon, <1>1, <2>1 DEF Still, RulesFollowed, Follows
  <2> QED BY Zenon, <2>1, <2>2, <2>3 DEF WInv
<1>9. CASE UNCHANGED allVars
  <2>1. UNCHANGED vars /\ UNCHANGED wiringVars
    BY Zenon, <1>9 DEF allVars
  <2>2. IInv'
    BY Zenon, <1>1, <2>1, NextInv
  <2>3. KernelTypes' /\ RoutesBacked'
    BY Zenon, <1>1, <2>1 DEF vars, wiringVars, KernelTypes, RoutesBacked, Backs, Current, Carries
  <2>4. RulesFollowed'
    BY Zenon, <1>1, <2>1 DEF vars, RulesFollowed, Follows
  <2>5. Indexed' /\ RoutesHad'
    BY Zenon, <1>1, <2>1 DEF vars, wiringVars, Indexed, RoutesHad, Routed, Doubtful
  <2> QED BY Zenon, <2>2, <2>3, <2>4, <2>5 DEF WInv
<1> QED BY Zenon, <1>3, <1>4, <1>5, <1>6, <1>7, <1>8, <1>9 DEF WiringNext

\* The invariant of sessions, links and routes holds in every reachable state.
THEOREM WiringInvariant == WiringSpec => []WInv
BY WiringInitInv, WiringNextInv, PTL DEF WiringSpec

\* No route outlives its session: every route that this process has put into the kernel, on an
\* interface that was not renamed and to a target that the rules send through one interface
\* only, is one that a session believes in and will have removed.
THEOREM NoOrphansThm == WiringSpec => []NoOrphans
<1>1. WInv => NoOrphans
  BY Zenon DEF WInv, RoutesBacked, Backs, NoOrphans
<1> QED BY <1>1, WiringInvariant, PTL

\* No route is missing for a reason that the model does not name: a session that believes in its
\* route has it, on the index that the daemon is bound to, as soon as a pass has seen what became
\* of the interface, unless the interface went down and up between two passes, the kernel refused
\* the route, or another session of the same target had it removed.
THEOREM RoutesAreHad == WiringSpec => []RouteMissingOnlyIfMissed
<1>1. WInv => RouteMissingOnlyIfMissed
  BY Zenon DEF WInv, RoutesHad, RouteMissingOnlyIfMissed, Settled, Doubtful
<1> QED BY <1>1, WiringInvariant, PTL
=============================================================================
