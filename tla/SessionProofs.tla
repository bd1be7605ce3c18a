--------------------------- MODULE SessionProofs ---------------------------
(***************************************************************************)
(* The theorems about the session table, for every configuration and every *)
(* value of the timers: what each operation on one session guarantees; the *)
(* inductive invariant of the table, step by step; what follows from it;   *)
(* and that the table implements Resolver.                                 *)
(***************************************************************************)
EXTENDS SessionResolver, FiniteSetTheorems, TLAPS

----------------------------------------------------------------------------
(* One session.                                                            *)

\* What is true of every session in the table, whatever its surroundings.
SessionOK(k, s) ==
    /\ s \in SessionRec
    /\ s.state \in {"INCOMPLETE", "STALE"} => s.iface # None
    /\ s.state = "VALID" => s.subs = {}
    /\ s.state = "VALID" /\ s.iface = None => RuleOf[k].mode # "AUTO"
    /\ s.autowired => s.iface # None
    /\ Cardinality(s.subs) <= ND_SESSION_MAX_SUBS

\* What every operation on a session guarantees: a good session, a reference taken
\* exactly when the interface pointer is set, and no NA unless the session is VALID.
OutcomeOK(k, s, o) ==
    /\ SessionOK(k, o.sess)
    /\ o.open \in Ifaces \cup {None}
    /\ o.open # None => s.iface = None
    /\ o.sess.iface = IF o.open # None THEN o.open ELSE s.iface
    /\ \A m \in o.sent : m.key = k /\ (m.type = "NA" => o.sess.state = "VALID")

\* The session is no STALE one, or its ons_time is not before its last probe.
ProbeStamped(s, o) ==
    o.sess.state = "STALE" =>
        \/ o.sess.ons_age = 0
        \/ s.state = "STALE" /\ o.sess.ons_age = s.ons_age /\ \A m \in o.sent : m.type # "NS"

\* AutoIface yields an interface or None.
LEMMA AutoIfaceType ==
    ASSUME TypeOK, NEW k \in Keys, RuleOf[k] # None, NEW opens \in BOOLEAN
    PROVE  AutoIface(k, opens) \in Ifaces \cup {None}
<1>1. k[2] \in Addrs /\ RuleOf[k].table \in Tables
  BY Zenon DEF Keys, Tables
<1>2. <<k[2], RuleOf[k].table>> \in Addrs \X Tables
  BY Zenon, <1>1
<1> QED BY Zenon, <1>2 DEF AutoIface, TypeOK

\* A subscriber list that was not full, or already held h, is within bounds with h.
LEMMA AddSub ==
    ASSUME NEW S \in SUBSET Hosts, NEW h \in Hosts, Cardinality(S) <= ND_SESSION_MAX_SUBS,
           h \in S \/ ~(Cardinality(S) >= ND_SESSION_MAX_SUBS)
    PROVE  Cardinality(S \cup {h}) <= ND_SESSION_MAX_SUBS
<1>1. IsFiniteSet(S)
  BY Zenon, FiniteAssumption, FS_Subset
<1>2. Cardinality(S) \in Nat
  BY Zenon, <1>1, FS_CardinalityType
<1>3. CASE h \in S
  <2>1. S \cup {h} = S
    BY Zenon, <1>3
  <2> QED BY Zenon, <2>1
<1>4. CASE h \notin S
  <2>1. Cardinality(S \cup {h}) = Cardinality(S) + 1
    BY Zenon, <1>1, <1>4, FS_AddElement
  <2> QED BY <2>1, <1>2, <1>4, TimeAssumption
<1> QED BY Zenon, <1>3, <1>4

\* An empty subscriber list is within bounds.
LEMMA NoSubs == Cardinality({}) <= ND_SESSION_MAX_SUBS
BY FS_EmptySet, TimeAssumption

\* A fresh session has the right type.
LEMMA BlankType == Blank \in SessionRec
BY TimeAssumption DEF Blank, SessionRec, Age, States

\* Opening an interface and probing on it, as nd_session_create and the route
\* re-check of nd_session_handle_ns do.
LEMMA StartProbingOK ==
    ASSUME NEW k \in Keys, NEW i \in Ifaces, NEW s \in SessionRec, s.iface = None,
           Cardinality(s.subs) <= ND_SESSION_MAX_SUBS
    PROVE  /\ OutcomeOK(k, s, StartProbing(k, s, i))
           /\ StartProbing(k, s, i).sess.state = "INCOMPLETE"
           /\ StartProbing(k, s, i).sess.subs = s.subs
<1> DEFINE o == StartProbing(k, s, i)
<1>1. o.sess = [s EXCEPT !.state = "INCOMPLETE", !.iface = i, !.state_age = 0, !.ons_count = 1, !.ons_age = 0]
  BY Zenon DEF StartProbing, Outcome
<1>2. o.open = i /\ i # None
  BY Zenon, NoneAssumption DEF StartProbing, Outcome
<1>3. o.sess \in SessionRec
  <2>1. 0 \in Age /\ "INCOMPLETE" \in States /\ 1 \in Nat
    BY TimeAssumption DEF Age, States
  <2> QED BY Zenon, <1>1, <2>1 DEF SessionRec
<1>4. /\ o.sess.state = "INCOMPLETE"
      /\ o.sess.iface = i
      /\ o.sess.subs = s.subs
  BY Zenon, <1>1 DEF SessionRec
<1>5. SessionOK(k, o.sess)
  BY Zenon, <1>2, <1>3, <1>4 DEF SessionOK
<1>6. \A m \in o.sent : m.key = k /\ m.type = "NS"
  BY DEF StartProbing, Outcome, nd_iface_send_ns, Ns
<1> QED BY Zenon, <1>2, <1>4, <1>5, <1>6 DEF OutcomeOK

\* nd_session_create gives a good session; a VALID one is static or an own address.
LEMMA CreateOK ==
    ASSUME TypeOK, NEW k \in Keys, RuleOf[k] # None, NEW opens \in BOOLEAN
    PROVE  LET o == nd_session_create(k, opens)
           IN  /\ OutcomeOK(k, Blank, o)
               /\ o.sess.state # "STALE"
               /\ o.sess.state = "VALID" =>
                     /\ o.sess.state_age = 0
                     /\ RuleOf[k].mode = "STATIC" \/ OwnAddress(k)
               /\ \A m \in o.sent : m.type = "NS"
<1> DEFINE o == nd_session_create(k, opens)
           iface == IF RuleOf[k].mode = "AUTO" THEN AutoIface(k, opens) ELSE RuleOf[k].iface
<1>1. RuleOf[k] \in Rule
  BY Zenon, ConfigAssumption
<1>2. iface \in Ifaces \cup {None}
  BY Zenon, <1>1, AutoIfaceType DEF Rule
<1>3. Blank.iface = None /\ Blank.subs = {} /\ Blank.state_age = 0 /\ ~Blank.autowired
  BY Zenon DEF Blank
<1>4. CASE RuleOf[k].mode = "STATIC" \/ (RuleOf[k].mode = "IFACE" /\ OwnAddress(k))
  <2>1. o = Outcome([Blank EXCEPT !.state = "VALID"], {}, None)
    BY Zenon, <1>4 DEF nd_session_create
  <2>2. o.sess = [Blank EXCEPT !.state = "VALID"] /\ o.sent = {} /\ o.open = None
    BY <2>1 DEF Outcome
  <2>3. o.sess \in SessionRec
    BY Zenon, <2>2, BlankType DEF SessionRec, States
  <2>4. /\ o.sess.state = "VALID" /\ o.sess.iface = None /\ o.sess.subs = {}
        /\ o.sess.state_age = 0 /\ ~o.sess.autowired
    BY Zenon, <2>2, <1>3, BlankType DEF SessionRec
  <2>5. SessionOK(k, o.sess)
    BY Zenon, <2>3, <2>4, <1>4, NoSubs DEF SessionOK
  <2> QED BY Zenon, <2>2, <2>4, <2>5, <1>3, <1>4 DEF OutcomeOK
<1>5. CASE ~(RuleOf[k].mode = "STATIC" \/ (RuleOf[k].mode = "IFACE" /\ OwnAddress(k))) /\ iface = None
  <2>1. o = Outcome([Blank EXCEPT !.state = "INVALID"], {}, None)
    BY Zenon, <1>5 DEF nd_session_create
  <2>2. o.sess = [Blank EXCEPT !.state = "INVALID"] /\ o.sent = {} /\ o.open = None
    BY <2>1 DEF Outcome
  <2>3. o.sess \in SessionRec
    BY Zenon, <2>2, BlankType DEF SessionRec, States
  <2>4. o.sess.state = "INVALID" /\ o.sess.iface = None /\ o.sess.subs = {} /\ ~o.sess.autowired
    BY Zenon, <2>2, <1>3, BlankType DEF SessionRec
  <2>5. SessionOK(k, o.sess)
    BY Zenon, <2>3, <2>4, NoSubs DEF SessionOK
  <2> QED BY Zenon, <2>2, <2>4, <2>5, <1>3 DEF OutcomeOK
<1>6. CASE ~(RuleOf[k].mode = "STATIC" \/ (RuleOf[k].mode = "IFACE" /\ OwnAddress(k))) /\ iface # None
  <2>1. o = StartProbing(k, Blank, iface)
    BY Zenon, <1>6 DEF nd_session_create
  <2>2. iface \in Ifaces
    BY Zenon, <1>2, <1>6
  <2>3. OutcomeOK(k, Blank, o) /\ o.sess.state = "INCOMPLETE"
    BY ZenonT(40), <2>1, <2>2, <1>3, BlankType, NoSubs, StartProbingOK
  <2>4. \A m \in o.sent : m.type = "NS"
    BY <2>1 DEF StartProbing, Outcome, nd_iface_send_ns, Ns
  <2> QED BY Zenon, <2>3, <2>4
<1> QED BY Zenon, <1>4, <1>5, <1>6

\* Ages are natural numbers; zero is one.
LEMMA AgeFacts == 0 \in Age /\ AGE_CAP \in Age /\ Age \subseteq Nat
BY TimeAssumption DEF Age

\* nd_session_handle_ns keeps a session good, does not touch the timers of a VALID
\* one, and restarts ons_time with every probe of a STALE one.
LEMMA HandleNsOK ==
    ASSUME TypeOK, NEW k \in Keys, RuleOf[k] # None, NEW s, SessionOK(k, s),
           NEW h \in Hosts \cup {None}, NEW opens \in BOOLEAN
    PROVE  LET o == nd_session_handle_ns(k, s, h, opens)
           IN  /\ OutcomeOK(k, s, o)
               /\ ProbeStamped(s, o)
               /\ o.sess.state = "VALID" <=> s.state = "VALID"
               /\ o.sess.state = "VALID" => o.sess.state_age = s.state_age /\ o.open = None
               /\ s.subs \subseteq o.sess.subs
<1> DEFINE o == nd_session_handle_ns(k, s, h, opens)
           asked == [s EXCEPT !.ins_age = 0]
           queued == [asked EXCEPT !.subs = @ \cup {h}]
           iface == AutoIface(k, opens)
           full == h = None \/ (h \notin s.subs /\ Cardinality(s.subs) >= ND_SESSION_MAX_SUBS)
           reopen == s.state = "INVALID" /\ s.iface = None /\ RuleOf[k].mode = "AUTO" /\ iface # None
           due == s.state = "STALE" /\ s.iface # None /\ s.ons_age >= RETRANS_TIME
<1>1. s \in SessionRec
  BY Zenon DEF SessionOK
<1>2. asked \in SessionRec
  BY Zenon, <1>1, AgeFacts DEF SessionRec
<1>3. /\ asked.state = s.state /\ asked.iface = s.iface /\ asked.subs = s.subs
      /\ asked.state_age = s.state_age /\ asked.ons_age = s.ons_age /\ asked.autowired = s.autowired
  BY Zenon, <1>1 DEF SessionRec
<1>4. SessionOK(k, asked)
  BY Zenon, <1>2, <1>3 DEF SessionOK
<1>5. CASE s.state = "VALID"
  <2>1. o = Outcome(asked, nd_iface_send_na({h}, k), None)
    BY Zenon, <1>5 DEF nd_session_handle_ns
  <2>2. o.sess = asked /\ o.open = None /\ o.sent = nd_iface_send_na({h}, k)
    BY <2>1 DEF Outcome
  <2>3. \A m \in o.sent : m.key = k
    BY <2>2 DEF nd_iface_send_na, Na
  <2> QED BY Zenon, <2>2, <2>3, <1>3, <1>4, <1>5 DEF OutcomeOK, ProbeStamped
<1>6. CASE s.state # "VALID" /\ full
  <2>1. o = Outcome(asked, {}, None)
    BY Zenon, <1>6 DEF nd_session_handle_ns
  <2>2. o.sess = asked /\ o.open = None /\ o.sent = {}
    BY <2>1 DEF Outcome
  <2> QED BY Zenon, <2>2, <1>3, <1>4, <1>6 DEF OutcomeOK, ProbeStamped
<1>7. ASSUME s.state # "VALID", ~full
      PROVE  /\ queued \in SessionRec
             /\ queued.state = s.state /\ queued.iface = s.iface /\ queued.subs = s.subs \cup {h}
             /\ queued.state_age = s.state_age /\ queued.ons_age = s.ons_age
             /\ queued.autowired = s.autowired
             /\ Cardinality(queued.subs) <= ND_SESSION_MAX_SUBS
             /\ SessionOK(k, queued)
  <2>1. h \in Hosts
    BY Zenon, <1>7
  <2>2. s.subs \cup {h} \in SUBSET Hosts
    BY Zenon, <1>1, <2>1 DEF SessionRec
  <2>3. queued = [asked EXCEPT !.subs = s.subs \cup {h}]
    BY Zenon, <1>3
  <2>4. queued \in SessionRec
    BY Zenon, <2>2, <2>3, <1>2 DEF SessionRec
  <2>5. /\ queued.state = s.state /\ queued.iface = s.iface /\ queued.subs = s.subs \cup {h}
        /\ queued.state_age = s.state_age /\ queued.ons_age = s.ons_age
        /\ queued.autowired = s.autowired
    BY Zenon, <2>3, <1>2, <1>3 DEF SessionRec
  <2>6. Cardinality(s.subs \cup {h}) <= ND_SESSION_MAX_SUBS
    <3>1. s.subs \in SUBSET Hosts /\ Cardinality(s.subs) <= ND_SESSION_MAX_SUBS
      BY Zenon, <1>1 DEF SessionOK, SessionRec
    <3>2. h \in s.subs \/ ~(Cardinality(s.subs) >= ND_SESSION_MAX_SUBS)
      BY Zenon, <1>7
    <3> QED BY Zenon, <2>1, <3>1, <3>2, AddSub
  <2>7. SessionOK(k, queued)
    BY Zenon, <2>4, <2>5, <2>6, <1>7 DEF SessionOK
  <2> QED BY Zenon, <2>4, <2>5, <2>6, <2>7
<1>8. CASE s.state # "VALID" /\ ~full /\ reopen
  <2>1. o = StartProbing(k, queued, iface)
    BY Zenon, <1>8 DEF nd_session_handle_ns
  <2>2. iface \in Ifaces
    BY Zenon, <1>8, AutoIfaceType
  <2>3. OutcomeOK(k, queued, o) /\ o.sess.state = "INCOMPLETE" /\ o.sess.subs = queued.subs
    <3>1. queued \in SessionRec /\ queued.iface = None /\ Cardinality(queued.subs) <= ND_SESSION_MAX_SUBS
      BY Zenon, <1>7, <1>8
    <3> HIDE DEF queued, o
    <3> QED BY Zenon, <2>1, <2>2, <3>1, StartProbingOK
  <2>4. OutcomeOK(k, s, o)
    BY Zenon, <2>3, <1>7, <1>8 DEF OutcomeOK
  <2> QED BY Zenon, <2>3, <2>4, <1>7, <1>8 DEF ProbeStamped
<1>9. CASE s.state # "VALID" /\ ~full /\ ~reopen /\ due
  <2> DEFINE n == IF queued.ons_count = 0 THEN 1 ELSE queued.ons_count
             t == [queued EXCEPT !.ons_count = n, !.ons_age = 0]
  <2>1. o = Outcome(t, nd_iface_send_ns(s.iface, k, up[s.iface]), None)
    BY Zenon, <1>9 DEF nd_session_handle_ns
  <2>2. o.sess = t /\ o.open = None /\ o.sent = nd_iface_send_ns(s.iface, k, up[s.iface])
    BY <2>1 DEF Outcome
  <2>3. n \in Nat
    BY Zenon, <1>7, <1>9 DEF SessionRec
  <2>4. t \in SessionRec
    BY Zenon, <2>3, <1>7, <1>9, AgeFacts DEF SessionRec
  <2>5. /\ t.state = s.state /\ t.iface = s.iface /\ t.subs = s.subs \cup {h}
        /\ t.ons_age = 0 /\ t.autowired = s.autowired
    BY Zenon, <1>7, <1>9 DEF SessionRec
  <2>6. SessionOK(k, t)
    BY Zenon, <2>4, <2>5, <1>7, <1>9 DEF SessionOK
  <2>7. \A m \in o.sent : m.key = k /\ m.type = "NS"
    BY <2>2 DEF nd_iface_send_ns, Ns
  <2> QED BY Zenon, <2>2, <2>5, <2>6, <2>7, <1>9 DEF OutcomeOK, ProbeStamped
<1>10. CASE s.state # "VALID" /\ ~full /\ ~reopen /\ ~due
  <2>1. o = Outcome(queued, {}, None)
    BY Zenon, <1>10 DEF nd_session_handle_ns
  <2>2. o.sess = queued /\ o.open = None /\ o.sent = {}
    BY <2>1 DEF Outcome
  <2> QED BY Zenon, <2>2, <1>7, <1>10 DEF OutcomeOK, ProbeStamped
<1> QED BY Zenon, <1>5, <1>6, <1>8, <1>9, <1>10

\* nd_session_handle_na makes the session VALID, with a fresh timer, and answers or
\* clears every subscriber.
LEMMA HandleNaOK ==
    ASSUME TypeOK, NEW k \in Keys, RuleOf[k] # None, NEW s, SessionOK(k, s), s.iface \in Ifaces
    PROVE  LET o == nd_session_handle_na(k, s)
           IN  /\ OutcomeOK(k, s, o)
               /\ o.open = None
               /\ o.sess.state = "VALID"
               /\ o.sess.state_age = 0
               /\ \A h \in s.subs : up[ProxyIface[k[1]]] => Na(h, k) \in o.sent
<1> DEFINE o == nd_session_handle_na(k, s)
<1>1. s \in SessionRec /\ s.iface # None
  BY Zenon, NoneAssumption DEF SessionOK
<1>2. CASE s.state = "VALID"
  <2> DEFINE t == [s EXCEPT !.state_age = 0]
  <2>1. o.sess = t /\ o.sent = {} /\ o.open = None
    BY Zenon, <1>2 DEF nd_session_handle_na, Outcome
  <2>2. t \in SessionRec
    BY Zenon, <1>1, AgeFacts DEF SessionRec
  <2>3. /\ t.state = "VALID" /\ t.iface = s.iface /\ t.subs = s.subs /\ t.state_age = 0
        /\ t.autowired = s.autowired
    BY Zenon, <1>1, <1>2 DEF SessionRec
  <2>4. SessionOK(k, t)
    BY <2>2, <2>3, <1>1 DEF SessionOK
  <2>5. s.subs = {}
    BY Zenon, <1>2 DEF SessionOK
  <2> QED BY Zenon, <2>1, <2>3, <2>4, <2>5 DEF OutcomeOK
<1>3. CASE s.state # "VALID"
  <2> DEFINE w == s.autowired \/ Wires(k, s, up[s.iface])
             t == [s EXCEPT !.subs = {}, !.state = "VALID", !.state_age = 0, !.autowired = w]
             added == IF Wires(k, s, up[s.iface]) THEN {AddRoute(k, s.iface)} ELSE {}
  <2>1. o.sess = t /\ o.sent = nd_iface_send_na(s.subs, k) \cup added /\ o.open = None
    BY Zenon, <1>3 DEF nd_session_handle_na, Outcome
  <2>2. w \in BOOLEAN
    OBVIOUS
  <2>3. t \in SessionRec
    <3>1. "VALID" \in States /\ {} \in SUBSET Hosts
      BY Zenon DEF States
    <3> QED BY Zenon, <1>1, <2>2, <3>1, AgeFacts DEF SessionRec
  <2>4. t.state = "VALID" /\ t.iface = s.iface /\ t.subs = {} /\ t.state_age = 0
    BY Zenon, <1>1 DEF SessionRec
  <2>5. SessionOK(k, t)
    BY Zenon, <2>3, <2>4, <1>1, NoSubs DEF SessionOK
  <2>6. \A m \in nd_iface_send_na(s.subs, k) : m.key = k
    BY DEF nd_iface_send_na, Na
  <2>7. \A m \in added : m.key = k
    BY DEF AddRoute
  <2>8. \A h \in s.subs : up[ProxyIface[k[1]]] => Na(h, k) \in nd_iface_send_na(s.subs, k)
    BY Zenon DEF nd_iface_send_na
  <2> QED BY Zenon, <2>1, <2>4, <2>5, <2>6, <2>7, <2>8 DEF OutcomeOK
<1> QED BY Zenon, <1>2, <1>3

\* Entering a state keeps everything but the state and its stamp.
LEMMA EnterType ==
    ASSUME NEW s \in SessionRec, NEW state \in States
    PROVE  LET t == Enter(s, state)
           IN  /\ t \in SessionRec
               /\ t.state = state /\ t.state_age = 0 /\ t.iface = s.iface /\ t.subs = s.subs
               /\ t.ons_age = s.ons_age /\ t.ons_count = s.ons_count /\ t.autowired = s.autowired
<1> DEFINE t == Enter(s, state)
<1>1. t = [s EXCEPT !.state = state, !.state_age = 0]
  BY Zenon DEF Enter
<1>2. t \in SessionRec
  BY Zenon, <1>1, AgeFacts DEF SessionRec
<1>3. /\ t.state = state /\ t.state_age = 0 /\ t.iface = s.iface /\ t.subs = s.subs
      /\ t.ons_age = s.ons_age /\ t.ons_count = s.ons_count /\ t.autowired = s.autowired
  BY Zenon, <1>1 DEF SessionRec
<1> QED BY Zenon, <1>2, <1>3

\* What a pass of nd_session_update guarantees of a session it keeps: a VALID one is
\* within valid-ttl, or was just found to be static or an own address.
UpdateOK(k, s, o) ==
    /\ OutcomeOK(k, s, o)
    /\ ProbeStamped(s, o)
    /\ o.open = None
    /\ o.sess.subs = s.subs
    /\ \A m \in o.sent : m.type = "NS"
    /\ o.sess.state = "VALID" =>
          \/ s.state = "VALID" /\ o.sess.state_age = s.state_age /\ s.state_age < VALID_TTL
          \/ o.sess.state_age = 0 /\ (RuleOf[k].mode = "STATIC" \/ OwnAddress(k))

\* nd_session_update in the state INCOMPLETE.
LEMMA UpdateIncompleteOK ==
    ASSUME NEW k \in Keys, NEW s, SessionOK(k, s), s.state = "INCOMPLETE"
    PROVE  UpdateOK(k, s, UpdateIncomplete(k, s))
<1> DEFINE o == UpdateIncomplete(k, s)
           hold == [s EXCEPT !.ons_age = 0]
           again == [s EXCEPT !.ons_count = @ + 1]
<1>1. s \in SessionRec /\ s.iface # None
  BY Zenon DEF SessionOK
<1>2. /\ hold \in SessionRec
      /\ hold.state = s.state /\ hold.iface = s.iface /\ hold.subs = s.subs /\ hold.autowired = s.autowired
  BY Zenon, <1>1, AgeFacts DEF SessionRec
<1>3. /\ again \in SessionRec
      /\ again.state = s.state /\ again.iface = s.iface /\ again.subs = s.subs /\ again.autowired = s.autowired
  <2>1. s.ons_count + 1 \in Nat
    BY <1>1 DEF SessionRec
  <2> QED BY Zenon, <1>1, <2>1 DEF SessionRec
<1>4. "INVALID" \in States
  BY Zenon DEF States
<1>5. \A r \in {s, hold, again, Enter(s, "INVALID"), Enter(again, "INVALID")} :
         /\ SessionOK(k, r)
         /\ r.iface = s.iface /\ r.subs = s.subs
         /\ r.state \in {"INCOMPLETE", "INVALID"}
  <2>1. SessionOK(k, hold)
    BY Zenon, <1>1, <1>2 DEF SessionOK
  <2>2. SessionOK(k, again)
    BY Zenon, <1>1, <1>3 DEF SessionOK
  <2>3. SessionOK(k, Enter(s, "INVALID"))
    BY Zenon, <1>1, <1>4, EnterType DEF SessionOK
  <2>4. SessionOK(k, Enter(again, "INVALID"))
    BY ZenonT(40), <2>2, <1>4, EnterType DEF SessionOK
  <2>5. /\ Enter(s, "INVALID").iface = s.iface /\ Enter(s, "INVALID").subs = s.subs
        /\ Enter(s, "INVALID").state = "INVALID"
    BY Zenon, <1>1, <1>4, EnterType
  <2>6. /\ Enter(again, "INVALID").iface = s.iface /\ Enter(again, "INVALID").subs = s.subs
        /\ Enter(again, "INVALID").state = "INVALID"
    BY Zenon, <1>3, <1>4, EnterType
  <2> HIDE DEF hold, again
  <2> QED BY Zenon, <2>1, <2>2, <2>3, <2>4, <2>5, <2>6, <1>2, <1>3
<1>6. /\ o.sess \in {s, hold, again, Enter(s, "INVALID"), Enter(again, "INVALID")}
      /\ o.open = None
      /\ o.sent \in {{}, nd_iface_send_ns(s.iface, k, TRUE)}
  BY Zenon DEF UpdateIncomplete, Outcome
<1>7. \A m \in o.sent : m.key = k /\ m.type = "NS"
  BY <1>6 DEF nd_iface_send_ns, Ns
<1> HIDE DEF o
<1>8. /\ SessionOK(k, o.sess) /\ o.sess.iface = s.iface /\ o.sess.subs = s.subs
      /\ o.sess.state \in {"INCOMPLETE", "INVALID"}
  BY Zenon, <1>5, <1>6
<1>9. UpdateOK(k, s, o)
  BY Zenon, <1>6, <1>7, <1>8 DEF UpdateOK, OutcomeOK, ProbeStamped
<1> QED BY Zenon, <1>9 DEF o

\* nd_session_update in the state VALID.
LEMMA UpdateValidOK ==
    ASSUME NEW k \in Keys, NEW s, SessionOK(k, s), s.state = "VALID"
    PROVE  UpdateOK(k, s, UpdateValid(k, s))
<1> DEFINE o == UpdateValid(k, s)
<1>1. s \in SessionRec /\ s.subs = {}
  BY Zenon DEF SessionOK
<1>2. CASE s.state_age < VALID_TTL
  <2>1. o.sess = s /\ o.sent = {} /\ o.open = None
    BY Zenon, <1>2 DEF UpdateValid, Outcome
  <2> QED BY Zenon, <2>1, <1>2 DEF UpdateOK, OutcomeOK, ProbeStamped
<1>3. CASE ~(s.state_age < VALID_TTL) /\ s.iface = None
  <2> DEFINE own == RuleOf[k].mode = "STATIC" \/ OwnAddress(k)
             next == IF own THEN "VALID" ELSE "INVALID"
             t == Enter(s, next)
  <2>1. o.sess = t /\ o.sent = {} /\ o.open = None
    BY Zenon, <1>3 DEF UpdateValid, Outcome
  <2>2. next \in States
    BY Zenon DEF States
  <2>3. /\ t \in SessionRec
        /\ t.state = next /\ t.state_age = 0 /\ t.iface = s.iface /\ t.subs = s.subs
        /\ t.autowired = s.autowired
    <3> HIDE DEF next
    <3> QED BY Zenon, <1>1, <2>2, EnterType
  <2> HIDE DEF t
  <2>4. SessionOK(k, t)
    BY Zenon, <2>3, <1>1, <1>3 DEF SessionOK
  <2> QED BY Zenon, <2>1, <2>3, <2>4, <1>3 DEF UpdateOK, OutcomeOK, ProbeStamped
<1>4. CASE ~(s.state_age < VALID_TTL) /\ s.iface # None
  <2> DEFINE probe == KEEPALIVE \/ s.ins_age < VALID_TTL
             n == IF probe THEN 1 ELSE 0
             e == Enter(s, "STALE")
             t == [e EXCEPT !.ons_age = 0, !.ons_count = n]
  <2>1. o.sess = t /\ o.open = None /\ o.sent = nd_iface_send_ns(s.iface, k, probe /\ up[s.iface])
    BY Zenon, <1>4 DEF UpdateValid, Outcome
  <2>2. "STALE" \in States /\ n \in Nat
    BY Zenon DEF States
  <2>3. e \in SessionRec /\ e.state = "STALE" /\ e.iface = s.iface /\ e.subs = s.subs
    BY Zenon, <1>1, <2>2, EnterType
  <2> HIDE DEF e, n
  <2>4. /\ t \in SessionRec
        /\ t.state = "STALE" /\ t.iface = s.iface /\ t.subs = s.subs /\ t.ons_age = 0
    BY Zenon, <2>2, <2>3, AgeFacts DEF SessionRec
  <2> HIDE DEF t
  <2>5. SessionOK(k, t)
    BY Zenon, <2>4, <1>1, <1>4, NoSubs DEF SessionOK
  <2>6. \A m \in o.sent : m.key = k /\ m.type = "NS"
    BY <2>1 DEF nd_iface_send_ns, Ns
  <2> QED BY Zenon, <2>1, <2>4, <2>5, <2>6, <1>4 DEF UpdateOK, OutcomeOK, ProbeStamped
<1> QED BY Zenon, <1>2, <1>3, <1>4

\* nd_session_update in the state STALE.
LEMMA UpdateStaleOK ==
    ASSUME NEW k \in Keys, NEW s, SessionOK(k, s), s.state = "STALE"
    PROVE  UpdateOK(k, s, UpdateStale(k, s))
<1> DEFINE o == UpdateStale(k, s)
           t == [s EXCEPT !.ons_count = @ + 1, !.ons_age = 0]
           sends == nd_iface_send_ns(s.iface, k, up[s.iface])
           waits == (~KEEPALIVE /\ s.ins_age > VALID_TTL) \/ s.ons_age < StaleInterval(s.ons_count)
<1>1. s \in SessionRec /\ s.iface # None
  BY Zenon DEF SessionOK
<1>2. CASE s.state_age >= STALE_TTL
  <2> DEFINE e == Enter(s, "INVALID")
  <2>1. o.sess = e /\ o.sent = {} /\ o.open = None
    BY Zenon, <1>2 DEF UpdateStale, Outcome
  <2>2. "INVALID" \in States
    BY Zenon DEF States
  <2>3. /\ e \in SessionRec
        /\ e.state = "INVALID" /\ e.iface = s.iface /\ e.subs = s.subs /\ e.autowired = s.autowired
    BY Zenon, <1>1, <2>2, EnterType
  <2> HIDE DEF e
  <2>4. SessionOK(k, e)
    BY Zenon, <2>3, <1>1 DEF SessionOK
  <2> QED BY Zenon, <2>1, <2>3, <2>4 DEF UpdateOK, OutcomeOK, ProbeStamped
<1>3. CASE ~(s.state_age >= STALE_TTL) /\ waits
  <2>1. o.sess = s /\ o.sent = {} /\ o.open = None
    BY Zenon, <1>3 DEF UpdateStale, Outcome
  <2> QED BY Zenon, <2>1 DEF UpdateOK, OutcomeOK, ProbeStamped
<1>4. CASE ~(s.state_age >= STALE_TTL) /\ ~waits
  <2>1. o.sess = t /\ o.sent = sends /\ o.open = None
    BY Zenon, <1>4 DEF UpdateStale, Outcome
  <2>2. /\ t \in SessionRec
        /\ t.state = "STALE" /\ t.iface = s.iface /\ t.subs = s.subs /\ t.ons_age = 0
    <3>1. s.ons_count + 1 \in Nat
      BY <1>1 DEF SessionRec
    <3> QED BY Zenon, <1>1, <3>1, AgeFacts DEF SessionRec
  <2> HIDE DEF t
  <2>3. SessionOK(k, t)
    BY Zenon, <2>2, <1>1 DEF SessionOK
  <2>4. \A m \in sends : m.key = k /\ m.type = "NS"
    BY DEF nd_iface_send_ns, Ns
  <2> QED BY Zenon, <2>1, <2>2, <2>3, <2>4 DEF UpdateOK, OutcomeOK, ProbeStamped
<1> QED BY Zenon, <1>2, <1>3, <1>4

----------------------------------------------------------------------------
(* The inductive invariant.                                                *)

SessionsOK == \A k \in live : RuleOf[k] # None /\ SessionOK(k, sess[k])

DeadBlank == \A k \in Keys \ live : sess[k] = Blank

\* A VALID session has been vouched for no earlier than its state_time ...
Vouched ==
    \A k \in live : sess[k].state = "VALID" /\ RuleOf[k].mode # "STATIC" => VouchAge(k) <= sess[k].state_age

\* ... and outlives valid-ttl by no more than the time since the last pass.
InTime ==
    \A k \in live : sess[k].state = "VALID" /\ k \notin pending => sess[k].state_age < VALID_TTL + upd_age

\* ons_time is not before the last probe of a STALE session.
Stamped == \A k \in live : sess[k].state = "STALE" => sess[k].ons_age <= probed[k]

Counted == count = Cardinality(live) /\ count <= ND_SESSION_MAX

\* Everything but the last step's output.
StateInv == TypeOK /\ SessionsOK /\ DeadBlank /\ Vouched /\ InTime /\ Stamped /\ RefsExact

IInv == StateInv /\ Counted /\ FreshReply

\* The initial state satisfies the invariant.
LEMMA InitInv == Init => IInv
<1> SUFFICES ASSUME Init PROVE IInv
  OBVIOUS
<1> USE DEF Init
<1>1. TypeOK
  <2>1. sess \in [Keys -> SessionRec]
    BY Zenon, BlankType
  <2>2. refs \in [Ifaces -> Nat] /\ up \in [Ifaces -> BOOLEAN]
    BY Zenon, ConfigAssumption
  <2>3. probed \in [Keys -> Age] /\ vouched \in [Keys -> Age]
    BY Zenon, AgeFacts
  <2>4. upd_age \in 0 .. PERIOD
    BY TimeAssumption
  <2> QED BY Zenon, <2>1, <2>2, <2>3, <2>4 DEF TypeOK
<1>2. SessionsOK /\ DeadBlank /\ Vouched /\ InTime /\ Stamped
  BY Zenon DEF SessionsOK, DeadBlank, Vouched, InTime, Stamped
<1>3. RefsExact
  <2>1. \A i \in Ifaces : SessionsOn(i) = {}
    BY Zenon DEF SessionsOn
  <2>2. Cardinality({}) = 0
    BY Zenon, FS_EmptySet
  <2>3. \A i \in Ifaces : refs[i] = BaseRefs[i] /\ BaseRefs[i] \in Nat
    BY Zenon, ConfigAssumption
  <2>4. \A i \in Ifaces : Cardinality(SessionsOn(i)) = 0
    BY Zenon, <2>1, <2>2
  <2>5. \A i \in Ifaces : refs[i] = BaseRefs[i] + Cardinality(SessionsOn(i))
    BY <2>3, <2>4
  <2> QED BY Zenon, <2>5 DEF RefsExact
<1>4. Counted
  BY FS_EmptySet, TimeAssumption DEF Counted
<1>5. FreshReply
  BY Zenon DEF FreshReply
<1> QED BY Zenon, <1>1, <1>2, <1>3, <1>4, <1>5 DEF IInv, StateInv

\* The table and the sessions of an interface are finite.
LEMMA LiveFinite ==
    ASSUME TypeOK, NEW i
    PROVE  IsFiniteSet(live) /\ IsFiniteSet(SessionsOn(i))
<1>1. live \subseteq Keys /\ SessionsOn(i) \subseteq Keys
  BY Zenon DEF TypeOK, SessionsOn
<1> QED BY Zenon, <1>1, FiniteAssumption, FS_Subset

\* Committing the outcome of an operation keeps the reference counts exact, whether
\* the session is in the table already or enters it with this step.
LEMMA CommitRefs ==
    ASSUME StateInv, NEW k \in Keys, NEW o, Commit(k, o), OutcomeOK(k, sess[k], o),
           live' = live \cup {k}
    PROVE  RefsExact'
<1> SUFFICES ASSUME NEW i \in Ifaces
             PROVE  refs'[i] = BaseRefs[i] + Cardinality(SessionsOn(i)')
  BY Zenon DEF RefsExact
<1>1. IsFiniteSet(SessionsOn(i)) /\ Cardinality(SessionsOn(i)) \in Nat
  BY Zenon, LiveFinite, FS_CardinalityType DEF StateInv
<1>2. refs[i] = BaseRefs[i] + Cardinality(SessionsOn(i)) /\ BaseRefs[i] \in Nat
  BY Zenon, ConfigAssumption DEF StateInv, RefsExact
<1>3. /\ sess \in [Keys -> SessionRec] /\ live \subseteq Keys
      /\ sess' = [sess EXCEPT ![k] = o.sess]
      /\ refs'[i] = IF i = o.open THEN refs[i] + 1 ELSE refs[i]
  BY Zenon DEF Commit, StateInv, TypeOK
<1>4. k \notin live => sess[k].iface = None
  BY DEF StateInv, DeadBlank, Blank
<1>5. i # None
  BY Zenon, NoneAssumption
<1>6. CASE i = o.open
  <2>1. sess[k].iface = None /\ o.sess.iface = i
    BY Zenon, <1>5, <1>6 DEF OutcomeOK
  <2>2. k \notin SessionsOn(i)
    BY Zenon, <2>1, <1>5 DEF SessionsOn
  <2>3. SessionsOn(i)' = SessionsOn(i) \cup {k}
    BY Zenon, <2>1, <1>3 DEF SessionsOn
  <2>4. Cardinality(SessionsOn(i)') = Cardinality(SessionsOn(i)) + 1
    BY Zenon, <2>2, <2>3, <1>1, FS_AddElement
  <2> QED BY <2>4, <1>1, <1>2, <1>3, <1>6
<1>7. CASE i # o.open
  <2>1. o.sess.iface = i <=> sess[k].iface = i
    BY Zenon, <1>5, <1>7 DEF OutcomeOK
  <2>2. SessionsOn(i)' = SessionsOn(i)
    BY Zenon, <2>1, <1>3, <1>4, <1>5 DEF SessionsOn
  <2> QED BY Zenon, <2>2, <1>2, <1>3, <1>7
<1> QED BY Zenon, <1>6, <1>7


\* The ages are numbers.
LEMMA TypeFacts ==
    ASSUME TypeOK
    PROVE  /\ upd_age \in Nat /\ upd_age <= PERIOD
           /\ \A j \in Keys : /\ sess[j] \in SessionRec
                             /\ sess[j].state_age \in Nat /\ sess[j].ons_age \in Nat
                             /\ vouched[j] \in Nat /\ probed[j] \in Nat
<1>1. upd_age \in Nat /\ upd_age <= PERIOD
  BY TimeAssumption DEF TypeOK
<1>2. ASSUME NEW j \in Keys
      PROVE  /\ sess[j] \in SessionRec
             /\ sess[j].state_age \in Nat /\ sess[j].ons_age \in Nat
             /\ vouched[j] \in Nat /\ probed[j] \in Nat
  <2>1. sess[j] \in SessionRec /\ vouched[j] \in Age /\ probed[j] \in Age
    BY Zenon DEF TypeOK
  <2>2. sess[j].state_age \in Age /\ sess[j].ons_age \in Age
    BY Zenon, <2>1 DEF SessionRec
  <2> QED BY Zenon, <2>1, <2>2, AgeFacts
<1> QED BY Zenon, <1>1, <1>2

\* Vouching gets no older when the target does not cease to be an own address and
\* its history does not grow.
LEMMA VouchStep ==
    ASSUME TypeOK, NEW j \in Keys, OwnAddress(j) => OwnAddress(j)',
           vouched' \in [Keys -> Age], vouched'[j] <= vouched[j]
    PROVE  VouchAge(j) \in Nat /\ VouchAge(j)' \in Nat /\ VouchAge(j)' <= VouchAge(j)
<1>1. vouched[j] \in Nat /\ vouched'[j] \in Nat
  BY Zenon, AgeFacts DEF TypeOK
<1>2. CASE OwnAddress(j)
  BY <1>1, <1>2 DEF VouchAge
<1>3. CASE ~OwnAddress(j)
  BY <1>1, <1>3 DEF VouchAge
<1> QED BY Zenon, <1>2, <1>3

\* That is so while no interface goes down and no address is removed.
LEMMA VouchMono ==
    ASSUME TypeOK, NEW j \in Keys, RuleOf[j] # None, local' = local, \A i \in Ifaces : up[i] => up'[i],
           vouched' \in [Keys -> Age], vouched'[j] <= vouched[j]
    PROVE  VouchAge(j) \in Nat /\ VouchAge(j)' \in Nat /\ VouchAge(j)' <= VouchAge(j)
<1>1. OwnAddress(j) => OwnAddress(j)'
  <2>1. RuleOf[j] \in Rule
    BY Zenon, ConfigAssumption
  <2> QED BY Zenon, <2>1 DEF OwnAddress, nd_rt_is_local_addr, Rule
<1> QED BY Zenon, <1>1, VouchStep

\* The common part of every step that commits the outcome of an operation on one
\* session: all of StateInv but the parts of TypeOK the caller sees to.
LEMMA CommitInv ==
    ASSUME StateInv, NEW k \in Keys, RuleOf[k] # None, NEW o, Commit(k, o),
           OutcomeOK(k, sess[k], o), ProbeStamped(sess[k], o), k \notin live => o.sess.state # "STALE",
           live' = live \cup {k}, local' = local, upd_age' = upd_age,
           pending' \in {pending, pending \ {k}},
           vouched' \in [Keys -> Age], \A j \in live : vouched'[j] <= vouched[j],
           o.sess.state = "VALID" /\ RuleOf[k].mode # "STATIC" => VouchAge(k)' <= o.sess.state_age,
           o.sess.state = "VALID" /\ k \notin pending' => o.sess.state_age < VALID_TTL + upd_age,
           ahead' \subseteq live' \X live', count' \in Nat, admin_up' \in [Ifaces -> BOOLEAN],
           route' = route
    PROVE  StateInv'
<1> USE DEF StateInv
<1>1. /\ sess' \in [Keys -> SessionRec]
      /\ sess' = [sess EXCEPT ![k] = o.sess]
      /\ sess'[k] = o.sess
      /\ \A j \in Keys \ {k} : sess'[j] = sess[j]
  BY Zenon DEF Commit, OutcomeOK, SessionOK, TypeOK
<1>2. up' \in [Ifaces -> BOOLEAN] /\ (\A i \in Ifaces : up[i] => up'[i])
  BY Zenon DEF Commit, UpOnceOpen, TypeOK
<1>3. /\ probed' \in [Keys -> Age]
      /\ \A j \in Keys \ {k} : probed'[j] = probed[j]
      /\ probed'[k] = IF \E m \in o.sent : m.type = "NS" THEN 0 ELSE probed[k]
  BY Zenon, AgeFacts DEF Commit, TypeOK
<1>4. refs' \in [Ifaces -> Nat]
  BY DEF Commit, TypeOK
<1>5. TypeOK'
  <2>1. live' \subseteq Keys /\ pending' \subseteq live'
    BY Zenon DEF TypeOK
  <2>2. route' \in [Addrs \X Tables -> Ifaces \cup {None}] /\ local' \subseteq Ifaces \X Addrs /\ upd_age' \in 0 .. PERIOD
    BY Zenon DEF TypeOK
  <2> QED BY Zenon, <1>1, <1>2, <1>3, <1>4, <2>1, <2>2 DEF TypeOK
<1>6. SessionsOK'
  BY Zenon, <1>1 DEF SessionsOK, OutcomeOK, TypeOK
<1>7. DeadBlank'
  BY Zenon, <1>1 DEF DeadBlank
<1>8. Vouched'
  <2> SUFFICES ASSUME NEW j \in live', sess'[j].state = "VALID", RuleOf[j].mode # "STATIC"
               PROVE  VouchAge(j)' <= sess'[j].state_age
    BY Zenon DEF Vouched
  <2>1. CASE j = k
    BY Zenon, <2>1, <1>1
  <2>2. CASE j # k
    <3>1. j \in live /\ j \in Keys /\ sess'[j] = sess[j]
      BY Zenon, <2>2, <1>1 DEF TypeOK
    <3>2. VouchAge(j) <= sess[j].state_age
      BY Zenon, <3>1 DEF Vouched
    <3>3. RuleOf[j] # None
      BY Zenon, <3>1 DEF SessionsOK
    <3>4. VouchAge(j) \in Nat /\ VouchAge(j)' \in Nat /\ VouchAge(j)' <= VouchAge(j)
      BY Zenon, <3>1, <3>3, <1>2, VouchMono
    <3>5. sess[j].state_age \in Nat
      BY Zenon, <3>1, AgeFacts DEF TypeOK, SessionRec
    <3> QED BY <3>1, <3>2, <3>4, <3>5
  <2> QED BY Zenon, <2>1, <2>2
<1>9. InTime'
  BY Zenon, <1>1 DEF InTime, TypeOK
<1>10. Stamped'
  <2> SUFFICES ASSUME NEW j \in live', sess'[j].state = "STALE"
               PROVE  sess'[j].ons_age <= probed'[j]
    BY Zenon DEF Stamped
  <2>1. CASE j # k
    BY Zenon, <2>1, <1>1, <1>3 DEF Stamped, TypeOK
  <2>2. CASE j = k /\ o.sess.ons_age = 0
    <3>1. probed'[k] \in Nat
      BY Zenon, <1>3, AgeFacts
    <3> QED BY <2>2, <3>1, <1>1
  <2>3. CASE j = k /\ o.sess.ons_age # 0
    <3>1. /\ sess[k].state = "STALE" /\ o.sess.ons_age = sess[k].ons_age
          /\ \A m \in o.sent : m.type # "NS"
      BY Zenon, <2>3, <1>1 DEF ProbeStamped
    <3>2. k \in live /\ probed'[k] = probed[k]
      BY Zenon, <3>1, <2>3, <1>1, <1>3
    <3> QED BY Zenon, <3>1, <3>2, <2>3, <1>1 DEF Stamped
  <2> QED BY Zenon, <2>1, <2>2, <2>3
<1>11. RefsExact'
  BY Zenon, CommitRefs
<1> QED BY Zenon, <1>5, <1>6, <1>7, <1>8, <1>9, <1>10, <1>11

----------------------------------------------------------------------------
(* One lemma per action.                                                   *)

\* Counting a session that enters the table.
LEMMA CountNew ==
    ASSUME TypeOK, Counted, NEW k \in Keys, k \notin live, count < ND_SESSION_MAX,
           live' = live \cup {k}, count' = count + 1
    PROVE  Counted'
<1>1. Cardinality(live \cup {k}) = Cardinality(live) + 1 /\ Cardinality(live) \in Nat
  BY Zenon, LiveFinite, FS_AddElement, FS_CardinalityType
<1> QED BY <1>1, TimeAssumption DEF Counted

\* A solicitation, for an old or a new session or for none, keeps the invariant.
LEMMA HandleNsInv ==
    ASSUME IInv, NEW p \in Proxies, NEW tgt \in Addrs, NEW h \in Hosts \cup {None},
           nd_proxy_handle_ns(p, tgt, h)
    PROVE  IInv'
<1> DEFINE k == <<p, tgt>>
<1>1. k \in Keys
  BY Zenon DEF Keys
<1> HIDE DEF k
<1>2. /\ StateInv /\ Counted /\ TypeOK /\ pending = {}
      /\ UNCHANGED <<admin_up, route, local, upd_age, pending, vouched>>
      /\ admin_up' \in [Ifaces -> BOOLEAN] /\ vouched' \in [Keys -> Age]
      /\ \A j \in live : vouched'[j] <= vouched[j]
  <2>1. \A j \in Keys : vouched[j] \in Nat
    BY Zenon, AgeFacts DEF IInv, StateInv, TypeOK
  <2> QED BY <2>1 DEF IInv, StateInv, TypeOK, nd_proxy_handle_ns
<1>3. CASE NsExisting(k, h)
  <2>1. PICK opens \in BOOLEAN : Commit(k, nd_session_handle_ns(k, sess[k], h, opens))
    BY Zenon, <1>3 DEF NsExisting
  <2> DEFINE o == nd_session_handle_ns(k, sess[k], h, opens)
  <2>2. k \in live /\ UNCHANGED <<live, ahead, count>>
    BY Zenon, <1>3 DEF NsExisting
  <2>3. RuleOf[k] # None /\ SessionOK(k, sess[k])
    BY Zenon, <1>2, <2>2 DEF StateInv, SessionsOK
  <2>4. /\ OutcomeOK(k, sess[k], o)
        /\ ProbeStamped(sess[k], o)
        /\ o.sess.state = "VALID" <=> sess[k].state = "VALID"
        /\ o.sess.state = "VALID" => o.sess.state_age = sess[k].state_age /\ o.open = None
    BY Zenon, <1>1, <1>2, <2>3, HandleNsOK
  <2> HIDE DEF o
  <2>5. \A i \in Ifaces : up[i] => up'[i]
    BY Zenon, <2>1 DEF Commit, UpOnceOpen, o
  <2>6. VouchAge(k) \in Nat /\ VouchAge(k)' \in Nat /\ VouchAge(k)' <= VouchAge(k)
    BY Zenon, <1>1, <1>2, <2>2, <2>3, <2>5, VouchMono
  <2>7. sess[k].state_age \in Nat /\ upd_age \in Nat /\ upd_age <= PERIOD
    BY Zenon, <1>1, <1>2, TypeFacts
  <2>8. o.sess.state = "VALID" /\ RuleOf[k].mode # "STATIC" => VouchAge(k)' <= o.sess.state_age
    BY <2>2, <2>4, <2>6, <2>7, <1>2 DEF StateInv, Vouched
  <2>9. o.sess.state = "VALID" => o.sess.state_age < VALID_TTL + upd_age
    BY Zenon, <2>2, <2>4, <1>2 DEF StateInv, InTime
  <2>10. Commit(k, o) /\ live' = live \cup {k} /\ ahead' \subseteq live' \X live' /\ count' \in Nat
    BY Zenon, <2>1, <2>2, <1>2 DEF o, TypeOK
  <2>11. StateInv'
    BY Zenon, <1>1, <1>2, <2>2, <2>3, <2>4, <2>8, <2>9, <2>10, CommitInv
  <2>12. Counted'
    BY Zenon, <1>2, <2>2 DEF Counted
  <2>13. FreshReply'
    <3> SUFFICES ASSUME NEW m \in sent', m.type = "NA", RuleOf[m.key].mode # "STATIC"
                 PROVE  VouchAge(m.key)' < VALID_TTL + PERIOD
      BY Zenon DEF FreshReply
    <3>1. m.key = k /\ o.sess.state = "VALID"
      BY Zenon, <2>4, <2>10 DEF OutcomeOK, Commit
    <3> QED BY <3>1, <2>4, <2>6, <2>7, <2>8, <2>9, TimeAssumption
  <2> QED BY Zenon, <2>11, <2>12, <2>13 DEF IInv
<1>4. CASE NsNew(k, h)
  <2>1. PICK first \in BOOLEAN, second \in BOOLEAN :
           LET c == nd_session_create(k, first)
               o == nd_session_handle_ns(k, c.sess, h, second)
           IN  Commit(k, Outcome(o.sess, c.sent \cup o.sent, IF c.open # None THEN c.open ELSE o.open))
    BY Zenon, <1>4 DEF NsNew, Link, RoomForSession
  <2> DEFINE c == nd_session_create(k, first)
             n == nd_session_handle_ns(k, c.sess, h, second)
             o == Outcome(n.sess, c.sent \cup n.sent, IF c.open # None THEN c.open ELSE n.open)
  <2>2. k \notin live /\ RuleOf[k] # None /\ count < ND_SESSION_MAX
    BY Zenon, <1>4 DEF NsNew, Link, RoomForSession
  <2>3. live' = live \cup {k} /\ ahead' = ahead \cup ({k} \X live) /\ count' = count + 1
    BY Zenon, <1>4 DEF NsNew, Link, RoomForSession
  <2>4. sess[k] = Blank
    BY Zenon, <1>1, <1>2, <2>2 DEF StateInv, DeadBlank
  <2>5. /\ OutcomeOK(k, Blank, c)
        /\ c.sess.state # "STALE"
        /\ c.sess.state = "VALID" => c.sess.state_age = 0 /\ (RuleOf[k].mode = "STATIC" \/ OwnAddress(k))
        /\ \A m \in c.sent : m.type = "NS"
    BY Zenon, <1>1, <1>2, <2>2, CreateOK
  <2>6. SessionOK(k, c.sess)
    BY Zenon, <2>5 DEF OutcomeOK
  <2>7. /\ OutcomeOK(k, c.sess, n)
        /\ ProbeStamped(c.sess, n)
        /\ n.sess.state = "VALID" <=> c.sess.state = "VALID"
        /\ n.sess.state = "VALID" => n.sess.state_age = c.sess.state_age
    <3> HIDE DEF c
    <3> QED BY <1>1, <1>2, <2>2, <2>6, HandleNsOK
  <2> HIDE DEF c, n
  <2>8. o.sess = n.sess /\ o.sent = c.sent \cup n.sent /\ o.open = IF c.open # None THEN c.open ELSE n.open
    BY Zenon DEF Outcome
  <2> HIDE DEF o
  <2>9. Blank.iface = None
    BY Zenon DEF Blank
  <2>10. OutcomeOK(k, sess[k], o)
    <3>1. o.open \in Ifaces \cup {None}
      BY Zenon, <2>5, <2>7, <2>8 DEF OutcomeOK
    <3>2. o.sess.iface = IF o.open # None THEN o.open ELSE Blank.iface
      BY Zenon, <2>5, <2>7, <2>8, <2>9 DEF OutcomeOK
    <3>3. \A m \in o.sent : m.key = k /\ (m.type = "NA" => o.sess.state = "VALID")
      BY Zenon, <2>5, <2>7, <2>8 DEF OutcomeOK
    <3> QED BY Zenon, <3>1, <3>2, <3>3, <2>4, <2>7, <2>8, <2>9 DEF OutcomeOK
  <2>11. o.sess.state # "STALE" \/ o.sess.ons_age = 0
    BY Zenon, <2>5, <2>7, <2>8 DEF ProbeStamped
  <2>12. o.sess.state # "STALE"
    BY Zenon, <1>1, <2>2, <2>5, <2>6, <2>8 DEF n, nd_session_handle_ns, Outcome, StartProbing, SessionOK, SessionRec
  <2>13. ProbeStamped(sess[k], o)
    BY Zenon, <2>12 DEF ProbeStamped
  <2>14. Commit(k, o)
    BY Zenon, <2>1 DEF o, n, c
  <2>15. \A i \in Ifaces : up[i] => up'[i]
    BY Zenon, <2>14 DEF Commit, UpOnceOpen
  <2>16. VouchAge(k) \in Nat /\ VouchAge(k)' \in Nat /\ VouchAge(k)' <= VouchAge(k)
    <3>1. vouched'[k] <= vouched[k]
      BY <1>1, <1>2, TypeFacts
    <3> QED BY Zenon, <1>1, <1>2, <2>2, <2>15, <3>1, VouchMono
  <2>17. o.sess.state = "VALID" => o.sess.state_age = 0
    BY Zenon, <2>5, <2>7, <2>8
  <2>18. o.sess.state = "VALID" /\ RuleOf[k].mode # "STATIC" => VouchAge(k)' = 0
    <3>1. OwnAddress(k) => VouchAge(k) = 0
      BY Zenon DEF VouchAge
    <3> QED BY <2>5, <2>7, <2>8, <2>16, <3>1
  <2>19. upd_age \in Nat /\ VALID_TTL + upd_age > 0 /\ VALID_TTL + PERIOD > 0
    BY <1>2, TimeAssumption DEF TypeOK
  <2>20. ahead' \subseteq live' \X live' /\ count' \in Nat
    BY <1>2, <2>3 DEF TypeOK
  <2>21. /\ o.sess.state = "VALID" /\ RuleOf[k].mode # "STATIC" => VouchAge(k)' <= o.sess.state_age
         /\ o.sess.state = "VALID" => o.sess.state_age < VALID_TTL + upd_age
    BY <2>17, <2>18, <2>19
  <2>22. StateInv'
    BY Zenon, <1>1, <1>2, <2>2, <2>3, <2>10, <2>12, <2>13, <2>14, <2>20, <2>21, CommitInv
  <2>23. Counted'
    BY Zenon, <1>1, <1>2, <2>2, <2>3, CountNew
  <2>24. FreshReply'
    <3> SUFFICES ASSUME NEW m \in sent', m.type = "NA", RuleOf[m.key].mode # "STATIC"
                 PROVE  VouchAge(m.key)' < VALID_TTL + PERIOD
      BY Zenon DEF FreshReply
    <3>1. m.key = k /\ o.sess.state = "VALID"
      BY Zenon, <2>10, <2>14 DEF OutcomeOK, Commit
    <3> QED BY Zenon, <3>1, <2>18, <2>19
  <2> QED BY Zenon, <2>22, <2>23, <2>24 DEF IInv
<1>5. CASE NsDropped(k)
  <2>1. UNCHANGED <<sess, live, ahead, count, up, refs, probed>> /\ sent' = {}
    BY Zenon, <1>5 DEF NsDropped
  <2>2. StateInv' /\ Counted'
    BY Zenon, <1>2, <2>1 DEF StateInv, TypeOK, SessionsOK, DeadBlank, Vouched, InTime, Stamped, RefsExact,
          SessionsOn, Counted, VouchAge, OwnAddress, nd_rt_is_local_addr
  <2> QED BY Zenon, <2>1, <2>2 DEF IInv, FreshReply
<1> QED BY Zenon, <1>3, <1>4, <1>5 DEF nd_proxy_handle_ns, k


\* An advertisement keeps the invariant.
LEMMA HandleNaInv ==
    ASSUME IInv, NEW i \in Ifaces, NEW a \in Addrs, ndL_handle_na(i, a)
    PROVE  IInv'
<1>1. /\ StateInv /\ Counted /\ TypeOK /\ pending = {}
      /\ UNCHANGED <<live, ahead, count, admin_up, route, local, upd_age, pending>>
      /\ vouched' = [j \in Keys |-> IF j \in Candidates(i, a) THEN 0 ELSE vouched[j]]
  BY Zenon DEF IInv, StateInv, ndL_handle_na
<1>2. vouched' \in [Keys -> Age] /\ \A j \in live : vouched'[j] <= vouched[j]
  <2>1. \A j \in Keys : vouched[j] \in Nat /\ vouched[j] \in Age
    BY Zenon, <1>1, TypeFacts DEF TypeOK
  <2> QED BY <1>1, <2>1, AgeFacts DEF TypeOK
<1>3. Counted'
  BY Zenon, <1>1 DEF Counted
<1>4. CASE Candidates(i, a) = {}
  <2>1. sent' = {} /\ UNCHANGED <<sess, up, refs, probed>>
    BY Zenon, <1>4 DEF ndL_handle_na
  <2>2. vouched' = vouched
    BY Zenon, <1>1, <1>4 DEF TypeOK
  <2>3. StateInv'
    BY Zenon, <1>1, <2>1, <2>2 DEF StateInv, TypeOK, SessionsOK, DeadBlank, Vouched, InTime, Stamped, RefsExact,
          SessionsOn, VouchAge, OwnAddress, nd_rt_is_local_addr
  <2> QED BY Zenon, <2>1, <2>3, <1>3 DEF IInv, FreshReply
<1>5. CASE Candidates(i, a) # {}
  <2>1. PICK k \in nd_session_find_r(i, a) : Commit(k, nd_session_handle_na(k, sess[k]))
    BY Zenon, <1>5 DEF ndL_handle_na
  <2> DEFINE o == nd_session_handle_na(k, sess[k])
  <2>2. k \in live /\ k \in Keys /\ k \in Candidates(i, a) /\ sess[k].iface = i
    BY Zenon, <1>1 DEF nd_session_find_r, Candidates, TypeOK
  <2>3. RuleOf[k] # None /\ SessionOK(k, sess[k])
    BY Zenon, <1>1, <2>2 DEF StateInv, SessionsOK
  <2>4. /\ OutcomeOK(k, sess[k], o) /\ o.open = None
        /\ o.sess.state = "VALID" /\ o.sess.state_age = 0
    BY Zenon, <1>1, <2>2, <2>3, HandleNaOK
  <2>5. Commit(k, o)
    BY Zenon, <2>1
  <2> HIDE DEF o
  <2>6. VouchAge(k)' = 0
    BY Zenon, <1>1, <2>2 DEF VouchAge
  <2>7. upd_age \in Nat /\ VALID_TTL + upd_age > 0 /\ VALID_TTL + PERIOD > 0
    BY <1>1, TypeFacts, TimeAssumption
  <2>8. ProbeStamped(sess[k], o)
    BY Zenon, <2>4 DEF ProbeStamped
  <2>9. live' = live \cup {k} /\ ahead' \subseteq live' \X live' /\ count' \in Nat /\ admin_up' \in [Ifaces -> BOOLEAN]
    BY Zenon, <1>1, <2>2 DEF TypeOK
  <2>10. StateInv'
    <3>1. /\ k \notin live => o.sess.state # "STALE"
          /\ local' = local /\ upd_age' = upd_age /\ route' = route
          /\ pending' \in {pending, pending \ {k}}
      BY Zenon, <1>1, <2>2
    <3>2. /\ VouchAge(k)' <= o.sess.state_age
          /\ o.sess.state_age < VALID_TTL + upd_age
      BY <2>4, <2>6, <2>7
    <3> QED BY Zenon, <1>1, <1>2, <2>2, <2>3, <2>4, <2>5, <2>8, <2>9, <3>1, <3>2, CommitInv
  <2>11. FreshReply'
    BY Zenon, <2>4, <2>5, <2>6, <2>7 DEF FreshReply, OutcomeOK, Commit
  <2> QED BY Zenon, <2>10, <2>11, <1>3 DEF IInv
<1> QED BY Zenon, <1>4, <1>5

----------------------------------------------------------------------------
(* nd_session_update, whether it keeps the session or deletes it.          *)

\* A visit of nd_session_update that keeps the session.
LEMMA KeepInv ==
    ASSUME IInv, NEW k \in pending, pending' = pending \ {k}, KeepSession(k),
           UNCHANGED <<route, local, upd_age>>
    PROVE  IInv'
<1> DEFINE s == sess[k]
           o == CASE s.state = "INCOMPLETE" -> UpdateIncomplete(k, s)
                  [] s.state = "VALID" -> UpdateValid(k, s)
                  [] s.state = "STALE" -> UpdateStale(k, s)
                  [] s.state = "INVALID" -> Outcome(s, {}, None)
<1>1. StateInv /\ Counted /\ TypeOK
  BY Zenon DEF IInv, StateInv
<1>2. k \in live /\ k \in Keys
  BY Zenon, <1>1 DEF TypeOK
<1>3. RuleOf[k] # None /\ SessionOK(k, s) /\ s.state \in States
  BY Zenon, <1>1, <1>2 DEF StateInv, SessionsOK, SessionOK, SessionRec
<1>4. Commit(k, o) /\ UNCHANGED <<live, ahead, count, admin_up, vouched>>
  BY Zenon DEF KeepSession
<1>5. UpdateOK(k, s, o)
  <2>1. CASE s.state = "INCOMPLETE"
    BY Zenon, <2>1, <1>2, <1>3, UpdateIncompleteOK
  <2>2. CASE s.state = "VALID"
    BY Zenon, <2>2, <1>2, <1>3, UpdateValidOK
  <2>3. CASE s.state = "STALE"
    BY Zenon, <2>3, <1>2, <1>3, UpdateStaleOK
  <2>4. CASE s.state = "INVALID"
    <3>1. o = Outcome(s, {}, None)
      BY Zenon, <2>4
    <3> HIDE DEF o
    <3>2. o.sess = s /\ o.sent = {} /\ o.open = None
      BY Zenon, <3>1 DEF Outcome
    <3> QED BY Zenon, <3>2, <2>4, <1>3 DEF UpdateOK, OutcomeOK, ProbeStamped
  <2> QED BY Zenon, <2>1, <2>2, <2>3, <2>4, <1>3 DEF States
<1> HIDE DEF o
<1>6. vouched' \in [Keys -> Age] /\ (\A j \in live : vouched'[j] <= vouched[j]) /\ vouched'[k] <= vouched[k]
  <2>1. \A j \in Keys : vouched[j] \in Nat
    BY Zenon, <1>1, TypeFacts
  <2> QED BY <2>1, <1>1, <1>2, <1>4 DEF TypeOK
<1>7. \A i \in Ifaces : up[i] => up'[i]
  BY Zenon, <1>4 DEF Commit, UpOnceOpen
<1>8. VouchAge(k) \in Nat /\ VouchAge(k)' \in Nat /\ VouchAge(k)' <= VouchAge(k)
  BY Zenon, <1>1, <1>2, <1>3, <1>6, <1>7, VouchMono
<1>9. s.state_age \in Nat /\ upd_age \in Nat
  BY Zenon, <1>1, <1>2, TypeFacts
<1>10. o.sess.state = "VALID" /\ RuleOf[k].mode # "STATIC" => VouchAge(k)' <= o.sess.state_age
  <2> SUFFICES ASSUME o.sess.state = "VALID", RuleOf[k].mode # "STATIC"
               PROVE  VouchAge(k)' <= o.sess.state_age
    OBVIOUS
  <2>1. CASE s.state = "VALID" /\ o.sess.state_age = s.state_age
    <3>1. VouchAge(k) <= s.state_age
      BY Zenon, <2>1, <1>1, <1>2 DEF StateInv, Vouched
    <3> QED BY <2>1, <3>1, <1>8, <1>9
  <2>2. CASE o.sess.state_age = 0 /\ OwnAddress(k)
    <3>1. VouchAge(k) = 0
      BY Zenon, <2>2 DEF VouchAge
    <3> QED BY Zenon, <2>2, <3>1, <1>8
  <2> QED BY Zenon, <2>1, <2>2, <1>5 DEF UpdateOK
<1>11. o.sess.state = "VALID" => o.sess.state_age < VALID_TTL + upd_age
  BY <1>5, <1>9, TimeAssumption DEF UpdateOK
<1>12. /\ live' = live \cup {k} /\ ahead' \subseteq live' \X live' /\ count' \in Nat
       /\ admin_up' \in [Ifaces -> BOOLEAN]
  BY Zenon, <1>1, <1>2, <1>4 DEF TypeOK
<1>13. StateInv'
  <2>1. OutcomeOK(k, sess[k], o) /\ ProbeStamped(sess[k], o)
    BY Zenon, <1>5 DEF UpdateOK
  <2> QED BY Zenon, <2>1, <1>1, <1>2, <1>3, <1>4, <1>6, <1>10, <1>11, <1>12, CommitInv
<1>14. Counted'
  BY Zenon, <1>1, <1>4 DEF Counted
<1>15. FreshReply'
  BY Zenon, <1>4, <1>5 DEF FreshReply, UpdateOK, Commit
<1> QED BY Zenon, <1>13, <1>14, <1>15 DEF IInv


\* A visit of nd_session_update that deletes the session.
LEMMA DeleteInv ==
    ASSUME IInv, NEW k \in pending, pending' = pending \ {k}, sess[k].state = "INVALID",
           DeleteSession(k), UNCHANGED <<route, local, upd_age>>
    PROVE  IInv'
<1> DEFINE s == sess[k]
           freed == s.iface # None /\ refs[s.iface] = 1
<1>1. StateInv /\ Counted /\ TypeOK
  BY Zenon DEF IInv, StateInv
<1>2. k \in live /\ k \in Keys /\ s \in SessionRec
  BY Zenon, <1>1 DEF TypeOK
<1>3. /\ sess' = [sess EXCEPT ![k] = Blank]
      /\ live' = live \ {k}
      /\ ahead' = {e \in ahead : k \notin {e[1], e[2]}}
      /\ count' = count - 1
      /\ refs' = [i \in Ifaces |-> IF i = s.iface THEN refs[i] - 1 ELSE refs[i]]
      /\ up' = [i \in Ifaces |-> IF i = s.iface /\ freed THEN FALSE ELSE up[i]]
      /\ admin_up' = [i \in Ifaces |-> IF i = s.iface /\ freed THEN FALSE ELSE admin_up[i]]
      /\ probed' = [probed EXCEPT ![k] = AGE_CAP]
      /\ vouched' = [vouched EXCEPT ![k] = AGE_CAP]
      /\ sent' = IF s.iface # None /\ s.autowired THEN {DelRoute(k)} ELSE {}
  BY Zenon DEF DeleteSession, ndL_down
<1>4. /\ \A j \in live' : j \in live /\ j # k /\ j \in Keys /\ sess'[j] = sess[j]
                          /\ vouched'[j] = vouched[j] /\ probed'[j] = probed[j]
  BY Zenon, <1>1, <1>3 DEF TypeOK
<1>5. ASSUME NEW i \in Ifaces
      PROVE  /\ refs'[i] = BaseRefs[i] + Cardinality(SessionsOn(i)')
             /\ refs'[i] \in Nat
             /\ i = s.iface => refs[i] > BaseRefs[i]
  <2>1. IsFiniteSet(SessionsOn(i)) /\ Cardinality(SessionsOn(i)) \in Nat
    BY Zenon, <1>1, LiveFinite, FS_CardinalityType
  <2>2. refs[i] = BaseRefs[i] + Cardinality(SessionsOn(i)) /\ BaseRefs[i] \in Nat
    BY Zenon, <1>1, ConfigAssumption DEF StateInv, RefsExact
  <2>3. CASE i = s.iface
    <3>1. k \in SessionsOn(i)
      BY Zenon, <2>3, <1>2 DEF SessionsOn
    <3>2. SessionsOn(i)' = SessionsOn(i) \ {k}
      BY Zenon, <1>3, <1>4 DEF SessionsOn
    <3>3. Cardinality(SessionsOn(i)') = Cardinality(SessionsOn(i)) - 1
      BY Zenon, <2>1, <3>1, <3>2, FS_RemoveElement
    <3>4. Cardinality(SessionsOn(i)') \in Nat
      BY Zenon, <2>1, <3>2, FS_RemoveElement, FS_CardinalityType
    <3>5. refs'[i] = refs[i] - 1
      BY Zenon, <2>3, <1>3
    <3> QED BY <2>1, <2>2, <3>3, <3>4, <3>5
  <2>4. CASE i # s.iface
    <3>1. SessionsOn(i)' = SessionsOn(i)
      BY Zenon, <2>4, <1>3, <1>4 DEF SessionsOn
    <3>2. refs'[i] = refs[i]
      BY Zenon, <2>4, <1>3
    <3> QED BY <2>1, <2>2, <2>4, <3>1, <3>2
  <2> QED BY Zenon, <2>3, <2>4
<1>6. TypeOK'
  <2>1. sess' \in [Keys -> SessionRec]
    BY Zenon, <1>1, <1>3, BlankType DEF TypeOK
  <2>2. live' \subseteq Keys /\ pending' \subseteq live'
    BY Zenon, <1>1, <1>3 DEF TypeOK
  <2>3. ahead' \subseteq live' \X live'
    BY Zenon, <1>1, <1>3 DEF TypeOK
  <2>4. count' \in Nat
    <3>1. Cardinality(live) \in Nat /\ Cardinality(live) # 0
      BY Zenon, <1>1, <1>2, LiveFinite, FS_CardinalityType, FS_EmptySet
    <3>2. count' = count - 1 /\ count = Cardinality(live)
      BY Zenon, <1>1, <1>3 DEF Counted
    <3> QED BY <3>1, <3>2
  <2>5. refs' \in [Ifaces -> Nat]
    BY Zenon, <1>3, <1>5
  <2>6. up' \in [Ifaces -> BOOLEAN] /\ admin_up' \in [Ifaces -> BOOLEAN]
    BY Zenon, <1>1, <1>3 DEF TypeOK
  <2>7. probed' \in [Keys -> Age] /\ vouched' \in [Keys -> Age]
    BY Zenon, <1>1, <1>3, AgeFacts DEF TypeOK
  <2>8. route' \in [Addrs \X Tables -> Ifaces \cup {None}] /\ local' \subseteq Ifaces \X Addrs /\ upd_age' \in 0 .. PERIOD
    BY Zenon, <1>1 DEF TypeOK
  <2> QED BY Zenon, <2>1, <2>2, <2>3, <2>4, <2>5, <2>6, <2>7, <2>8 DEF TypeOK
<1>7. SessionsOK' /\ InTime' /\ Stamped'
  <2>1. \A j \in live' : j \notin pending' => j \notin pending
    BY Zenon, <1>4
  <2> QED BY Zenon, <1>1, <1>4, <2>1 DEF StateInv, SessionsOK, InTime, Stamped
<1>8. DeadBlank'
  BY Zenon, <1>1, <1>2, <1>3 DEF StateInv, DeadBlank, TypeOK
<1>9. Vouched'
  <2> SUFFICES ASSUME NEW j \in live', sess'[j].state = "VALID", RuleOf[j].mode # "STATIC"
               PROVE  VouchAge(j)' <= sess'[j].state_age
    BY Zenon DEF Vouched
  <2>1. RuleOf[j] # None /\ RuleOf[j] \in Rule /\ VouchAge(j) <= sess[j].state_age
    BY Zenon, <1>1, <1>4, ConfigAssumption DEF StateInv, SessionsOK, Vouched
  <2>2. OwnAddress(j) => OwnAddress(j)'
    <3> SUFFICES ASSUME OwnAddress(j) PROVE OwnAddress(j)'
      OBVIOUS
    <3>1. RuleOf[j].iface \in Ifaces /\ up[RuleOf[j].iface] /\ BaseRefs[RuleOf[j].iface] > 0
      BY Zenon, <1>4, <2>1, ConfigAssumption DEF OwnAddress, Rule
    <3>2. RuleOf[j].iface = s.iface => ~freed
      BY <3>1, <1>5, ConfigAssumption
    <3>3. up'[RuleOf[j].iface]
      BY Zenon, <3>1, <3>2, <1>3
    <3> QED BY Zenon, <3>3 DEF OwnAddress, nd_rt_is_local_addr
  <2>3. vouched'[j] <= vouched[j] /\ vouched' \in [Keys -> Age] /\ sess[j].state_age \in Nat
    BY <1>1, <1>4, <1>6, TypeFacts DEF TypeOK
  <2>4. VouchAge(j) \in Nat /\ VouchAge(j)' \in Nat /\ VouchAge(j)' <= VouchAge(j)
    BY Zenon, <1>1, <1>4, <2>2, <2>3, VouchStep
  <2> QED BY <2>1, <2>3, <2>4, <1>4
<1>10. RefsExact'
  BY Zenon, <1>5 DEF RefsExact
<1>11. Counted'
  <2>1. Cardinality(live') = Cardinality(live) - 1 /\ Cardinality(live) \in Nat
    BY Zenon, <1>1, <1>2, <1>3, LiveFinite, FS_RemoveElement, FS_CardinalityType
  <2>2. count' = count - 1 /\ count = Cardinality(live) /\ count <= ND_SESSION_MAX
    BY Zenon, <1>1, <1>3 DEF Counted
  <2> QED BY <2>1, <2>2, TimeAssumption DEF Counted
<1>12. FreshReply'
  <2>1. \A m \in sent' : m = DelRoute(k)
    BY Zenon, <1>3
  <2>2. DelRoute(k).type # "NA"
    BY Zenon DEF DelRoute
  <2> QED BY Zenon, <2>1, <2>2 DEF FreshReply
<1> QED BY Zenon, <1>6, <1>7, <1>8, <1>9, <1>10, <1>11, <1>12 DEF IInv, StateInv

----------------------------------------------------------------------------
(* Time, interfaces, routes and addresses.                                 *)

\* Saturating addition is monotone and never exceeds the sum.
LEMMA SatFacts ==
    ASSUME NEW m \in Nat, NEW n \in Nat, NEW d \in Nat
    PROVE  /\ Sat(m + d) \in Age
           /\ Sat(m + d) <= m + d
           /\ m <= n => Sat(m + d) <= Sat(n + d)
BY TimeAssumption DEF Sat, Age

\* The passing of time: every session that may outlive valid-ttl is due for a visit.
LEMMA MainLoopInv ==
    ASSUME IInv, NEW d \in Steps, MainLoop(d)
    PROVE  IInv'
<1>1. StateInv /\ Counted /\ TypeOK /\ d \in Nat
  BY Zenon, TimeAssumption DEF IInv, StateInv
<1>2. /\ pending = {} /\ sent' = {}
      /\ sess' = [k \in Keys |-> IF k \in live THEN Older(sess[k], d) ELSE sess[k]]
      /\ probed' = [k \in Keys |-> Sat(probed[k] + d)]
      /\ vouched' = [k \in Keys |-> Sat(vouched[k] + d)]
      /\ UNCHANGED <<live, ahead, count, up, admin_up, refs, route, local>>
      /\ IF upd_age + d > PERIOD THEN pending' = live /\ upd_age' = 0
                                 ELSE pending' = pending /\ upd_age' = upd_age + d
  BY Zenon DEF MainLoop
<1>3. ASSUME NEW k \in Keys
      PROVE  LET s == sess[k]
                 t == Older(s, d)
             IN  /\ t \in SessionRec
                 /\ t.state = s.state /\ t.iface = s.iface /\ t.subs = s.subs /\ t.autowired = s.autowired
                 /\ t.state_age = Sat(s.state_age + d) /\ t.ons_age = Sat(s.ons_age + d)
                 /\ SessionOK(k, s) => SessionOK(k, t)
  <2> DEFINE s == sess[k]
             t == Older(s, d)
  <2>1. s \in SessionRec /\ s.state_age \in Nat /\ s.ons_age \in Nat /\ s.ins_age \in Nat
    <3>1. s \in SessionRec
      BY Zenon, <1>1 DEF TypeOK
    <3>2. s.state_age \in Age /\ s.ons_age \in Age /\ s.ins_age \in Age
      BY Zenon, <3>1 DEF SessionRec
    <3> QED BY Zenon, <3>1, <3>2, AgeFacts
  <2>2. Sat(s.state_age + d) \in Age /\ Sat(s.ons_age + d) \in Age /\ Sat(s.ins_age + d) \in Age
    BY Zenon, <1>1, <2>1, SatFacts
  <2>3. t = [s EXCEPT !.state_age = Sat(s.state_age + d), !.ons_age = Sat(s.ons_age + d), !.ins_age = Sat(s.ins_age + d)]
    BY Zenon DEF Older
  <2> HIDE DEF s, t
  <2>4. /\ t \in SessionRec
        /\ t.state = s.state /\ t.iface = s.iface /\ t.subs = s.subs /\ t.autowired = s.autowired
        /\ t.state_age = Sat(s.state_age + d) /\ t.ons_age = Sat(s.ons_age + d)
    BY Zenon, <2>1, <2>2, <2>3 DEF SessionRec
  <2>5. SessionOK(k, s) => SessionOK(k, t)
    BY Zenon, <2>4 DEF SessionOK
  <2> QED BY Zenon, <2>4, <2>5 DEF s, t
<1>4. \A k \in live : /\ k \in Keys /\ sess'[k] = Older(sess[k], d)
                      /\ probed'[k] = Sat(probed[k] + d) /\ vouched'[k] = Sat(vouched[k] + d)
  BY Zenon, <1>1, <1>2 DEF TypeOK
<1>5. TypeOK'
  <2>1. sess' \in [Keys -> SessionRec]
    BY Zenon, <1>1, <1>2, <1>3 DEF TypeOK
  <2>2. probed' \in [Keys -> Age] /\ vouched' \in [Keys -> Age]
    BY Zenon, <1>1, <1>2, TypeFacts, SatFacts
  <2>3. upd_age' \in 0 .. PERIOD
    BY <1>1, <1>2, TypeFacts, TimeAssumption
  <2>4. pending' \subseteq live'
    BY Zenon, <1>2
  <2> QED BY Zenon, <1>1, <1>2, <2>1, <2>2, <2>3, <2>4 DEF TypeOK
<1>6. SessionsOK' /\ DeadBlank'
  BY Zenon, <1>1, <1>2, <1>3, <1>4 DEF StateInv, SessionsOK, DeadBlank
<1>7. Vouched'
  <2> SUFFICES ASSUME NEW k \in live, sess'[k].state = "VALID", RuleOf[k].mode # "STATIC"
               PROVE  VouchAge(k)' <= sess'[k].state_age
    BY Zenon, <1>2 DEF Vouched
  <2>1. k \in Keys /\ sess[k].state = "VALID" /\ sess'[k].state_age = Sat(sess[k].state_age + d)
    BY Zenon, <1>3, <1>4
  <2>2. VouchAge(k) <= sess[k].state_age
    BY Zenon, <1>1, <2>1 DEF StateInv, Vouched
  <2>3. sess[k].state_age \in Nat /\ vouched[k] \in Nat
    BY Zenon, <1>1, <2>1, TypeFacts
  <2>4. OwnAddress(k)' <=> OwnAddress(k)
    BY Zenon, <1>2 DEF OwnAddress, nd_rt_is_local_addr
  <2>5. CASE OwnAddress(k)
    <3>1. VouchAge(k)' = 0
      BY Zenon, <2>4, <2>5 DEF VouchAge
    <3>2. Sat(sess[k].state_age + d) \in Nat
      BY Zenon, <1>1, <2>3, SatFacts, AgeFacts
    <3> QED BY <3>1, <3>2, <2>1
  <2>6. CASE ~OwnAddress(k)
    <3>1. VouchAge(k)' = Sat(vouched[k] + d) /\ VouchAge(k) = vouched[k]
      BY Zenon, <2>1, <2>4, <2>6, <1>4 DEF VouchAge
    <3> QED BY Zenon, <3>1, <2>1, <2>2, <2>3, <1>1, SatFacts
  <2> QED BY Zenon, <2>5, <2>6
<1>8. InTime'
  <2> SUFFICES ASSUME NEW k \in live, sess'[k].state = "VALID", k \notin pending'
               PROVE  sess'[k].state_age < VALID_TTL + upd_age'
    BY Zenon, <1>2 DEF InTime
  <2>1. k \in Keys /\ sess[k].state = "VALID" /\ sess'[k].state_age = Sat(sess[k].state_age + d)
    BY Zenon, <1>3, <1>4
  <2>2. upd_age' = upd_age + d
    BY Zenon, <1>2
  <2>3. sess[k].state_age < VALID_TTL + upd_age
    BY Zenon, <1>1, <1>2, <2>1 DEF StateInv, InTime
  <2>4. sess[k].state_age \in Nat /\ upd_age \in Nat
    BY Zenon, <1>1, <2>1, TypeFacts
  <2>5. Sat(sess[k].state_age + d) <= sess[k].state_age + d /\ Sat(sess[k].state_age + d) \in Nat
    BY Zenon, <1>1, <2>4, SatFacts, AgeFacts
  <2> QED BY <2>1, <2>2, <2>3, <2>4, <2>5, <1>1, TimeAssumption
<1>9. Stamped'
  <2> SUFFICES ASSUME NEW k \in live, sess'[k].state = "STALE"
               PROVE  sess'[k].ons_age <= probed'[k]
    BY Zenon, <1>2 DEF Stamped
  <2>1. k \in Keys /\ sess[k].state = "STALE" /\ sess'[k].ons_age = Sat(sess[k].ons_age + d)
    BY Zenon, <1>3, <1>4
  <2>2. sess[k].ons_age <= probed[k] /\ sess[k].ons_age \in Nat /\ probed[k] \in Nat
    BY Zenon, <1>1, <2>1, TypeFacts DEF StateInv, Stamped
  <2> QED BY Zenon, <2>1, <2>2, <1>1, <1>4, SatFacts
<1>10. RefsExact'
  <2>1. \A i \in Ifaces : SessionsOn(i)' = SessionsOn(i)
    BY Zenon, <1>2, <1>3, <1>4 DEF SessionsOn
  <2> QED BY Zenon, <1>1, <1>2, <2>1 DEF StateInv, RefsExact
<1>11. Counted' /\ FreshReply'
  BY Zenon, <1>1, <1>2 DEF Counted, FreshReply
<1> QED BY Zenon, <1>5, <1>6, <1>7, <1>8, <1>9, <1>10, <1>11 DEF IInv, StateInv

\* A step that changes nothing of the sessions but their autowired flags.
AutowireOnly(old, new) ==
    /\ new \in [Keys -> SessionRec]
    /\ \A k \in Keys :
          /\ new[k].state = old[k].state /\ new[k].iface = old[k].iface /\ new[k].subs = old[k].subs
          /\ new[k].state_age = old[k].state_age /\ new[k].ons_age = old[k].ons_age
          /\ new[k].autowired => old[k].autowired \/ old[k].iface # None
          /\ k \notin live => new[k] = old[k]

\* AutowireOnly is reflexive.
LEMMA AutowireOnlyRefl ==
    ASSUME NEW t \in [Keys -> SessionRec] PROVE AutowireOnly(t, t)
BY Zenon DEF AutowireOnly

\* AutowireOnly is transitive.
LEMMA AutowireOnlyTrans ==
    ASSUME NEW t, NEW u, NEW v, AutowireOnly(t, u), AutowireOnly(u, v)
    PROVE  AutowireOnly(t, v)
BY DEF AutowireOnly

\* nd_session_iface_changed touches only those flags.
LEMMA IfaceChangedOK ==
    ASSUME NEW t \in [Keys -> SessionRec], NEW i \in Ifaces, NEW isup \in BOOLEAN
    PROVE  AutowireOnly(t, nd_session_iface_changed(t, i, isup))
<1> DEFINE u == nd_session_iface_changed(t, i, isup)
           w(k) == isup /\ (t[k].autowired \/ (t[k].state = "VALID" /\ Wires(k, t[k], TRUE)))
<1>1. u = [k \in Keys |-> IF k \in live /\ t[k].iface = i THEN [t[k] EXCEPT !.autowired = w(k)] ELSE t[k]]
  BY Zenon DEF nd_session_iface_changed
<1>2. ASSUME NEW k \in Keys, k \in live, t[k].iface = i
      PROVE  /\ u[k] \in SessionRec
             /\ u[k].state = t[k].state /\ u[k].iface = t[k].iface /\ u[k].subs = t[k].subs
             /\ u[k].state_age = t[k].state_age /\ u[k].ons_age = t[k].ons_age
             /\ t[k].iface # None
  <2>1. u[k] = [t[k] EXCEPT !.autowired = w(k)] /\ t[k] \in SessionRec /\ w(k) \in BOOLEAN
    BY Zenon, <1>1, <1>2
  <2> HIDE DEF u, w
  <2> QED BY Zenon, <2>1, <1>2, NoneAssumption DEF SessionRec
<1>3. \A k \in Keys : ~(k \in live /\ t[k].iface = i) => u[k] = t[k]
  BY Zenon, <1>1
<1>4. u \in [Keys -> SessionRec]
  <2>1. \A k \in Keys : u[k] \in SessionRec
    BY Zenon, <1>2, <1>3
  <2> QED BY Zenon, <1>1, <2>1
<1> HIDE DEF u
<1> QED BY Zenon, <1>2, <1>3, <1>4 DEF AutowireOnly, u


\* The common part of the steps of the environment: interfaces, routes, addresses.
LEMMA EnvInv ==
    ASSUME IInv, AutowireOnly(sess, sess'),
           UNCHANGED <<live, ahead, count, refs, upd_age, pending, probed>>,
           up' \in [Ifaces -> BOOLEAN], admin_up' \in [Ifaces -> BOOLEAN],
           route' \in [Addrs \X Tables -> Ifaces \cup {None}], local' \subseteq Ifaces \X Addrs,
           vouched' \in [Keys -> Age],
           \A j \in live : VouchAge(j)' = 0 \/ VouchAge(j)' = VouchAge(j),
           \A m \in sent' : m.type # "NA"
    PROVE  IInv'
<1>1. StateInv /\ Counted /\ TypeOK
  BY Zenon DEF IInv, StateInv
<1>2. TypeOK'
  BY Zenon, <1>1 DEF TypeOK, AutowireOnly
<1>3. SessionsOK'
  <2>1. ASSUME NEW k \in live PROVE SessionOK(k, sess'[k])
    <3>1. k \in Keys /\ SessionOK(k, sess[k])
      BY Zenon, <1>1 DEF StateInv, SessionsOK, TypeOK
    <3> QED BY Zenon, <3>1 DEF AutowireOnly, SessionOK
  <2> QED BY Zenon, <2>1, <1>1 DEF StateInv, SessionsOK
<1>4. DeadBlank'
  BY Zenon, <1>1 DEF StateInv, DeadBlank, AutowireOnly
<1>5. Vouched'
  <2> SUFFICES ASSUME NEW k \in live, sess'[k].state = "VALID", RuleOf[k].mode # "STATIC"
               PROVE  VouchAge(k)' <= sess'[k].state_age
    BY Zenon DEF Vouched
  <2>1. k \in Keys /\ sess[k].state = "VALID" /\ sess'[k].state_age = sess[k].state_age
    BY Zenon, <1>1 DEF TypeOK, AutowireOnly
  <2>2. VouchAge(k) <= sess[k].state_age /\ sess[k].state_age \in Nat
    BY Zenon, <1>1, <2>1, TypeFacts DEF StateInv, Vouched
  <2> QED BY <2>1, <2>2
<1>6. InTime' /\ Stamped'
  BY Zenon, <1>1 DEF StateInv, InTime, Stamped, TypeOK, AutowireOnly
<1>7. RefsExact'
  <2>1. \A i \in Ifaces : SessionsOn(i)' = SessionsOn(i)
    BY Zenon, <1>1 DEF SessionsOn, AutowireOnly, TypeOK
  <2> QED BY Zenon, <1>1, <2>1 DEF StateInv, RefsExact
<1>8. Counted' /\ FreshReply'
  BY Zenon, <1>1 DEF Counted, FreshReply
<1> QED BY Zenon, <1>2, <1>3, <1>4, <1>5, <1>6, <1>7, <1>8 DEF IInv, StateInv

\* Disowned resets the history of the sessions whose address goes.
LEMMA DisownedType == ASSUME TypeOK, NEW xs PROVE Disowned(xs) \in [Keys -> Age]
BY Zenon, AgeFacts DEF Disowned, TypeOK

\* A pass over the interfaces touches only the autowired flags of the sessions.
LEMMA RebindSessions ==
    ASSUME sess \in [Keys -> SessionRec], NEW i \in Ifaces, nd_iface_rebind_all(i)
    PROVE  AutowireOnly(sess, sess')
<1>1. CASE IfaceGone(i)
  BY Zenon, <1>1, IfaceChangedOK DEF IfaceGone
<1>2. CASE IfaceAdmin(i)
  <2>1. admin_up[i] \in BOOLEAN => AutowireOnly(sess, sess')
    BY Zenon, <1>2, IfaceChangedOK DEF IfaceAdmin
  <2>2. (~admin_up[i]) \in BOOLEAN
    OBVIOUS
  <2> QED BY Zenon, <1>2, <2>1, <2>2, IfaceChangedOK DEF IfaceAdmin
<1>3. CASE \E isup \in BOOLEAN : IfaceBound(i, isup)
  <2>1. PICK isup \in BOOLEAN : IfaceBound(i, isup)
    BY Zenon, <1>3
  <2> DEFINE lost == IF up[i] THEN nd_session_iface_changed(sess, i, FALSE) ELSE sess
  <2>2. sess' = IF isup THEN nd_session_iface_changed(lost, i, TRUE) ELSE lost
    BY Zenon, <2>1 DEF IfaceBound
  <2>3. AutowireOnly(sess, lost)
    BY Zenon, IfaceChangedOK, AutowireOnlyRefl
  <2>4. lost \in [Keys -> SessionRec]
    BY Zenon, <2>3 DEF AutowireOnly
  <2> HIDE DEF lost
  <2>5. AutowireOnly(lost, sess')
    BY Zenon, <2>2, <2>4, IfaceChangedOK, AutowireOnlyRefl
  <2> QED BY Zenon, <2>3, <2>5, AutowireOnlyTrans
<1> QED BY Zenon, <1>1, <1>2, <1>3 DEF nd_iface_rebind_all

\* Interfaces going, coming and changing state keep the invariant.
LEMMA RebindInv ==
    ASSUME IInv, NEW i \in Ifaces, nd_iface_rebind_all(i)
    PROVE  IInv'
<1>1. StateInv /\ TypeOK /\ sess \in [Keys -> SessionRec]
  BY Zenon DEF IInv, StateInv, TypeOK
<1>2. /\ UNCHANGED <<live, ahead, count, refs, route, local, upd_age, pending, probed>>
      /\ AutowireOnly(sess, sess')
  BY Zenon, <1>1, RebindSessions DEF nd_iface_rebind_all
<1>3. \A old, new : \A m \in RoutesAdded(old, new) : m.type # "NA"
  BY DEF RoutesAdded, AddRoute
<1>4. /\ route' \in [Addrs \X Tables -> Ifaces \cup {None}] /\ local' \subseteq Ifaces \X Addrs
      /\ \A j \in live : j \in Keys /\ RuleOf[j] # None /\ RuleOf[j] \in Rule
  BY Zenon, <1>1, <1>2, ConfigAssumption DEF TypeOK, StateInv, SessionsOK
<1>5. CASE IfaceGone(i)
  <2>1. /\ up[i] /\ up' = [up EXCEPT ![i] = FALSE] /\ admin_up' = [admin_up EXCEPT ![i] = FALSE]
        /\ sent' = {}
        /\ vouched' = Disowned({i} \X Addrs)
    BY Zenon, <1>5 DEF IfaceGone
  <2>3. up' \in [Ifaces -> BOOLEAN] /\ admin_up' \in [Ifaces -> BOOLEAN] /\ vouched' \in [Keys -> Age]
    BY Zenon, <1>1, <2>1, DisownedType DEF TypeOK
  <2>4. ASSUME NEW j \in live PROVE VouchAge(j)' = 0 \/ VouchAge(j)' = VouchAge(j)
    <3>1. vouched'[j] = IF OwnAddress(j) /\ RuleOf[j].iface = i THEN 0 ELSE vouched[j]
      <4>1. TgtR[j] \in Addrs
        BY Zenon, <1>4, ConfigAssumption
      <4> QED BY Zenon, <1>4, <2>1, <4>1 DEF Disowned
    <3>2. RuleOf[j].iface # i => (OwnAddress(j)' <=> OwnAddress(j))
      BY Zenon, <1>1, <1>2, <1>4, <2>1 DEF OwnAddress, nd_rt_is_local_addr, TypeOK, Rule
    <3>3. RuleOf[j].iface = i => ~OwnAddress(j)'
      BY Zenon, <1>1, <2>1 DEF OwnAddress, TypeOK
    <3> QED BY Zenon, <3>1, <3>2, <3>3 DEF VouchAge
  <2> QED BY Zenon, <1>2, <1>4, <2>1, <2>3, <2>4, EnvInv
<1>6. CASE IfaceAdmin(i)
  <2>1. /\ admin_up' = [admin_up EXCEPT ![i] = ~@]
        /\ sent' = RoutesAdded(sess, sess')
        /\ UNCHANGED <<up, vouched>>
    BY Zenon, <1>6 DEF IfaceAdmin
  <2>3. up' \in [Ifaces -> BOOLEAN] /\ admin_up' \in [Ifaces -> BOOLEAN] /\ vouched' \in [Keys -> Age]
    BY Zenon, <1>1, <2>1 DEF TypeOK
  <2>4. \A j \in live : VouchAge(j)' = VouchAge(j)
    BY Zenon, <1>2, <2>1 DEF VouchAge, OwnAddress, nd_rt_is_local_addr
  <2> QED BY Zenon, <1>2, <1>3, <1>4, <2>1, <2>3, <2>4, EnvInv
<1>7. CASE \E isup \in BOOLEAN : IfaceBound(i, isup)
  <2>1. PICK isup \in BOOLEAN : IfaceBound(i, isup)
    BY Zenon, <1>7
  <2>2. /\ up' = [up EXCEPT ![i] = TRUE] /\ admin_up' = [admin_up EXCEPT ![i] = isup]
        /\ \E old : sent' = RoutesAdded(old, sess')
        /\ vouched' = vouched
    BY Zenon, <2>1 DEF IfaceBound
  <2>7. up' \in [Ifaces -> BOOLEAN] /\ admin_up' \in [Ifaces -> BOOLEAN] /\ vouched' \in [Keys -> Age]
    BY Zenon, <1>1, <2>2 DEF TypeOK
  <2>8. ASSUME NEW j \in live PROVE VouchAge(j)' = 0 \/ VouchAge(j)' = VouchAge(j)
    <3>1. OwnAddress(j) => OwnAddress(j)'
      BY Zenon, <1>1, <1>2, <1>4, <2>2 DEF OwnAddress, nd_rt_is_local_addr, TypeOK, Rule
    <3> QED BY Zenon, <3>1, <2>2 DEF VouchAge
  <2> QED BY Zenon, <1>2, <1>3, <1>4, <2>2, <2>7, <2>8, EnvInv
<1> QED BY Zenon, <1>5, <1>6, <1>7 DEF nd_iface_rebind_all

\* A route message changes what nd_rt_find_route says, and nothing else.
LEMMA RouteChangedInv ==
    ASSUME IInv, NEW x \in Routable, NEW i \in Ifaces \cup {None}, RouteChanged(x, i)
    PROVE  IInv'
<1>1. TypeOK /\ route' = [route EXCEPT ![x] = i] /\ sent' = {}
  BY Zenon DEF IInv, StateInv, RouteChanged
<1>2. UNCHANGED <<sess, live, ahead, count, up, admin_up, refs, local, upd_age, pending, probed, vouched>>
  BY Zenon DEF RouteChanged
<1>3. AutowireOnly(sess, sess')
  BY Zenon, <1>1, <1>2, AutowireOnlyRefl DEF TypeOK
<1>4. /\ up' \in [Ifaces -> BOOLEAN] /\ admin_up' \in [Ifaces -> BOOLEAN] /\ vouched' \in [Keys -> Age]
      /\ route' \in [Addrs \X Tables -> Ifaces \cup {None}] /\ local' \subseteq Ifaces \X Addrs
  BY Zenon, <1>1, <1>2 DEF TypeOK
<1>5. \A j \in live : VouchAge(j)' = VouchAge(j)
  BY Zenon, <1>2 DEF VouchAge, OwnAddress, nd_rt_is_local_addr
<1> QED BY Zenon, <1>1, <1>2, <1>3, <1>4, <1>5, EnvInv

\* An address that is removed leaves its sessions vouched for as of now.
LEMMA AddrChangedInv ==
    ASSUME IInv, NEW x \in Ownable, AddrChanged(x)
    PROVE  IInv'
<1>1. /\ StateInv /\ TypeOK /\ sent' = {}
      /\ local' = IF x \in local THEN local \ {x} ELSE local \cup {x}
      /\ vouched' = IF x \in local THEN Disowned({x}) ELSE vouched
  BY Zenon DEF IInv, StateInv, AddrChanged
<1>2. UNCHANGED <<sess, live, ahead, count, up, admin_up, refs, route, upd_age, pending, probed>>
  BY Zenon DEF AddrChanged
<1>3. AutowireOnly(sess, sess')
  BY Zenon, <1>1, <1>2, AutowireOnlyRefl DEF TypeOK
<1>4. /\ up' \in [Ifaces -> BOOLEAN] /\ admin_up' \in [Ifaces -> BOOLEAN] /\ vouched' \in [Keys -> Age]
      /\ route' \in [Addrs \X Tables -> Ifaces \cup {None}] /\ local' \subseteq Ifaces \X Addrs
  <2>1. x \in Ifaces \X Addrs
    BY Zenon, ConfigAssumption
  <2> QED BY Zenon, <1>1, <1>2, <2>1, DisownedType DEF TypeOK
<1>5. ASSUME NEW j \in live PROVE VouchAge(j)' = 0 \/ VouchAge(j)' = VouchAge(j)
  <2> DEFINE y == <<RuleOf[j].iface, TgtR[j]>>
  <2>1. j \in Keys
    BY Zenon, <1>1 DEF TypeOK
  <2>2. vouched'[j] = IF x \in local /\ OwnAddress(j) /\ y = x THEN 0 ELSE vouched[j]
    BY Zenon, <1>1, <2>1 DEF Disowned
  <2>3. OwnAddress(j) /\ ~(x \in local /\ y = x) => OwnAddress(j)'
    BY Zenon, <1>1, <1>2 DEF OwnAddress, nd_rt_is_local_addr
  <2> QED BY Zenon, <2>2, <2>3 DEF VouchAge
<1> QED BY Zenon, <1>1, <1>2, <1>3, <1>4, <1>5, EnvInv

----------------------------------------------------------------------------
(* The theorems.                                                           *)

\* Every step keeps the invariant.
LEMMA NextInv == IInv /\ [Next]_vars => IInv'
<1> SUFFICES ASSUME IInv, [Next]_vars PROVE IInv'
  OBVIOUS
<1>1. ASSUME NEW k \in Keys, nd_session_update(k) PROVE IInv'
  <2>1. CASE sess[k].state = "INVALID" /\ sess[k].state_age >= INVALID_TTL
    BY Zenon, <1>1, <2>1, DeleteInv DEF nd_session_update
  <2>2. CASE ~(sess[k].state = "INVALID" /\ sess[k].state_age >= INVALID_TTL)
    BY Zenon, <1>1, <2>2, KeepInv DEF nd_session_update
  <2> QED BY Zenon, <2>1, <2>2
<1>2. CASE UNCHANGED vars
  BY Zenon, <1>2 DEF vars, IInv, StateInv, TypeOK, SessionsOK, DeadBlank, Vouched, InTime, Stamped, RefsExact,
        SessionsOn, Counted, FreshReply, VouchAge, OwnAddress, nd_rt_is_local_addr
<1> QED BY Zenon, <1>1, <1>2, HandleNsInv, HandleNaInv, MainLoopInv, RebindInv, RouteChangedInv,
          AddrChangedInv DEF Next

\* The invariant holds in every reachable state.
THEOREM Invariant == Spec => []IInv
BY InitInv, NextInv, PTL DEF Spec

\* The model is well typed.
THEOREM TypeCorrect == Spec => []TypeOK
<1>1. IInv => TypeOK
  BY Zenon DEF IInv, StateInv
<1> QED BY <1>1, Invariant, PTL


\* A session that is probing has an interface to probe on, whatever the routes,
\* interfaces and local addresses do in the meantime.
THEOREM ProbesHaveIfaceThm == Spec => []ProbesHaveIface
<1>1. IInv => ProbesHaveIface
  BY Zenon DEF IInv, StateInv, SessionsOK, SessionOK, ProbesHaveIface
<1> QED BY <1>1, Invariant, PTL

\* A VALID session has nobody in its queue.
THEOREM NoStrandedSubsThm == Spec => []NoStrandedSubs
<1>1. IInv => NoStrandedSubs
  BY Zenon DEF IInv, StateInv, SessionsOK, SessionOK, NoStrandedSubs
<1> QED BY <1>1, Invariant, PTL

\* No neighbor advertisement goes out for a target that has been silent for more than
\* valid-ttl plus the interval between two passes of nd_session_update_all.
THEOREM FreshReplyThm == Spec => []FreshReply
<1>1. IInv => FreshReply
  BY Zenon DEF IInv
<1> QED BY <1>1, Invariant, PTL

\* ndL_session_count is exact, and both caps hold.
THEOREM TableBoundedThm == Spec => []TableBounded
<1>1. IInv => TableBounded
  BY Zenon DEF IInv, StateInv, SessionsOK, SessionOK, Counted, TableBounded
<1> QED BY <1>1, Invariant, PTL

\* The reference counts of the interfaces are exact.
THEOREM RefsExactThm == Spec => []RefsExact
<1>1. IInv => RefsExact
  BY Zenon DEF IInv, StateInv
<1> QED BY <1>1, Invariant, PTL

----------------------------------------------------------------------------
(* The action properties.                                                  *)

\* Sessions leave the table in DeleteSession only.
LEMMA RouteRemovedStep ==
    ASSUME IInv, [Next]_vars, NEW k \in live \ live', sess[k].autowired
    PROVE  DelRoute(k) \in sent'
<1>1. TypeOK /\ SessionOK(k, sess[k]) /\ k \in Keys
  BY Zenon DEF IInv, StateInv, SessionsOK, TypeOK
<1>2. PICK j \in Keys : DeleteSession(j)
  <2>1. ASSUME NEW p \in Proxies, NEW tgt \in Addrs, NEW g, nd_proxy_handle_ns(p, tgt, g) PROVE live \subseteq live'
    BY Zenon, <2>1 DEF nd_proxy_handle_ns, NsExisting, NsNew, Link, NsDropped
  <2>2. ASSUME NEW i, NEW a, ndL_handle_na(i, a) PROVE live \subseteq live'
    BY Zenon, <2>2 DEF ndL_handle_na
  <2>3. ASSUME NEW d, MainLoop(d) PROVE live \subseteq live'
    BY Zenon, <2>3 DEF MainLoop
  <2>4. ASSUME NEW j \in Keys, nd_session_update(j) PROVE live \subseteq live' \/ DeleteSession(j)
    BY Zenon, <2>4 DEF nd_session_update, KeepSession
  <2>5. ASSUME NEW i, nd_iface_rebind_all(i) PROVE live \subseteq live'
    BY Zenon, <2>5 DEF nd_iface_rebind_all
  <2>6. ASSUME NEW x, NEW i, RouteChanged(x, i) PROVE live \subseteq live'
    BY Zenon, <2>6 DEF RouteChanged
  <2>7. ASSUME NEW x, AddrChanged(x) PROVE live \subseteq live'
    BY Zenon, <2>7 DEF AddrChanged
  <2>8. CASE UNCHANGED vars
    BY Zenon, <2>8 DEF vars
  <2> QED BY Zenon, <2>1, <2>2, <2>3, <2>4, <2>5, <2>6, <2>7, <2>8 DEF Next
<1>3. j = k
  BY Zenon, <1>2 DEF DeleteSession
<1> QED BY Zenon, <1>1, <1>2, <1>3 DEF DeleteSession, ndL_down, SessionOK

\* A session deleted while it believes its route installed asks for its removal.
THEOREM RouteRemovedOnExpiryThm == Spec => RouteRemovedOnExpiry
<1>1. IInv /\ [Next]_vars =>
        [\A k \in live \ live' : sess[k].autowired => DelRoute(k) \in sent']_vars
  BY Zenon, RouteRemovedStep
<1> QED BY <1>1, Invariant, PTL DEF Spec, RouteRemovedOnExpiry

\* The factors by which the interval between two probes may grow.
LEMMA PowersOfTwo == ASSUME NEW n \in 0 .. 16 PROVE 2^n \in Nat /\ 2^n >= 1
<1>1. 2^0 = 1
  OBVIOUS
<1>2. 2^1 = 2
  OBVIOUS
<1>3. 2^2 = 4
  OBVIOUS
<1>4. 2^3 = 8
  OBVIOUS
<1>5. 2^4 = 16
  OBVIOUS
<1>6. 2^5 = 32
  OBVIOUS
<1>7. 2^6 = 64
  OBVIOUS
<1>8. 2^7 = 128
  OBVIOUS
<1>9. 2^8 = 256
  OBVIOUS
<1>10. 2^9 = 512
  OBVIOUS
<1>11. 2^10 = 1024
  OBVIOUS
<1>12. 2^11 = 2048
  OBVIOUS
<1>13. 2^12 = 4096
  OBVIOUS
<1>14. 2^13 = 8192
  OBVIOUS
<1>15. 2^14 = 16384
  OBVIOUS
<1>16. 2^15 = 32768
  OBVIOUS
<1>17. 2^16 = 65536
  OBVIOUS
<1>18. n \in {0, 1, 2, 3, 4, 5, 6, 7, 8, 9, 10, 11, 12, 13, 14, 15, 16}
  OBVIOUS
<1>19. 2^n \in {2^0, 2^1, 2^2, 2^3, 2^4, 2^5, 2^6, 2^7, 2^8, 2^9, 2^10, 2^11, 2^12, 2^13, 2^14, 2^15, 2^16}
  BY Zenon, <1>18
<1> QED BY <1>1, <1>2, <1>3, <1>4, <1>5, <1>6, <1>7, <1>8, <1>9,
          <1>10, <1>11, <1>12, <1>13, <1>14, <1>15, <1>16, <1>17, <1>19

\* The backoff of STALE probes never makes the interval shorter than retrans-time.
LEMMA StaleIntervalLong == ASSUME NEW n \in Nat PROVE StaleInterval(n) \in Nat /\ StaleInterval(n) >= RETRANS_TIME
<1> DEFINE shift == IF n \div 3 > 16 THEN 16 ELSE n \div 3
           factor == 2^shift
<1>1. shift \in 0 .. 16
  OBVIOUS
<1> HIDE DEF shift
<1>2. factor \in Nat /\ factor >= 1
  BY Zenon, <1>1, PowersOfTwo
<1>3. StaleInterval(n) \in {RETRANS_TIME * factor, RETRANS_TIME}
  BY Zenon DEF StaleInterval, factor, shift
<1> HIDE DEF factor
<1>4. RETRANS_TIME * factor \in Nat /\ RETRANS_TIME * factor >= RETRANS_TIME /\ RETRANS_TIME \in Nat
  BY <1>2, TimeAssumption
<1> QED BY <1>3, <1>4

\* A step that probes a STALE session finds its last probe at least retrans-time ago.
LEMMA StaleSpacedStep ==
    ASSUME IInv, Next, NEW k \in live, sess[k].state = "STALE", Ns(sess[k].iface, k) \in sent'
    PROVE  probed[k] >= RETRANS_TIME
<1> DEFINE m == Ns(sess[k].iface, k)
<1>1. StateInv /\ TypeOK /\ k \in Keys /\ sess[k] \in SessionRec /\ SessionOK(k, sess[k]) /\ RuleOf[k] # None
  BY Zenon DEF IInv, StateInv, TypeOK, SessionsOK
<1>2. m \in sent' /\ m.type = "NS" /\ m.key = k
  BY Zenon DEF Ns
<1> HIDE DEF m
<1>3. ASSUME sess[k].ons_age >= RETRANS_TIME PROVE probed[k] >= RETRANS_TIME
  <2>1. sess[k].ons_age <= probed[k] /\ sess[k].ons_age \in Nat /\ probed[k] \in Nat
    BY Zenon, <1>1, TypeFacts DEF StateInv, Stamped
  <2> QED BY <1>3, <2>1, TimeAssumption
<1>4. ASSUME NEW p \in Proxies, NEW tgt \in Addrs, NEW g \in Hosts \cup {None}, nd_proxy_handle_ns(p, tgt, g)
      PROVE  sess[k].ons_age >= RETRANS_TIME
  <2> DEFINE j == <<p, tgt>>
  <2>1. j \in Keys
    BY Zenon DEF Keys
  <2> HIDE DEF j
  <2>2. CASE NsExisting(j, g)
    <3>1. PICK opens \in BOOLEAN : Commit(j, nd_session_handle_ns(j, sess[j], g, opens))
      BY Zenon, <2>2 DEF NsExisting
    <3> DEFINE o == nd_session_handle_ns(j, sess[j], g, opens)
    <3>2. sent' = o.sent /\ j \in live
      BY Zenon, <2>2, <3>1 DEF Commit, NsExisting
    <3>3. RuleOf[j] # None /\ SessionOK(j, sess[j])
      BY Zenon, <1>1, <3>2 DEF StateInv, SessionsOK
    <3>4. OutcomeOK(j, sess[j], o)
      BY Zenon, <1>1, <2>1, <3>3, HandleNsOK
    <3>5. j = k
      BY Zenon, <1>2, <3>2, <3>4 DEF OutcomeOK
    <3>6. ~(sess[k].ons_age >= RETRANS_TIME) => o.sent = {}
      BY Zenon, <1>1, <3>5 DEF nd_session_handle_ns, Outcome
    <3> HIDE DEF o
    <3> QED BY Zenon, <1>2, <3>2, <3>6
  <2>3. CASE NsNew(j, g)
    <3>1. PICK first \in BOOLEAN, second \in BOOLEAN :
             LET c == nd_session_create(j, first)
                 o == nd_session_handle_ns(j, c.sess, g, second)
             IN  Commit(j, Outcome(o.sess, c.sent \cup o.sent, IF c.open # None THEN c.open ELSE o.open))
      BY Zenon, <2>3 DEF NsNew
    <3> DEFINE c == nd_session_create(j, first)
               o == nd_session_handle_ns(j, c.sess, g, second)
    <3>2. sent' = c.sent \cup o.sent /\ j \notin live /\ RuleOf[j] # None
      BY Zenon, <2>3, <3>1 DEF Commit, Outcome, NsNew
    <3>3. OutcomeOK(j, Blank, c)
      BY Zenon, <1>1, <2>1, <3>2, CreateOK
    <3>4. OutcomeOK(j, c.sess, o)
      <4>1. SessionOK(j, c.sess)
        BY Zenon, <3>3 DEF OutcomeOK
      <4> QED BY Zenon, <1>1, <2>1, <3>2, <4>1, HandleNsOK
    <3> HIDE DEF c, o
    <3> QED BY Zenon, <1>2, <3>2, <3>3, <3>4 DEF OutcomeOK
  <2>4. CASE NsDropped(j)
    BY Zenon, <1>2, <2>4 DEF NsDropped
  <2> QED BY Zenon, <1>4, <2>2, <2>3, <2>4 DEF nd_proxy_handle_ns, j
<1>5. ASSUME NEW i \in Ifaces, NEW a \in Addrs, ndL_handle_na(i, a) PROVE FALSE
  <2>1. sent' = {} \/ \E j \in nd_session_find_r(i, a) : Commit(j, nd_session_handle_na(j, sess[j]))
    BY Zenon, <1>5 DEF ndL_handle_na
  <2>2. PICK j, o : o = nd_session_handle_na(j, sess[j]) /\ sent' = o.sent
    BY Zenon, <1>2, <2>1 DEF Commit
  <2>3. \A x \in o.sent : x.type # "NS"
    BY <2>2 DEF nd_session_handle_na, Outcome, nd_iface_send_na, Na, AddRoute
  <2> QED BY Zenon, <1>2, <2>2, <2>3
<1>6. ASSUME NEW j \in Keys, nd_session_update(j) PROVE sess[k].ons_age >= RETRANS_TIME
  <2>1. j \in live /\ SessionOK(j, sess[j]) /\ sess[j] \in SessionRec
    BY Zenon, <1>1, <1>6 DEF nd_session_update, StateInv, SessionsOK, TypeOK
  <2>2. CASE DeleteSession(j)
    <3>1. \A x \in sent' : x = DelRoute(j)
      BY Zenon, <2>2 DEF DeleteSession, ndL_down
    <3> QED BY <1>2, <3>1 DEF DelRoute
  <2>3. CASE KeepSession(j) /\ j # k
    <3>1. \A x \in sent' : x.key = j
      <4>1. CASE sess[j].state = "INCOMPLETE"
        <5>1. sent' = UpdateIncomplete(j, sess[j]).sent
          BY Zenon, <2>3, <4>1 DEF KeepSession, Commit
        <5>2. UpdateOK(j, sess[j], UpdateIncomplete(j, sess[j]))
          BY Zenon, <2>1, <4>1, UpdateIncompleteOK
        <5> QED BY Zenon, <5>1, <5>2 DEF UpdateOK, OutcomeOK
      <4>2. CASE sess[j].state = "VALID"
        <5>1. sent' = UpdateValid(j, sess[j]).sent
          BY Zenon, <2>3, <4>2 DEF KeepSession, Commit
        <5>2. UpdateOK(j, sess[j], UpdateValid(j, sess[j]))
          BY Zenon, <2>1, <4>2, UpdateValidOK
        <5> QED BY Zenon, <5>1, <5>2 DEF UpdateOK, OutcomeOK
      <4>3. CASE sess[j].state = "STALE"
        <5>1. sent' = UpdateStale(j, sess[j]).sent
          BY Zenon, <2>3, <4>3 DEF KeepSession, Commit
        <5>2. UpdateOK(j, sess[j], UpdateStale(j, sess[j]))
          BY Zenon, <2>1, <4>3, UpdateStaleOK
        <5> QED BY Zenon, <5>1, <5>2 DEF UpdateOK, OutcomeOK
      <4>4. CASE sess[j].state = "INVALID"
        BY Zenon, <2>1, <2>3, <4>4 DEF KeepSession, Commit, Outcome
      <4> QED BY Zenon, <2>1, <4>1, <4>2, <4>3, <4>4 DEF SessionRec, States
    <3> QED BY Zenon, <1>2, <2>3, <3>1
  <2>4. CASE KeepSession(j) /\ j = k
    <3>1. sent' = UpdateStale(k, sess[k]).sent
      BY Zenon, <2>4 DEF KeepSession, Commit
    <3>2. ~(sess[k].ons_age < StaleInterval(sess[k].ons_count))
      BY Zenon, <1>2, <3>1 DEF UpdateStale, Outcome
    <3>3. sess[k].ons_count \in Nat /\ sess[k].ons_age \in Nat
      BY Zenon, <1>1, TypeFacts DEF SessionRec
    <3> QED BY <3>2, <3>3, StaleIntervalLong, TimeAssumption
  <2> QED BY Zenon, <1>6, <2>2, <2>3, <2>4 DEF nd_session_update
<1>7. ASSUME NEW i \in Ifaces, nd_iface_rebind_all(i) PROVE FALSE
  <2>1. \A old, new : \A x \in RoutesAdded(old, new) : x.type # "NS"
    BY DEF RoutesAdded, AddRoute
  <2>2. sent' = {} \/ \E old : sent' = RoutesAdded(old, sess')
    BY Zenon, <1>7 DEF nd_iface_rebind_all, IfaceGone, IfaceAdmin, IfaceBound
  <2> QED BY Zenon, <1>2, <2>1, <2>2
<1>8. ASSUME sent' = {} PROVE FALSE
  BY Zenon, <1>2, <1>8
<1>9. \A d : MainLoop(d) => sent' = {}
  BY Zenon DEF MainLoop
<1>10. /\ \A x, i : RouteChanged(x, i) => sent' = {}
       /\ \A x : AddrChanged(x) => sent' = {}
  BY Zenon DEF RouteChanged, AddrChanged
<1> QED BY Zenon, <1>3, <1>4, <1>5, <1>6, <1>7, <1>8, <1>9, <1>10 DEF Next

\* Two probes of a STALE session are at least retrans-time apart, however many solicitations
\* arrive and whatever the backoff of the timer.
THEOREM StaleProbesSpacedThm == Spec => StaleProbesSpaced
<1>1. IInv /\ [Next]_vars =>
        [\A k \in live : sess[k].state = "STALE" /\ Ns(sess[k].iface, k) \in sent'
            => probed[k] >= RETRANS_TIME]_vars
  BY Zenon, StaleSpacedStep
<1> QED BY <1>1, Invariant, PTL DEF Spec, StaleProbesSpaced

----------------------------------------------------------------------------
(* The session table implements Resolver.                                  *)

\* What the refinement mapping makes of the messages of a step.
AnswersIn(msgs) == {<<m.dst, m.key>> : m \in {x \in msgs : x.type = "NA"}}

Phases == [k \in Keys |-> Phase(k)]

Queues == [k \in Keys |-> sess[k].subs]

Links == [k \in Keys |-> up[ProxyIface[k[1]]]]

\* Only NAs are seen by the neighbours.
LEMMA NoAnswers ==
    ASSUME NEW msgs, \A m \in msgs : m.type # "NA" PROVE AnswersIn(msgs) = {}
BY Zenon DEF AnswersIn

\* The NAs of one session, and other messages.
LEMMA NaAnswers ==
    ASSUME NEW k, NEW hs, NEW others, \A m \in others : m.type # "NA"
    PROVE  AnswersIn(nd_iface_send_na(hs, k) \cup others) =
              IF up[ProxyIface[k[1]]] THEN {<<h, k>> : h \in hs} ELSE {}
<1>1. \A h : Na(h, k).type = "NA" /\ Na(h, k).dst = h /\ Na(h, k).key = k
  BY Zenon DEF Na
<1>2. AnswersIn({Na(h, k) : h \in hs} \cup others) = {<<h, k>> : h \in hs}
  <2> DEFINE msgs == {Na(h, k) : h \in hs} \cup others
  <2>1. {x \in msgs : x.type = "NA"} = {Na(h, k) : h \in hs}
    BY Zenon, <1>1
  <2>2. AnswersIn(msgs) = {<<m.dst, m.key>> : m \in {Na(h, k) : h \in hs}}
    BY Zenon, <2>1 DEF AnswersIn
  <2>3. {<<m.dst, m.key>> : m \in {Na(h, k) : h \in hs}} = {<<h, k>> : h \in hs}
    <3>1. ASSUME NEW m \in {Na(h, k) : h \in hs} PROVE <<m.dst, m.key>> \in {<<h, k>> : h \in hs}
      BY Zenon, <1>1
    <3>2. ASSUME NEW h \in hs PROVE \E m \in {Na(g, k) : g \in hs} : <<m.dst, m.key>> = <<h, k>>
      BY Zenon, <1>1
    <3> QED BY <3>1, <3>2
  <2> QED BY Zenon, <2>2, <2>3
<1>3. AnswersIn({} \cup others) = {}
  BY Zenon DEF AnswersIn
<1> QED BY Zenon, <1>2, <1>3 DEF nd_iface_send_na

\* Writing back the value that is there changes nothing.
LEMMA SameValue ==
    ASSUME NEW f, NEW S, f = [j \in S |-> f[j]], NEW k \in S PROVE [f EXCEPT ![k] = f[k]] = f
OBVIOUS

\* A step that changes the session of k only shows in the phase and the queue of k.
LEMMA OneQuestion ==
    ASSUME TypeOK, NEW k \in Keys, NEW t, sess' = [sess EXCEPT ![k] = t],
           \A j \in Keys : j # k => (j \in live' <=> j \in live)
    PROVE  /\ Phases' = [Phases EXCEPT ![k] = Phase(k)']
           /\ Queues' = [Queues EXCEPT ![k] = t.subs]
           /\ sess'[k] = t
<1>1. sess'[k] = t /\ \A j \in Keys : j # k => sess'[j] = sess[j]
  BY Zenon DEF TypeOK
<1>2. \A j \in Keys : j # k => Phase(j)' = Phase(j)
  BY Zenon, <1>1 DEF Phase
<1>3. Phases' = [Phases EXCEPT ![k] = Phase(k)']
  <2>1. Phases' = [j \in Keys |-> Phase(j)'] /\ Phases = [j \in Keys |-> Phase(j)]
    BY Zenon DEF Phases
  <2> QED BY Zenon, <1>2, <2>1
<1>4. Queues' = [Queues EXCEPT ![k] = t.subs]
  <2>1. Queues' = [j \in Keys |-> sess'[j].subs] /\ Queues = [j \in Keys |-> sess[j].subs]
    BY Zenon DEF Queues
  <2>2. \A j \in Keys : sess'[j].subs = IF j = k THEN t.subs ELSE sess[j].subs
    BY <1>1
  <2> QED BY Zenon, <2>1, <2>2
<1> QED BY Zenon, <1>1, <1>3, <1>4

\* What the neighbours see of a solicitation by h that turns the session s into o.sess.
NsVisible(k, s, h, o) ==
    /\ s.state = "VALID" => /\ o.sess.state = "VALID" /\ o.sess.subs = s.subs
                            /\ o.sent = nd_iface_send_na({h}, k)
    /\ s.state # "VALID" => /\ o.sess.state # "VALID"
                            /\ \E hs \in SUBSET ({h} \ {None}) : o.sess.subs = s.subs \cup hs
                            /\ \A m \in o.sent : m.type # "NA"

\* nd_session_handle_ns answers at once, or queues without a word.
LEMMA HandleNsVisible ==
    ASSUME NEW k, NEW s \in SessionRec, NEW h, NEW opens
    PROVE  NsVisible(k, s, h, nd_session_handle_ns(k, s, h, opens))
<1> DEFINE o == nd_session_handle_ns(k, s, h, opens)
           asked == [s EXCEPT !.ins_age = 0]
           queued == [asked EXCEPT !.subs = @ \cup {h}]
           again == [queued EXCEPT !.ons_count = IF @ = 0 THEN 1 ELSE @, !.ons_age = 0]
<1>1. asked.subs = s.subs /\ asked.state = s.state /\ queued.subs = s.subs \cup {h} /\ queued.state = s.state
  BY Zenon DEF SessionRec
<1>2. again.subs = s.subs \cup {h} /\ again.state = s.state
  BY Zenon DEF SessionRec
<1>3. \A i : /\ StartProbing(k, queued, i).sess.subs = s.subs \cup {h}
             /\ StartProbing(k, queued, i).sess.state = "INCOMPLETE"
             /\ \A m \in StartProbing(k, queued, i).sent : m.type # "NA"
  <2>1. \A i : LET t == [queued EXCEPT !.state = "INCOMPLETE", !.iface = i, !.state_age = 0,
                                      !.ons_count = 1, !.ons_age = 0]
              IN  t.subs = s.subs \cup {h} /\ t.state = "INCOMPLETE"
    BY Zenon DEF SessionRec
  <2>2. \A i, bound : \A m \in nd_iface_send_ns(i, k, bound) : m.type # "NA"
    BY DEF nd_iface_send_ns, Ns
  <2> HIDE DEF queued
  <2> QED BY Zenon, <2>1, <2>2 DEF StartProbing, Outcome
<1>4. \A i, bound : \A m \in nd_iface_send_ns(i, k, bound) : m.type # "NA"
  BY DEF nd_iface_send_ns, Ns
<1> HIDE DEF asked, queued, again, o
<1>5. CASE s.state = "VALID"
  BY Zenon, <1>1, <1>5 DEF nd_session_handle_ns, Outcome, NsVisible, o, asked
<1>6. CASE s.state # "VALID" /\ (h = None \/ (h \notin s.subs /\ Cardinality(s.subs) >= ND_SESSION_MAX_SUBS))
  <2>1. o = Outcome(asked, {}, None)
    BY Zenon, <1>6 DEF nd_session_handle_ns, asked, o
  <2>2. o.sess = asked /\ o.sent = {}
    BY Zenon, <2>1 DEF Outcome
  <2>3. NsVisible(k, s, h, o)
    BY Zenon, <1>6, <2>2, <1>1 DEF NsVisible
  <2> QED BY Zenon, <2>3 DEF o
<1>7. CASE s.state # "VALID" /\ ~(h = None \/ (h \notin s.subs /\ Cardinality(s.subs) >= ND_SESSION_MAX_SUBS))
  <2>1. \/ o = StartProbing(k, queued, AutoIface(k, opens))
        \/ o = Outcome(again, nd_iface_send_ns(s.iface, k, up[s.iface]), None)
        \/ o = Outcome(queued, {}, None)
    BY Zenon, <1>7 DEF nd_session_handle_ns, asked, queued, again, o
  <2>2. o.sess.subs = s.subs \cup {h} /\ o.sess.state # "VALID" /\ \A m \in o.sent : m.type # "NA"
    BY <2>1, <1>1, <1>2, <1>3, <1>4, <1>7 DEF Outcome
  <2>3. {h} \in SUBSET ({h} \ {None})
    BY Zenon, <1>7
  <2>4. NsVisible(k, s, h, o)
    BY Zenon, <1>7, <2>2, <2>3 DEF NsVisible
  <2> QED BY Zenon, <2>4 DEF o
<1> QED BY Zenon, <1>5, <1>6, <1>7

\* What the neighbours see of an advertisement that turns the session s into o.sess.
NaVisible(k, s, o) ==
    /\ o.sess.state = "VALID"
    /\ s.state = "VALID" => o.sess.subs = s.subs /\ o.sent = {}
    /\ s.state # "VALID" => /\ o.sess.subs = {}
                            /\ AnswersIn(o.sent) = IF up[ProxyIface[k[1]]]
                                                   THEN {<<h, k>> : h \in s.subs} ELSE {}

\* nd_session_handle_na answers the whole queue of a session that was not VALID.
LEMMA HandleNaVisible ==
    ASSUME NEW k, NEW s \in SessionRec
    PROVE  NaVisible(k, s, nd_session_handle_na(k, s))
<1> DEFINE o == nd_session_handle_na(k, s)
           w == s.autowired \/ Wires(k, s, up[s.iface])
           t == [s EXCEPT !.subs = {}, !.state = "VALID", !.state_age = 0, !.autowired = w]
           added == IF Wires(k, s, up[s.iface]) THEN {AddRoute(k, s.iface)} ELSE {}
<1>1. CASE s.state = "VALID"
  BY Zenon, <1>1 DEF nd_session_handle_na, Outcome, SessionRec, NaVisible
<1>2. CASE s.state # "VALID"
  <2>1. o.sess = t /\ o.sent = nd_iface_send_na(s.subs, k) \cup added
    BY Zenon, <1>2 DEF nd_session_handle_na, Outcome
  <2>2. t.subs = {} /\ t.state = "VALID"
    BY Zenon DEF SessionRec
  <2>3. \A m \in added : m.type # "NA"
    BY DEF AddRoute
  <2> HIDE DEF t, added, o
  <2>4. NaVisible(k, s, o)
    BY Zenon, <1>2, <2>1, <2>2, <2>3, NaAnswers DEF NaVisible
  <2> QED BY Zenon, <2>4 DEF o
<1> QED BY Zenon, <1>1, <1>2

\* nd_session_update never makes a session VALID that was not.
LEMMA UpdateNeverFinds ==
    ASSUME NEW k, NEW s \in SessionRec
    PROVE  /\ s.state = "INCOMPLETE" => UpdateIncomplete(k, s).sess.state # "VALID"
           /\ s.state = "STALE" => UpdateStale(k, s).sess.state # "VALID"
<1>1. \A t \in SessionRec, state \in States : Enter(t, state).state = state
  BY Zenon DEF Enter, SessionRec
<1>2. "INVALID" \in States
  BY Zenon DEF States
<1>3. ASSUME s.state = "INCOMPLETE" PROVE UpdateIncomplete(k, s).sess.state # "VALID"
  <2> DEFINE hold == [s EXCEPT !.ons_age = 0]
             again == [s EXCEPT !.ons_count = @ + 1]
  <2>1. hold.state = "INCOMPLETE" /\ again.state = "INCOMPLETE" /\ again \in SessionRec
    BY <1>3 DEF SessionRec
  <2>2. Enter(s, "INVALID").state # "VALID" /\ Enter(again, "INVALID").state # "VALID"
    BY Zenon, <1>1, <1>2, <2>1
  <2> HIDE DEF hold, again
  <2> QED BY Zenon, <1>3, <2>1, <2>2 DEF UpdateIncomplete, Outcome, hold, again
<1>4. ASSUME s.state = "STALE" PROVE UpdateStale(k, s).sess.state # "VALID"
  <2> DEFINE probe == [s EXCEPT !.ons_count = @ + 1, !.ons_age = 0]
  <2>1. probe.state = "STALE"
    BY Zenon, <1>4 DEF SessionRec
  <2>2. Enter(s, "INVALID").state # "VALID"
    BY Zenon, <1>1, <1>2
  <2> HIDE DEF probe
  <2> QED BY Zenon, <1>4, <2>1, <2>2 DEF UpdateStale, Outcome, probe
<1> QED BY Zenon, <1>3, <1>4

\* The mapped variables have the types of Resolver's.
LEMMA MappedTypes ==
    ASSUME TypeOK, TypeOK'
    PROVE  Links' \in [Keys -> BOOLEAN]
<1>1. \A k \in Keys : ProxyIface[k[1]] \in Ifaces
  BY Zenon, ConfigAssumption DEF Keys
<1> QED BY Zenon, <1>1 DEF Links, TypeOK

\* The steps of Resolver, spelled with the session table's variables.
Told(k, hs) == AnswersIn(sent') = IF Links[k] THEN {<<h, k>> : h \in hs} ELSE {}

Answered(k, h) == Phases[k] = "answering" /\ Told(k, {h}) /\ Phases' = Phases /\ Queues' = Queues

Known(k, h) ==
    /\ Phases[k] = "idle"
    /\ Phases' = [Phases EXCEPT ![k] = "answering"]
    /\ Told(k, {h})
    /\ Queues' = Queues

Unknown(k, h) ==
    /\ Phases[k] # "answering"
    /\ Phases' = [Phases EXCEPT ![k] = "looking"]
    /\ \E hs \in SUBSET ({h} \ {None}) : Queues' = [Queues EXCEPT ![k] = @ \cup hs]
    /\ AnswersIn(sent') = {}

Found(k) ==
    /\ Phases[k] = "looking"
    /\ Phases' = [Phases EXCEPT ![k] = "answering"]
    /\ Queues' = [Queues EXCEPT ![k] = {}]
    /\ Told(k, Queues[k])

Lapsed(k) ==
    /\ Phases[k] = "answering"
    /\ Phases' = [Phases EXCEPT ![k] = "looking"]
    /\ AnswersIn(sent') = {}
    /\ Queues' = Queues

Forgotten(k) ==
    /\ Phases[k] = "looking"
    /\ Phases' = [Phases EXCEPT ![k] = "idle"]
    /\ Queues' = [Queues EXCEPT ![k] = {}]
    /\ AnswersIn(sent') = {}

Unseen == AnswersIn(sent') = {} /\ Phases' = Phases /\ Queues' = Queues

\* They are steps of Resolver under the refinement mapping.
LEMMA StepSpelled ==
    ASSUME Links' \in [Keys -> BOOLEAN],
           \/ \E k \in Keys, h \in Hosts \cup {None} : Answered(k, h) \/ Known(k, h) \/ Unknown(k, h)
           \/ \E k \in Keys : Found(k) \/ Lapsed(k) \/ Forgotten(k)
           \/ Unseen
    PROVE  Promise!Next
<1> USE DEF Phases, Queues, Links, AnswersIn
<1>1. \A k, h : Answered(k, h) => Promise!AskAnswering(k, h)
  BY Zenon DEF Answered, Promise!AskAnswering, Told, Promise!Answer
<1>2. \A k, h : Known(k, h) => Promise!AskKnown(k, h)
  BY Zenon DEF Known, Promise!AskKnown, Told, Promise!Answer
<1>3. \A k, h : Unknown(k, h) => Promise!AskUnknown(k, h)
  BY Zenon DEF Unknown, Promise!AskUnknown
<1>4. \A k : Found(k) => Promise!Find(k)
  BY Zenon DEF Found, Promise!Find, Told, Promise!Answer
<1>5. \A k : Lapsed(k) => Promise!Lapse(k)
  BY Zenon DEF Lapsed, Promise!Lapse
<1>6. \A k : Forgotten(k) => Promise!Forget(k)
  BY Zenon DEF Forgotten, Promise!Forget
<1>7. Unseen => Promise!Silent
  BY Zenon DEF Unseen, Promise!Silent
<1>8. [k \in Keys |-> up[ProxyIface[k[1]]]]' \in [Keys -> BOOLEAN]
  OBVIOUS
<1> QED BY Zenon, <1>1, <1>2, <1>3, <1>4, <1>5, <1>6, <1>7, <1>8 DEF Promise!Next

\* A solicitation is an Ask.
LEMMA NsRefines ==
    ASSUME IInv, IInv', NEW p \in Proxies, NEW tgt \in Addrs, NEW h \in Hosts \cup {None},
           nd_proxy_handle_ns(p, tgt, h)
    PROVE  \/ \E k \in Keys : Answered(k, h) \/ Known(k, h) \/ Unknown(k, h)
           \/ Unseen
<1> DEFINE k == <<p, tgt>>
<1>1. StateInv /\ TypeOK /\ k \in Keys /\ sess[k] \in SessionRec
  BY Zenon DEF IInv, StateInv, TypeOK, Keys
<1>2. /\ Phases[k] = Phase(k) /\ Queues[k] = sess[k].subs
      /\ Links[k] = up[ProxyIface[k[1]]] /\ up[ProxyIface[k[1]]]
  BY Zenon, <1>1 DEF Phases, Queues, Links, nd_proxy_handle_ns
<1> HIDE DEF k
<1>3. CASE NsExisting(k, h)
  <2>1. PICK opens, o : opens \in BOOLEAN /\ o = nd_session_handle_ns(k, sess[k], h, opens) /\ Commit(k, o)
    BY Zenon, <1>3 DEF NsExisting
  <2>v. NsVisible(k, sess[k], h, o)
    BY Zenon, <1>1, <2>1, HandleNsVisible
  <2>2. sess' = [sess EXCEPT ![k] = o.sess] /\ sent' = o.sent /\ live' = live /\ k \in live
    BY Zenon, <1>3, <2>1 DEF Commit, NsExisting
  <2>3. /\ Phases' = [Phases EXCEPT ![k] = Phase(k)'] /\ Queues' = [Queues EXCEPT ![k] = o.sess.subs]
        /\ sess'[k] = o.sess
    BY Zenon, <1>1, <2>2, OneQuestion
  <2>4. CASE sess[k].state = "VALID"
    <3>1. o.sess.state = "VALID" /\ o.sess.subs = sess[k].subs /\ o.sent = nd_iface_send_na({h}, k)
      BY Zenon, <2>v, <2>4 DEF NsVisible
    <3>2. Phase(k) = "answering" /\ Phase(k)' = "answering"
      BY Zenon, <2>2, <2>3, <2>4, <3>1 DEF Phase
    <3>3. Phases' = Phases /\ Queues' = Queues
      <4>1. Phases' = [Phases EXCEPT ![k] = Phases[k]] /\ Queues' = [Queues EXCEPT ![k] = Queues[k]]
        BY Zenon, <1>2, <2>3, <3>1, <3>2
      <4>2. Phases = [j \in Keys |-> Phases[j]] /\ Queues = [j \in Keys |-> Queues[j]]
        BY Zenon DEF Phases, Queues
      <4> QED BY Zenon, <1>1, <4>1, <4>2, SameValue
    <3>4. Told(k, {h})
      <4>1. AnswersIn(nd_iface_send_na({h}, k) \cup {}) = IF up[ProxyIface[k[1]]] THEN {<<g, k>> : g \in {h}} ELSE {}
        BY Zenon, NaAnswers
      <4> QED BY Zenon, <4>1, <1>2, <2>2, <3>1 DEF Told
    <3> QED BY Zenon, <1>1, <1>2, <3>2, <3>3, <3>4 DEF Answered
  <2>5. CASE sess[k].state # "VALID"
    <3>1. /\ o.sess.state # "VALID" /\ \A m \in o.sent : m.type # "NA"
          /\ \E hs \in SUBSET ({h} \ {None}) : o.sess.subs = sess[k].subs \cup hs
      BY Zenon, <2>v, <2>5 DEF NsVisible
    <3>2. Phase(k) = "looking" /\ Phase(k)' = "looking"
      BY Zenon, <2>2, <2>3, <2>5, <3>1 DEF Phase
    <3>3. AnswersIn(sent') = {}
      BY Zenon, <2>2, <3>1, NoAnswers
    <3>4. \E hs \in SUBSET ({h} \ {None}) : Queues' = [Queues EXCEPT ![k] = @ \cup hs]
      BY Zenon, <1>2, <2>3, <3>1
    <3> QED BY Zenon, <1>1, <1>2, <2>3, <3>2, <3>3, <3>4 DEF Unknown
  <2> QED BY Zenon, <2>4, <2>5
<1>4. CASE NsNew(k, h)
  <2>1. PICK first, second, c, o :
           /\ first \in BOOLEAN /\ second \in BOOLEAN
           /\ c = nd_session_create(k, first)
           /\ o = nd_session_handle_ns(k, c.sess, h, second)
           /\ sess' = [sess EXCEPT ![k] = o.sess] /\ sent' = c.sent \cup o.sent
    <3>1. PICK first \in BOOLEAN, second \in BOOLEAN :
             LET c == nd_session_create(k, first)
                 o == nd_session_handle_ns(k, c.sess, h, second)
             IN  Commit(k, Outcome(o.sess, c.sent \cup o.sent, IF c.open # None THEN c.open ELSE o.open))
      BY Zenon, <1>4 DEF NsNew
    <3> DEFINE c == nd_session_create(k, first)
               o == nd_session_handle_ns(k, c.sess, h, second)
    <3>2. Commit(k, Outcome(o.sess, c.sent \cup o.sent, IF c.open # None THEN c.open ELSE o.open))
      BY Zenon, <3>1
    <3> HIDE DEF c, o
    <3>3. sess' = [sess EXCEPT ![k] = o.sess] /\ sent' = c.sent \cup o.sent
      BY Zenon, <3>2 DEF Commit, Outcome
    <3> QED BY Zenon, <3>3 DEF c, o
  <2>2. k \notin live /\ live' = live \cup {k} /\ RuleOf[k] # None
    BY Zenon, <1>4 DEF NsNew, Link
  <2>3. sess[k].subs = {} /\ Phase(k) = "idle"
    BY <1>1, <2>2 DEF StateInv, DeadBlank, Blank, Phase
  <2>4. c.sess \in SessionRec /\ c.sess.subs = {} /\ \A m \in c.sent : m.type = "NS"
    <3>1. OutcomeOK(k, Blank, c) /\ \A m \in c.sent : m.type = "NS"
      BY Zenon, <1>1, <2>1, <2>2, CreateOK
    <3>2. c.sess.subs = {}
      BY Zenon, <2>1 DEF nd_session_create, StartProbing, Outcome, Blank
    <3> QED BY Zenon, <3>1, <3>2 DEF OutcomeOK, SessionOK
  <2>5. /\ Phases' = [Phases EXCEPT ![k] = Phase(k)'] /\ Queues' = [Queues EXCEPT ![k] = o.sess.subs]
        /\ sess'[k] = o.sess /\ sent' = c.sent \cup o.sent
    BY Zenon, <1>1, <2>1, <2>2, OneQuestion
  <2>v. NsVisible(k, c.sess, h, o)
    BY Zenon, <2>1, <2>4, HandleNsVisible
  <2>6. CASE c.sess.state = "VALID"
    <3>1. o.sess.state = "VALID" /\ o.sess.subs = {} /\ o.sent = nd_iface_send_na({h}, k)
      BY Zenon, <2>v, <2>4, <2>6 DEF NsVisible
    <3>2. Phase(k)' = "answering"
      BY Zenon, <2>2, <2>5, <3>1 DEF Phase
    <3>3. Queues' = Queues
      BY Zenon, <1>1, <1>2, <2>3, <2>5, <3>1 DEF Queues
    <3>4. Told(k, {h})
      <4>1. \A m \in c.sent : m.type # "NA"
        BY Zenon, <2>4
      <4>2. AnswersIn(nd_iface_send_na({h}, k) \cup c.sent)
               = IF up[ProxyIface[k[1]]] THEN {<<g, k>> : g \in {h}} ELSE {}
        BY Zenon, <4>1, NaAnswers
      <4>3. sent' = nd_iface_send_na({h}, k) \cup c.sent
        BY Zenon, <2>5, <3>1
      <4> QED BY Zenon, <4>2, <4>3, <1>2 DEF Told
    <3> QED BY Zenon, <1>1, <1>2, <2>3, <2>5, <3>2, <3>3, <3>4 DEF Known
  <2>7. CASE c.sess.state # "VALID"
    <3>1. /\ o.sess.state # "VALID" /\ \A m \in o.sent : m.type # "NA"
          /\ \E hs \in SUBSET ({h} \ {None}) : o.sess.subs = {} \cup hs
      BY Zenon, <2>v, <2>4, <2>7 DEF NsVisible
    <3>2. Phase(k)' = "looking"
      BY Zenon, <2>2, <2>5, <3>1 DEF Phase
    <3>3. AnswersIn(sent') = {}
      BY Zenon, <2>4, <2>5, <3>1, NoAnswers
    <3>4. \E hs \in SUBSET ({h} \ {None}) : Queues' = [Queues EXCEPT ![k] = @ \cup hs]
      BY Zenon, <1>2, <2>3, <2>5, <3>1
    <3> QED BY Zenon, <1>1, <1>2, <2>3, <2>5, <3>2, <3>3, <3>4 DEF Unknown
  <2> QED BY Zenon, <2>6, <2>7
<1>5. CASE NsDropped(k)
  <2>1. sent' = {} /\ UNCHANGED <<sess, live>>
    BY Zenon, <1>5 DEF NsDropped
  <2> QED BY Zenon, <2>1, NoAnswers DEF Unseen, Phases, Queues, Phase
<1> QED BY Zenon, <1>3, <1>4, <1>5 DEF nd_proxy_handle_ns, k

\* An advertisement is a Find, or goes unseen.
LEMMA NaRefines ==
    ASSUME IInv, NEW i \in Ifaces, NEW a \in Addrs, ndL_handle_na(i, a)
    PROVE  (\E k \in Keys : Found(k)) \/ Unseen
<1>1. TypeOK /\ live' = live
  BY Zenon DEF IInv, StateInv, ndL_handle_na
<1>2. CASE Candidates(i, a) = {}
  <2>1. sent' = {} /\ sess' = sess
    BY Zenon, <1>2 DEF ndL_handle_na
  <2> QED BY Zenon, <1>1, <2>1, NoAnswers DEF Unseen, Phases, Queues, Phase
<1>3. CASE Candidates(i, a) # {}
  <2>1. PICK k, o : k \in nd_session_find_r(i, a) /\ o = nd_session_handle_na(k, sess[k]) /\ Commit(k, o)
    BY Zenon, <1>3 DEF ndL_handle_na
  <2>2. k \in live /\ k \in Keys /\ sess[k] \in SessionRec
    BY Zenon, <1>1, <2>1 DEF nd_session_find_r, Candidates, TypeOK
  <2>3. sess' = [sess EXCEPT ![k] = o.sess] /\ sent' = o.sent
    BY Zenon, <2>1 DEF Commit
  <2>4. /\ o.sess.state = "VALID"
        /\ sess[k].state = "VALID" => o.sess.subs = sess[k].subs /\ o.sent = {}
        /\ sess[k].state # "VALID" => /\ o.sess.subs = {}
                                      /\ AnswersIn(o.sent) = IF up[ProxyIface[k[1]]]
                                                             THEN {<<h, k>> : h \in sess[k].subs} ELSE {}
    <3>1. NaVisible(k, sess[k], o)
      BY Zenon, <2>1, <2>2, HandleNaVisible
    <3> QED BY Zenon, <3>1 DEF NaVisible
  <2>5. /\ Phases' = [Phases EXCEPT ![k] = Phase(k)'] /\ Queues' = [Queues EXCEPT ![k] = o.sess.subs]
        /\ sess'[k] = o.sess
    BY Zenon, <1>1, <2>2, <2>3, OneQuestion
  <2>6. Phases[k] = Phase(k) /\ Queues[k] = sess[k].subs /\ Links[k] = up[ProxyIface[k[1]]]
    BY Zenon, <2>2 DEF Phases, Queues, Links
  <2>7. Phase(k)' = "answering"
    BY Zenon, <1>1, <2>2, <2>4, <2>5 DEF Phase
  <2>8. CASE sess[k].state = "VALID"
    <3>1. Phase(k) = "answering"
      BY Zenon, <2>2, <2>8 DEF Phase
    <3>2. Phases' = [Phases EXCEPT ![k] = Phases[k]] /\ Queues' = [Queues EXCEPT ![k] = Queues[k]]
      BY Zenon, <2>4, <2>5, <2>6, <2>7, <2>8, <3>1
    <3>3. Phases = [j \in Keys |-> Phases[j]] /\ Queues = [j \in Keys |-> Queues[j]]
      BY Zenon DEF Phases, Queues
    <3> QED BY Zenon, <2>2, <2>3, <2>4, <2>8, <3>2, <3>3, SameValue, NoAnswers DEF Unseen
  <2>9. CASE sess[k].state # "VALID"
    <3>1. Phase(k) = "looking"
      BY Zenon, <2>2, <2>9 DEF Phase
    <3>2. Told(k, Queues[k])
      BY Zenon, <2>3, <2>4, <2>6, <2>9 DEF Told
    <3> QED BY Zenon, <2>2, <2>4, <2>5, <2>6, <2>7, <2>9, <3>1, <3>2 DEF Found
  <2> QED BY Zenon, <2>8, <2>9
<1> QED BY Zenon, <1>2, <1>3

\* A visit of nd_session_update lapses, forgets, or goes unseen.
LEMMA UpdateRefines ==
    ASSUME IInv, NEW k \in Keys, nd_session_update(k)
    PROVE  Lapsed(k) \/ Forgotten(k) \/ Unseen
<1>1. StateInv /\ TypeOK /\ k \in live /\ SessionOK(k, sess[k]) /\ sess[k] \in SessionRec
  BY Zenon DEF IInv, StateInv, SessionsOK, TypeOK, nd_session_update
<1>2. Phases[k] = Phase(k) /\ Queues[k] = sess[k].subs
  BY Zenon, <1>1 DEF Phases, Queues
<1>3. CASE sess[k].state = "INVALID" /\ sess[k].state_age >= INVALID_TTL
  <2>1. sess' = [sess EXCEPT ![k] = Blank] /\ live' = live \ {k} /\ sent' = ndL_down(k, sess[k])
    BY Zenon, <1>3 DEF nd_session_update, DeleteSession
  <2>2. AnswersIn(sent') = {}
    BY <2>1, NoAnswers DEF ndL_down, DelRoute
  <2>3. Phases' = [Phases EXCEPT ![k] = Phase(k)'] /\ Queues' = [Queues EXCEPT ![k] = Blank.subs]
    BY Zenon, <1>1, <2>1, OneQuestion
  <2>4. Phase(k) = "looking" /\ Phase(k)' = "idle" /\ Blank.subs = {}
    BY Zenon, <1>1, <1>3, <2>1 DEF Phase, Blank
  <2> QED BY Zenon, <1>2, <2>2, <2>3, <2>4 DEF Forgotten
<1>4. CASE ~(sess[k].state = "INVALID" /\ sess[k].state_age >= INVALID_TTL)
  <2>1. KeepSession(k)
    BY Zenon, <1>4 DEF nd_session_update
  <2>2. PICK o : /\ Commit(k, o)
                 /\ o.sess.subs = sess[k].subs
                 /\ \A m \in o.sent : m.type # "NA"
                 /\ o.sess.state = "VALID" => sess[k].state = "VALID"
    <3>1. CASE sess[k].state = "INCOMPLETE"
      <4>1. Commit(k, UpdateIncomplete(k, sess[k]))
        BY Zenon, <2>1, <3>1 DEF KeepSession
      <4> QED BY Zenon, <4>1, <1>1, <3>1, UpdateIncompleteOK, UpdateNeverFinds DEF UpdateOK
    <3>2. CASE sess[k].state = "VALID"
      <4>1. Commit(k, UpdateValid(k, sess[k]))
        BY Zenon, <2>1, <3>2 DEF KeepSession
      <4> QED BY Zenon, <4>1, <1>1, <3>2, UpdateValidOK DEF UpdateOK
    <3>3. CASE sess[k].state = "STALE"
      <4>1. Commit(k, UpdateStale(k, sess[k]))
        BY Zenon, <2>1, <3>3 DEF KeepSession
      <4> QED BY Zenon, <4>1, <1>1, <3>3, UpdateStaleOK, UpdateNeverFinds DEF UpdateOK
    <3>4. CASE sess[k].state = "INVALID"
      <4>1. Commit(k, Outcome(sess[k], {}, None))
        BY Zenon, <2>1, <3>4 DEF KeepSession
      <4>2. Outcome(sess[k], {}, None).sess = sess[k] /\ Outcome(sess[k], {}, None).sent = {}
        BY Zenon DEF Outcome
      <4> QED BY Zenon, <4>1, <4>2
    <3> QED BY Zenon, <3>1, <3>2, <3>3, <3>4, <1>1 DEF SessionRec, States
  <2>3. live' = live /\ sess' = [sess EXCEPT ![k] = o.sess] /\ sent' = o.sent
    BY Zenon, <2>1, <2>2 DEF KeepSession, Commit
  <2>4. /\ Phases' = [Phases EXCEPT ![k] = Phase(k)'] /\ Queues' = [Queues EXCEPT ![k] = Queues[k]]
        /\ sess'[k] = o.sess
    <3>1. /\ Phases' = [Phases EXCEPT ![k] = Phase(k)'] /\ Queues' = [Queues EXCEPT ![k] = o.sess.subs]
          /\ sess'[k] = o.sess
      BY Zenon, <1>1, <2>3, OneQuestion
    <3> QED BY Zenon, <3>1, <1>2, <2>2
  <2>5. AnswersIn(sent') = {}
    BY Zenon, <2>2, <2>3, NoAnswers
  <2>6. Phases = [j \in Keys |-> Phases[j]] /\ Queues = [j \in Keys |-> Queues[j]]
    BY Zenon DEF Phases, Queues
  <2>7. Queues' = Queues
    BY Zenon, <2>4, <2>6, SameValue
  <2>8. CASE Phase(k)' = Phase(k)
    BY Zenon, <1>2, <2>4, <2>5, <2>6, <2>7, <2>8, SameValue DEF Unseen
  <2>9. CASE Phase(k)' # Phase(k)
    <3>1. Phase(k) = "answering" /\ Phase(k)' = "looking"
      BY Zenon, <1>1, <2>2, <2>3, <2>4, <2>9 DEF Phase
    <3> QED BY Zenon, <1>2, <2>4, <2>5, <2>7, <3>1 DEF Lapsed
  <2> QED BY Zenon, <2>8, <2>9
<1> QED BY Zenon, <1>3, <1>4

\* A step that leaves the table alone, but for ages and autowired flags, and sends no
\* NA goes unseen.
LEMMA UnseenStep ==
    ASSUME live' = live, \A m \in sent' : m.type # "NA",
           \A k \in Keys : sess'[k].state = sess[k].state /\ sess'[k].subs = sess[k].subs
    PROVE  Unseen
<1>1. \A k \in Keys : Phase(k)' = Phase(k)
  BY Zenon DEF Phase
<1>2. Phases' = Phases /\ Queues' = Queues
  BY Zenon, <1>1 DEF Phases, Queues
<1> QED BY Zenon, <1>2, NoAnswers DEF Unseen

\* Every step of the session table is a step of Resolver or changes nothing of it.
LEMMA NextRefines == IInv /\ IInv' /\ [Next]_vars => [Promise!Next]_(Promise!vars)
<1> SUFFICES ASSUME IInv, IInv', [Next]_vars PROVE [Promise!Next]_(Promise!vars)
  OBVIOUS
<1>1. TypeOK /\ TypeOK' /\ Links' \in [Keys -> BOOLEAN]
  BY Zenon, MappedTypes DEF IInv, StateInv
<1>2. CASE Next
  <2> SUFFICES \/ \E k \in Keys, h \in Hosts \cup {None} : Answered(k, h) \/ Known(k, h) \/ Unknown(k, h)
               \/ \E k \in Keys : Found(k) \/ Lapsed(k) \/ Forgotten(k)
               \/ Unseen
    BY Zenon, <1>1, StepSpelled
  <2>1. CASE \E p \in Proxies, tgt \in Addrs, h \in Hosts \cup {None} : nd_proxy_handle_ns(p, tgt, h)
    BY Zenon, <2>1, NsRefines
  <2>2. CASE \E i \in Ifaces, a \in Addrs : ndL_handle_na(i, a)
    BY Zenon, <2>2, NaRefines
  <2>3. CASE \E k \in Keys : nd_session_update(k)
    BY Zenon, <2>3, UpdateRefines
  <2>4. CASE \E d \in Steps : MainLoop(d)
    <3>1. PICK d \in Steps : MainLoop(d)
      BY Zenon, <2>4
    <3>2. ASSUME NEW k \in Keys PROVE sess'[k].state = sess[k].state /\ sess'[k].subs = sess[k].subs
      <4>1. sess[k] \in SessionRec
        BY Zenon, <1>1 DEF TypeOK
      <4>2. Older(sess[k], d).state = sess[k].state /\ Older(sess[k], d).subs = sess[k].subs
        BY Zenon, <4>1 DEF Older, SessionRec
      <4>3. sess'[k] = IF k \in live THEN Older(sess[k], d) ELSE sess[k]
        BY Zenon, <3>1 DEF MainLoop
      <4> QED BY Zenon, <4>2, <4>3
    <3> QED BY Zenon, <3>1, <3>2, UnseenStep DEF MainLoop
  <2>5. CASE \E i \in Ifaces : nd_iface_rebind_all(i)
    <3>1. PICK i \in Ifaces : nd_iface_rebind_all(i)
      BY Zenon, <2>5
    <3>2. AutowireOnly(sess, sess')
      BY Zenon, <1>1, <3>1, RebindSessions DEF TypeOK
    <3>3. \A m \in sent' : m.type # "NA"
      <4>1. \A old, new : \A m \in RoutesAdded(old, new) : m.type # "NA"
        BY DEF RoutesAdded, AddRoute
      <4>2. sent' = {} \/ \E old, new : sent' = RoutesAdded(old, new)
        BY Zenon, <3>1 DEF nd_iface_rebind_all, IfaceGone, IfaceAdmin, IfaceBound
      <4> QED BY Zenon, <4>1, <4>2
    <3>4. live' = live
      BY Zenon, <3>1 DEF nd_iface_rebind_all
    <3> QED BY Zenon, <3>2, <3>3, <3>4, UnseenStep DEF AutowireOnly
  <2>6. CASE (\E x \in Routable, i \in Ifaces \cup {None} : RouteChanged(x, i)) \/ (\E x \in Ownable : AddrChanged(x))
    <3>1. sent' = {} /\ sess' = sess /\ live' = live
      BY Zenon, <2>6 DEF RouteChanged, AddrChanged
    <3> QED BY Zenon, <3>1, UnseenStep
  <2> QED BY Zenon, <1>2, <2>1, <2>2, <2>3, <2>4, <2>5, <2>6 DEF Next
<1>3. CASE UNCHANGED vars
  BY Zenon, <1>3 DEF vars, Promise!vars, Phase
<1> QED BY Zenon, <1>2, <1>3

\* The initial states of the session table are initial states of Resolver.
LEMMA InitRefines == Init => Promise!Init
<1> SUFFICES ASSUME Init PROVE Promise!Init
  OBVIOUS
<1>1. [k \in Keys |-> Phase(k)] = [k \in Keys |-> "idle"]
  BY Zenon DEF Init, Phase
<1>2. [k \in Keys |-> sess[k].subs] = [k \in Keys |-> {}]
  BY Zenon DEF Init, Blank
<1>3. [k \in Keys |-> up[ProxyIface[k[1]]]] \in [Keys -> BOOLEAN]
  BY Zenon, ConfigAssumption DEF Init, Keys
<1>4. {<<m.dst, m.key>> : m \in {x \in sent : x.type = "NA"}} = {}
  BY Zenon DEF Init
<1> QED BY Zenon, <1>1, <1>2, <1>3, <1>4 DEF Promise!Init

\* The session table implements Resolver: whatever the targets, the routes, the
\* interfaces and the clock do, the soliciting neighbours see nothing but answers to
\* questions they asked, the whole queue at once, and only while the target is known.
THEOREM KeepsPromiseThm == Spec => KeepsPromise
<1>1. IInv /\ [Next]_vars /\ IInv' => [Promise!Next]_(Promise!vars)
  BY Zenon, NextRefines
<1> QED BY <1>1, InitRefines, Invariant, PTL DEF Spec, KeepsPromise, Promise!Spec

=============================================================================
