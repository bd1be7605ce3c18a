---------------------------- MODULE RoutesProofs ----------------------------
(***************************************************************************)
(* The theorems about Routes, for every host, every size of the socket's   *)
(* buffer and every width of an address: the list of routes stays sorted   *)
(* with one route per key; what the daemon will hold once it has handled   *)
(* the messages that wait is what the kernel reports, but for the keys of  *)
(* which the kernel has had two routes, or one that was replaced in place. *)
(***************************************************************************)
EXTENDS Routes, SequenceTheorems, WellFoundedInduction, TLAPS

----------------------------------------------------------------------------
(* Numbers: a set of natural numbers has a least element.                  *)

Less == {p \in Nat \X Nat : p[1] < p[2]}

\* The order of the natural numbers, as the relation the library's theorem is about.
LEMMA LessWellFounded == IsWellFoundedOn(Less, Nat)
<1>1. IsWellFoundedOn(OpToRel(<, Nat), Nat)
  BY Zenon, NatLessThanWellFounded
<1>2. OpToRel(<, Nat) = Less
  BY Zenon DEF OpToRel, Less
<1> QED BY Zenon, <1>1, <1>2

\* What Min is for: the least of the positions that match.
LEMMA MinIs ==
    ASSUME NEW S \in SUBSET Nat, S # {}
    PROVE  Min(S) \in S /\ \A k \in S : Min(S) <= k
<1>1. PICK m \in S : \A k \in S : ~(<<k, m>> \in Less)
  BY LessWellFounded, WFMin
<1>2. ASSUME NEW k \in S PROVE m <= k
  <2>1. k \in Nat /\ m \in Nat
    BY Zenon
  <2>2. SUFFICES ASSUME k < m PROVE FALSE
    BY <2>1
  <2>3. <<k, m>> \in Nat \X Nat /\ <<k, m>>[1] = k /\ <<k, m>>[2] = m
    BY <2>1
  <2> QED BY <1>1, <2>2, <2>3 DEF Less
<1> QED BY <1>2 DEF Min

----------------------------------------------------------------------------
(* The list of routes.                                                     *)

\* The list: routes the handlers do not ignore, the most specific first, one per key.
ListOK(list) ==
    /\ \A i \in 1 .. Len(list) : Reported(list[i])
    /\ \A i, j \in 1 .. Len(list) : i < j => list[i].pflen >= list[j].pflen
    /\ \A i, j \in 1 .. Len(list) : SameKey(list[i], list[j]) => i = j

\* A route goes in at a place, and the ones behind it move.
LEMMA InsertAtIs ==
    ASSUME NEW R, NEW s \in Seq(R), NEW p \in 1 .. Len(s) + 1, NEW r \in R
    PROVE  LET t == InsertAt(s, p, r)
           IN  /\ t \in Seq(R)
               /\ Len(t) = Len(s) + 1
               /\ \A i \in 1 .. Len(s) + 1 : t[i] = IF i < p THEN s[i] ELSE IF i = p THEN r ELSE s[i - 1]
<1> DEFINE a == SubSeq(s, 1, p - 1)
           b == SubSeq(s, p, Len(s))
           c == a \o <<r>>
<1>1. Len(s) \in Nat /\ \A i \in 1 .. Len(s) : s[i] \in R
  BY LenProperties
<1>2. a \in Seq(R) /\ Len(a) = p - 1 /\ \A i \in 1 .. p - 1 : a[i] = s[i]
  BY <1>1, SubSeqProperties
<1>3. b \in Seq(R) /\ Len(b) = Len(s) - p + 1 /\ \A i \in 1 .. Len(s) - p + 1 : b[i] = s[p + i - 1]
  BY <1>1, SubSeqProperties
<1>4. <<r>> \in Seq(R) /\ Len(<<r>>) = 1 /\ <<r>>[1] = r
  OBVIOUS
<1> HIDE DEF a, b
<1>5. c \in Seq(R) /\ Len(c) = p /\ \A i \in 1 .. p : c[i] = IF i <= p - 1 THEN a[i] ELSE <<r>>[i - (p - 1)]
  BY <1>1, <1>2, <1>4, ConcatProperties
<1> HIDE DEF c
<1>6. /\ c \o b \in Seq(R) /\ Len(c \o b) = p + (Len(s) - p + 1)
      /\ \A i \in 1 .. p + (Len(s) - p + 1) : (c \o b)[i] = IF i <= p THEN c[i] ELSE b[i - p]
  <2>1. /\ c \o b \in Seq(R) /\ Len(c \o b) = Len(c) + Len(b)
        /\ \A i \in 1 .. Len(c) + Len(b) : (c \o b)[i] = IF i <= Len(c) THEN c[i] ELSE b[i - Len(c)]
    BY Zenon, <1>3, <1>5, ConcatProperties
  <2> QED BY Zenon, <1>3, <1>5, <2>1
<1>7. InsertAt(s, p, r) = c \o b
  BY Zenon DEF InsertAt, a, b, c
<1>8. ASSUME NEW i \in 1 .. Len(s) + 1
      PROVE  (c \o b)[i] = IF i < p THEN s[i] ELSE IF i = p THEN r ELSE s[i - 1]
  <2>1. CASE i < p
    BY <1>1, <1>2, <1>5, <1>6, <2>1
  <2>2. CASE i = p
    BY <1>1, <1>4, <1>5, <1>6, <2>2
  <2>3. CASE i > p
    <3>1. i - p \in 1 .. Len(s) - p + 1 /\ p + (i - p) - 1 = i - 1
      BY <1>1, <2>3
    <3> QED BY <1>1, <1>3, <1>6, <2>3, <3>1
  <2>4. i < p \/ i = p \/ i > p
    BY <1>1
  <2> QED BY Zenon, <2>1, <2>2, <2>3, <2>4
<1> QED BY <1>1, <1>6, <1>7, <1>8

\* A route goes out, and the ones behind it move.
LEMMA RemoveAtIs ==
    ASSUME NEW R, NEW s \in Seq(R), NEW p \in 1 .. Len(s)
    PROVE  LET t == RemoveAt(s, p)
           IN  /\ t \in Seq(R)
               /\ Len(t) = Len(s) - 1
               /\ \A i \in 1 .. Len(s) - 1 : t[i] = IF i < p THEN s[i] ELSE s[i + 1]
<1> DEFINE a == SubSeq(s, 1, p - 1)
           b == SubSeq(s, p + 1, Len(s))
<1>1. Len(s) \in Nat /\ \A i \in 1 .. Len(s) : s[i] \in R
  BY LenProperties
<1>2. a \in Seq(R) /\ Len(a) = p - 1 /\ \A i \in 1 .. p - 1 : a[i] = s[i]
  BY <1>1, SubSeqProperties
<1>3. b \in Seq(R) /\ Len(b) = Len(s) - p /\ \A i \in 1 .. Len(s) - p : b[i] = s[p + i]
  BY <1>1, SubSeqProperties
<1> HIDE DEF a, b
<1>4. /\ a \o b \in Seq(R) /\ Len(a \o b) = p - 1 + (Len(s) - p)
      /\ \A i \in 1 .. p - 1 + (Len(s) - p) : (a \o b)[i] = IF i <= p - 1 THEN a[i] ELSE b[i - (p - 1)]
  <2>1. /\ a \o b \in Seq(R) /\ Len(a \o b) = Len(a) + Len(b)
        /\ \A i \in 1 .. Len(a) + Len(b) : (a \o b)[i] = IF i <= Len(a) THEN a[i] ELSE b[i - Len(a)]
    BY Zenon, <1>2, <1>3, ConcatProperties
  <2> QED BY Zenon, <1>2, <1>3, <2>1
<1>5. RemoveAt(s, p) = a \o b
  BY Zenon DEF RemoveAt, a, b
<1>6. ASSUME NEW i \in 1 .. Len(s) - 1
      PROVE  (a \o b)[i] = IF i < p THEN s[i] ELSE s[i + 1]
  <2>1. CASE i < p
    BY <1>1, <1>2, <1>4, <2>1
  <2>2. CASE i >= p
    <3>1. i - (p - 1) \in 1 .. Len(s) - p /\ p + (i - (p - 1)) = i + 1
      BY <1>1, <2>2
    <3> QED BY <1>1, <1>3, <1>4, <2>2, <3>1
  <2>3. i < p \/ i >= p
    BY <1>1
  <2> QED BY Zenon, <2>1, <2>2, <2>3
<1> QED BY <1>1, <1>4, <1>5, <1>6

\* What handling a message makes of the set of routes that is known.
RoutesAfter(S, m) ==
    CASE m.type = "NEWROUTE" /\ Reported(m.route) ->
            IF \E q \in S : SameKey(q, m.route) THEN S ELSE S \cup {m.route}
      [] m.type = "DELROUTE" /\ Reported(m.route) ->
            {q \in S : ~(SameKey(q, m.route) /\ q.oif = m.route.oif)}
      [] OTHER -> S

\* The place is behind the more specific routes and before the others.
LEMMA InsertPositionIs ==
    ASSUME NEW s \in Seq(nd_rt_route), NEW r \in nd_rt_route, ListOK(s)
    PROVE  LET p == InsertPosition(s, r)
           IN  /\ p \in 1 .. Len(s) + 1
               /\ \A i \in 1 .. Len(s) : IF i < p THEN s[i].pflen > r.pflen ELSE r.pflen >= s[i].pflen
<1> DEFINE S == {i \in 1 .. Len(s) : r.pflen >= s[i].pflen} \cup {Len(s) + 1}
           p == Min(S)
<1>1. Len(s) \in Nat /\ \A i \in 1 .. Len(s) : s[i] \in nd_rt_route
  BY LenProperties
<1>2. r.pflen \in Int /\ \A i \in 1 .. Len(s) : s[i].pflen \in Int
  BY <1>1 DEF nd_rt_route
<1>3. S \in SUBSET Nat /\ S # {}
  BY <1>1
<1>4. p \in S /\ \A k \in S : p <= k
  BY <1>3, MinIs
<1>5. InsertPosition(s, r) = p
  BY Zenon DEF InsertPosition
<1> HIDE DEF p
<1>6. p \in 1 .. Len(s) + 1
  BY <1>1, <1>4
<1>7. ASSUME NEW i \in 1 .. Len(s), i < p
      PROVE  s[i].pflen > r.pflen
  <2>1. i \notin S
    BY <1>1, <1>4, <1>6, <1>7
  <2> QED BY <1>2, <2>1
<1>8. ASSUME NEW i \in 1 .. Len(s), ~(i < p)
      PROVE  r.pflen >= s[i].pflen
  <2>1. p \in 1 .. Len(s) /\ r.pflen >= s[p].pflen
    BY <1>1, <1>4, <1>6, <1>8
  <2>2. s[p].pflen >= s[i].pflen
    BY <1>2, <1>8, <2>1 DEF ListOK
  <2> QED BY <1>2, <2>1, <2>2
<1> QED BY Zenon, <1>5, <1>6, <1>7, <1>8

\* NEWROUTE, as a step of the set of routes; the list stays sorted, with one route per key.
LEMMA HandleNewRoute ==
    ASSUME NEW R \in SUBSET nd_rt_route, NEW s \in Seq(R), NEW r \in R, ListOK(s)
    PROVE  LET t == ndL_handle_newroute(s, r)
           IN  t \in Seq(R) /\ ListOK(t) /\ Range(t) = RoutesAfter(Range(s), NewRoute(r))
<1>1. Len(s) \in Nat /\ DOMAIN s = 1 .. Len(s) /\ \A i \in 1 .. Len(s) : s[i] \in R
  BY LenProperties
<1>2. NewRoute(r).type = "NEWROUTE" /\ NewRoute(r).route = r
  BY DEF NewRoute
<1>3. (\E q \in Range(s) : SameKey(q, r)) <=> \E i \in 1 .. Len(s) : SameKey(s[i], r)
  BY Zenon, <1>1 DEF Range
<1>4. CASE ~Reported(r) \/ \E i \in 1 .. Len(s) : SameKey(s[i], r)
  BY <1>2, <1>3, <1>4 DEF ndL_handle_newroute, ndL_new_route, RoutesAfter
<1>5. CASE Reported(r) /\ ~\E i \in 1 .. Len(s) : SameKey(s[i], r)
  <2> DEFINE p == InsertPosition(s, r)
             t == InsertAt(s, p, r)
  <2>1. ndL_handle_newroute(s, r) = t
    BY Zenon, <1>5 DEF ndL_handle_newroute, ndL_new_route
  <2>2. s \in Seq(nd_rt_route) /\ r \in nd_rt_route
    BY <1>1
  <2>3. /\ p \in 1 .. Len(s) + 1
        /\ \A i \in 1 .. Len(s) : IF i < p THEN s[i].pflen > r.pflen ELSE r.pflen >= s[i].pflen
    BY Zenon, <2>2, InsertPositionIs
  <2> HIDE DEF p
  <2>4. /\ t \in Seq(R) /\ Len(t) = Len(s) + 1
        /\ \A i \in 1 .. Len(s) + 1 : t[i] = IF i < p THEN s[i] ELSE IF i = p THEN r ELSE s[i - 1]
    <3>1. p \in 1 .. Len(s) + 1
      BY <2>3
    <3> QED BY SMTT(60), <3>1, InsertAtIs
  <2> HIDE DEF t
  <2>5. r.pflen \in Int /\ \A i \in 1 .. Len(s) : s[i].pflen \in Int
    BY <1>1, <2>2 DEF nd_rt_route
  <2>6. DOMAIN t = 1 .. Len(s) + 1
    BY <2>4, LenProperties
  <2>7. ListOK(t)
    <3> DEFINE was(i) == IF i < p THEN i ELSE i - 1
    <3>1. /\ t[p] = r
          /\ \A i \in 1 .. Len(s) + 1 : i # p => was(i) \in 1 .. Len(s) /\ t[i] = s[was(i)]
      BY <1>1, <2>3, <2>4
    <3>2. \A i, j \in 1 .. Len(s) + 1 : i # p /\ j # p => (i < j <=> was(i) < was(j)) /\ (i = j <=> was(i) = was(j))
      BY <1>1, <2>3
    <3>3. \A i \in 1 .. Len(s) + 1 : i # p => (i < p <=> was(i) < p)
      BY <1>1, <2>3
    <3> HIDE DEF was
    <3>4. \A i \in 1 .. Len(s) + 1 : Reported(t[i])
      BY <1>5, <3>1 DEF ListOK
    <3>5. ASSUME NEW i \in 1 .. Len(s) + 1, NEW j \in 1 .. Len(s) + 1, i < j
          PROVE  t[i].pflen >= t[j].pflen
      <4>1. CASE i # p /\ j # p
        BY <3>1, <3>2, <3>5, <4>1 DEF ListOK
      <4>2. CASE i = p
        <5>1. j # p /\ ~(was(j) < p)
          BY <2>3, <3>3, <3>5, <4>2
        <5> QED BY <2>3, <3>1, <4>2, <5>1
      <4>3. CASE j = p
        <5>1. i # p /\ was(i) < p
          BY <2>3, <3>3, <3>5, <4>3
        <5> QED BY <2>3, <2>5, <3>1, <4>3, <5>1
      <4> QED BY <4>1, <4>2, <4>3
    <3>6. ASSUME NEW i \in 1 .. Len(s) + 1, NEW j \in 1 .. Len(s) + 1, SameKey(t[i], t[j])
          PROVE  i = j
      <4>1. \A k \in 1 .. Len(s) : ~SameKey(s[k], r) /\ ~SameKey(r, s[k])
        BY <1>5 DEF SameKey
      <4>2. CASE i # p /\ j # p
        BY <3>1, <3>2, <3>6, <4>2 DEF ListOK
      <4>3. CASE i = p \/ j = p
        BY <3>1, <3>6, <4>1, <4>3
      <4> QED BY <4>2, <4>3
    <3> QED BY <2>4, <3>4, <3>5, <3>6 DEF ListOK
  <2>8. Range(t) = Range(s) \cup {r}
    <3>1. ASSUME NEW i \in 1 .. Len(s) + 1 PROVE t[i] \in Range(s) \cup {r}
      <4>1. t[i] = r \/ \E k \in 1 .. Len(s) : t[i] = s[k]
        BY <1>1, <2>3, <2>4
      <4> QED BY Zenon, <1>1, <4>1 DEF Range
    <3>2. ASSUME NEW i \in 1 .. Len(s) PROVE s[i] \in Range(t)
      <4>1. CASE i < p
        BY <1>1, <2>3, <2>4, <2>6, <4>1 DEF Range
      <4>2. CASE ~(i < p)
        <5>1. i + 1 \in 1 .. Len(s) + 1 /\ t[i + 1] = s[i]
          BY <1>1, <2>3, <2>4, <4>2
        <5> QED BY <2>6, <5>1 DEF Range
      <4> QED BY <4>1, <4>2
    <3>3. r \in Range(t)
      BY <1>1, <2>3, <2>4, <2>6 DEF Range
    <3> QED BY <1>1, <2>6, <3>1, <3>2, <3>3 DEF Range
  <2>9. RoutesAfter(Range(s), NewRoute(r)) = Range(s) \cup {r}
    BY <1>2, <1>3, <1>5 DEF RoutesAfter
  <2> QED BY Zenon, <2>1, <2>4, <2>7, <2>8, <2>9
<1> QED BY Zenon, <1>4, <1>5

\* DELROUTE, as a step of the set of routes: no more than one route has the key.
LEMMA HandleDelRoute ==
    ASSUME NEW R \in SUBSET nd_rt_route, NEW s \in Seq(R), NEW r \in R, ListOK(s)
    PROVE  LET t == ndL_handle_delroute(s, r)
           IN  t \in Seq(R) /\ ListOK(t) /\ Range(t) = RoutesAfter(Range(s), DelRoute(r))
<1> DEFINE Match(q) == SameKey(q, r) /\ q.oif = r.oif
           S == {i \in 1 .. Len(s) : Match(s[i])}
           p == Min(S)
<1>1. Len(s) \in Nat /\ DOMAIN s = 1 .. Len(s) /\ \A i \in 1 .. Len(s) : s[i] \in R
  BY LenProperties
<1>2. DelRoute(r).type = "DELROUTE" /\ DelRoute(r).route = r
  BY DEF DelRoute
<1>3. CASE ~Reported(r)
  BY <1>2, <1>3 DEF ndL_handle_delroute, RoutesAfter
<1>4. CASE Reported(r) /\ S = {}
  <2>1. ndL_handle_delroute(s, r) = s
    BY <1>4 DEF ndL_handle_delroute, ndL_delete_route, RemoveFirst, Matching
  <2>2. \A q \in Range(s) : ~Match(q)
    BY <1>1, <1>4 DEF Range
  <2>3. RoutesAfter(Range(s), DelRoute(r)) = Range(s)
    BY <1>2, <1>4, <2>2 DEF RoutesAfter
  <2> QED BY Zenon, <2>1, <2>3
<1>5. CASE Reported(r) /\ S # {}
  <2> DEFINE t == RemoveAt(s, p)
  <2>1. ndL_handle_delroute(s, r) = t
    BY <1>5 DEF ndL_handle_delroute, ndL_delete_route, RemoveFirst, Matching
  <2>2. S \in SUBSET Nat
    BY <1>1
  <2>3. p \in S
    BY <1>5, <2>2, MinIs
  <2> HIDE DEF p
  <2>4. p \in 1 .. Len(s) /\ Match(s[p])
    BY <2>3
  <2>5. /\ t \in Seq(R) /\ Len(t) = Len(s) - 1
        /\ \A i \in 1 .. Len(s) - 1 : t[i] = IF i < p THEN s[i] ELSE s[i + 1]
    BY <2>4, RemoveAtIs
  <2> HIDE DEF t
  <2>6. DOMAIN t = 1 .. Len(s) - 1
    BY <2>5, LenProperties
  <2> DEFINE was(i) == IF i < p THEN i ELSE i + 1
  <2>7. \A i \in 1 .. Len(s) - 1 : was(i) \in 1 .. Len(s) /\ was(i) # p /\ t[i] = s[was(i)]
    BY <1>1, <2>4, <2>5
  <2>8. \A i, j \in 1 .. Len(s) - 1 : (i < j <=> was(i) < was(j)) /\ (i = j <=> was(i) = was(j))
    BY <1>1, <2>4
  <2>9. \A k \in 1 .. Len(s) : k # p => \E i \in 1 .. Len(s) - 1 : was(i) = k
    <3> SUFFICES ASSUME NEW k \in 1 .. Len(s), k # p
                 PROVE  \E i \in 1 .. Len(s) - 1 : was(i) = k
      OBVIOUS
    <3>1. CASE k < p
      BY <1>1, <2>4, <3>1
    <3>2. CASE k > p
      <4>1. k - 1 \in 1 .. Len(s) - 1 /\ was(k - 1) = k
        BY <1>1, <2>4, <3>2
      <4> QED BY <4>1
    <3> QED BY <2>4, <3>1, <3>2
  <2> HIDE DEF was
  <2>10. ListOK(t)
    BY <2>5, <2>7, <2>8 DEF ListOK
  <2>11. \A k \in 1 .. Len(s) : Match(s[k]) <=> k = p
    BY <2>4 DEF ListOK, SameKey
  <2>12. Range(t) = {q \in Range(s) : ~Match(q)}
    <3>1. ASSUME NEW i \in 1 .. Len(s) - 1 PROVE t[i] \in Range(s) /\ ~Match(t[i])
      BY <1>1, <2>7, <2>11 DEF Range
    <3>2. ASSUME NEW k \in 1 .. Len(s), k # p PROVE s[k] \in Range(t)
      BY <2>6, <2>7, <2>9, <3>2 DEF Range
    <3> QED BY <1>1, <2>6, <2>11, <3>1, <3>2 DEF Range
  <2>13. RoutesAfter(Range(s), DelRoute(r)) = {q \in Range(s) : ~Match(q)}
    BY <1>2, <1>5 DEF RoutesAfter
  <2> QED BY Zenon, <2>1, <2>5, <2>10, <2>12, <2>13
<1> QED BY Zenon, <1>3, <1>4, <1>5

\* nd_rt_find_route stops at the first match, which in such a list is the most specific.
LEMMA FindIsLongest ==
    ASSUME NEW R \in SUBSET nd_rt_route, ndL_routes \in Seq(R), ListOK(ndL_routes), None \notin R,
           NEW addr, NEW table
    PROVE  LET found == nd_rt_find_route(addr, table)
               covering == {r \in Known : r.table = table /\ nd_addr_match(r.dst, addr, r.pflen)}
           IN  IF covering = {}
               THEN found = None
               ELSE found \in covering /\ \A r \in covering : r.pflen <= found.pflen
<1> DEFINE s == ndL_routes
           Match(q) == nd_addr_match(q.dst, addr, q.pflen) /\ q.table = table
           S == {i \in 1 .. Len(s) : Match(s[i])}
           p == Min(S)
           covering == {r \in Known : r.table = table /\ nd_addr_match(r.dst, addr, r.pflen)}
<1>1. Len(s) \in Nat /\ DOMAIN s = 1 .. Len(s) /\ \A i \in 1 .. Len(s) : s[i] \in R
  BY LenProperties
<1>2. \A i \in 1 .. Len(s) : s[i].pflen \in Int
  BY <1>1 DEF nd_rt_route
<1>3. covering = {s[i] : i \in S}
  BY <1>1 DEF Known, Range
<1>4. nd_rt_find_route(addr, table) = IF S = {} THEN None ELSE s[p]
  BY Zenon DEF nd_rt_find_route, Matching
<1>5. CASE S = {}
  BY <1>3, <1>4, <1>5
<1>6. CASE S # {}
  <2>1. S \in SUBSET Nat
    BY <1>1
  <2>2. p \in S /\ \A k \in S : p <= k
    BY <1>6, <2>1, MinIs
  <2> HIDE DEF p
  <2>3. p \in 1 .. Len(s) /\ p # 0
    BY <1>1, <2>2
  <2>4. nd_rt_find_route(addr, table) = s[p]
    BY <1>4, <1>6
  <2>5. s[p] \in covering
    BY Zenon, <1>3, <2>2
  <2>6. ASSUME NEW r \in covering PROVE r.pflen <= s[p].pflen
    <3>1. PICK k \in S : r = s[k]
      BY Zenon, <1>3
    <3>2. p = k \/ p < k
      BY <1>1, <2>2, <2>3
    <3> QED BY <1>2, <2>3, <3>1, <3>2 DEF ListOK
  <2> QED BY Zenon, <2>4, <2>5, <2>6
<1> QED BY Zenon, <1>5, <1>6

----------------------------------------------------------------------------
(* What the messages that wait will make of the lists.                     *)

AddrsAfter(S, m) ==
    CASE m.type = "NEWADDR" -> S \cup {m.addr} [] m.type = "DELADDR" -> S \ {m.addr} [] OTHER -> S

\* The two lists as sets, and what handling a message makes of them.
Copy == [routes |-> Known, addrs |-> ndL_addrs]

After(c, m) == [routes |-> RoutesAfter(c.routes, m), addrs |-> AddrsAfter(c.addrs, m)]

\* Handling the messages one by one turns c into e.
Becomes(c, msgs, e) ==
    \E h : /\ h[0] = c
           /\ \A i \in 1 .. Len(msgs) : h[i] = After(h[i - 1], msgs[i])
           /\ h[Len(msgs)] = e

\* With nothing to handle nothing changes.
LEMMA BecomesEmpty == ASSUME NEW c PROVE Becomes(c, <<>>, c)
<1> DEFINE h == [i \in {0} |-> c]
<1>1. h[0] = c /\ Len(<<>>) = 0 /\ \A i \in 1 .. 0 : FALSE
  OBVIOUS
<1> HIDE DEF h
<1> QED BY <1>1 DEF Becomes

\* One more message is handled last.
LEMMA BecomesAppend ==
    ASSUME NEW M, NEW msgs \in Seq(M), NEW m \in M, NEW c, NEW e, Becomes(c, msgs, e)
    PROVE  Becomes(c, Append(msgs, m), After(e, m))
<1>1. PICK h : h[0] = c /\ (\A i \in 1 .. Len(msgs) : h[i] = After(h[i - 1], msgs[i])) /\ h[Len(msgs)] = e
  BY DEF Becomes
<1> DEFINE n == Len(msgs) + 1
           t == Append(msgs, m)
           g == [i \in 0 .. n |-> IF i = n THEN After(e, m) ELSE h[i]]
<1>2. Len(msgs) \in Nat
  BY LenProperties
<1>3. Len(t) = n /\ t[n] = m /\ \A i \in 1 .. Len(msgs) : t[i] = msgs[i]
  BY AppendProperties
<1>4. g[0] = c /\ g[n] = After(e, m) /\ \A i \in 0 .. Len(msgs) : g[i] = h[i]
  BY <1>1, <1>2
<1> HIDE DEF g, t
<1>5. ASSUME NEW i \in 1 .. n PROVE g[i] = After(g[i - 1], t[i])
  <2>1. CASE i = n
    BY <1>1, <1>2, <1>3, <1>4, <2>1
  <2>2. CASE i # n
    <3>1. i \in 1 .. Len(msgs) /\ i \in 0 .. Len(msgs) /\ i - 1 \in 0 .. Len(msgs)
      BY <1>2, <2>2
    <3> QED BY Zenon, <1>1, <1>3, <1>4, <3>1
  <2> QED BY <2>1, <2>2
<1>6. Becomes(c, t, After(e, m))
  BY Zenon, <1>3, <1>4, <1>5 DEF Becomes
<1> QED BY <1>6 DEF t

\* The first message is handled now, the others later.
LEMMA BecomesTail ==
    ASSUME NEW M, NEW msgs \in Seq(M), msgs # <<>>, NEW c, NEW e, Becomes(c, msgs, e)
    PROVE  Becomes(After(c, Head(msgs)), Tail(msgs), e)
<1>1. PICK h : h[0] = c /\ (\A i \in 1 .. Len(msgs) : h[i] = After(h[i - 1], msgs[i])) /\ h[Len(msgs)] = e
  BY DEF Becomes
<1> DEFINE t == Tail(msgs)
           g == [i \in 0 .. Len(t) |-> h[i + 1]]
<1>2. Len(msgs) \in Nat \ {0} /\ Head(msgs) = msgs[1]
  BY LenProperties, EmptySeq
<1>3. Len(t) = Len(msgs) - 1 /\ \A i \in 1 .. Len(t) : t[i] = msgs[i + 1]
  BY HeadTailProperties
<1> HIDE DEF t
<1>4. \A i \in 0 .. Len(t) : g[i] = h[i + 1]
  OBVIOUS
<1> HIDE DEF g
<1>5. g[0] = After(c, Head(msgs)) /\ g[Len(t)] = e
  BY <1>1, <1>2, <1>3, <1>4
<1>6. ASSUME NEW i \in 1 .. Len(t) PROVE g[i] = After(g[i - 1], t[i])
  <2>1. /\ i \in 0 .. Len(t) /\ i - 1 \in 0 .. Len(t)
        /\ i + 1 \in 1 .. Len(msgs) /\ (i - 1) + 1 = i /\ (i + 1) - 1 = i
    BY <1>2, <1>3
  <2>2. g[i] = h[i + 1] /\ g[i - 1] = h[i]
    BY <1>4, <2>1
  <2>3. h[i + 1] = After(h[i], msgs[i + 1])
    BY <1>1, <2>1
  <2> QED BY Zenon, <1>3, <2>2, <2>3
<1>7. Becomes(After(c, Head(msgs)), t, e)
  BY Zenon, <1>5, <1>6 DEF Becomes
<1> QED BY <1>7 DEF t

\* The route that handling a deletion takes out of the list, if it is there.
Deletes(m, q) == Reported(m.route) /\ SameKey(q, m.route) /\ q.oif = m.route.oif

\* The deletions of nd_rt_remove_owned_routes are handled last.
LEMMA BecomesDeletions ==
    ASSUME NEW M, NEW msgs \in Seq(M), NEW dels \in Seq(M), NEW c, NEW e, Becomes(c, msgs, e),
           e = [routes |-> e.routes, addrs |-> e.addrs],
           \A k \in 1 .. Len(dels) : dels[k].type = "DELROUTE"
    PROVE  Becomes(c, msgs \o dels,
                   [routes |-> {q \in e.routes : \A k \in 1 .. Len(dels) : ~Deletes(dels[k], q)}, addrs |-> e.addrs])
<1>1. PICK h : h[0] = c /\ (\A i \in 1 .. Len(msgs) : h[i] = After(h[i - 1], msgs[i])) /\ h[Len(msgs)] = e
  BY DEF Becomes
<1> DEFINE n == Len(msgs)
           d == Len(dels)
           t == msgs \o dels
           rest(j) == [routes |-> {q \in e.routes : \A k \in 1 .. j : ~Deletes(dels[k], q)}, addrs |-> e.addrs]
           g == [i \in 0 .. n + d |-> IF i <= n THEN h[i] ELSE rest(i - n)]
<1>2. n \in Nat /\ d \in Nat
  BY LenProperties
<1>3. Len(t) = n + d /\ \A i \in 1 .. n + d : t[i] = IF i <= n THEN msgs[i] ELSE dels[i - n]
  BY ConcatProperties
<1> HIDE DEF t
<1>4. rest(0) = e
  <2>1. {q \in e.routes : \A k \in 1 .. 0 : ~Deletes(dels[k], q)} = e.routes
    OBVIOUS
  <2> QED BY Zenon, <2>1
<1>5. ASSUME NEW k \in 1 .. d PROVE rest(k) = After(rest(k - 1), dels[k])
  <2> DEFINE S == rest(k - 1).routes
  <2>1. S = {q \in e.routes : \A i \in 1 .. k - 1 : ~Deletes(dels[i], q)} /\ rest(k - 1).addrs = e.addrs
    OBVIOUS
  <2>2. dels[k].type = "DELROUTE"
    OBVIOUS
  <2> HIDE DEF S
  <2>3. RoutesAfter(S, dels[k]) = {q \in S : ~Deletes(dels[k], q)}
    BY <2>2 DEF RoutesAfter, Deletes
  <2>4. \A q : (\A i \in 1 .. k : ~Deletes(dels[i], q)) <=> (\A i \in 1 .. k - 1 : ~Deletes(dels[i], q)) /\ ~Deletes(dels[k], q)
    BY <1>2
  <2>5. {q \in S : ~Deletes(dels[k], q)} = {q \in e.routes : \A i \in 1 .. k : ~Deletes(dels[i], q)}
    BY <2>1, <2>4
  <2>6. AddrsAfter(rest(k - 1).addrs, dels[k]) = e.addrs
    BY <2>1, <2>2 DEF AddrsAfter
  <2> QED BY Zenon, <2>3, <2>5, <2>6 DEF After, S
<1> HIDE DEF rest
<1>6. (\A i \in 0 .. n : g[i] = h[i]) /\ (\A k \in 0 .. d : g[n + k] = rest(k))
  <2>1. \A i \in 0 .. n : g[i] = h[i]
    BY <1>2
  <2>2. ASSUME NEW k \in 0 .. d PROVE g[n + k] = rest(k)
    <3>1. CASE k = 0
      BY <1>1, <1>2, <1>4, <3>1
    <3>2. CASE k # 0
      <4>1. n + k \in 0 .. n + d /\ ~(n + k <= n) /\ (n + k) - n = k
        BY <1>2, <3>2
      <4> QED BY <4>1
    <3> QED BY <3>1, <3>2
  <2> QED BY <2>1, <2>2
<1> HIDE DEF g
<1>7. ASSUME NEW i \in 1 .. n + d PROVE g[i] = After(g[i - 1], t[i])
  <2>1. CASE i <= n
    <3>1. i \in 1 .. n /\ i \in 0 .. n /\ i - 1 \in 0 .. n
      BY <1>2, <2>1
    <3> QED BY <1>1, <1>3, <1>6, <2>1, <3>1
  <2>2. CASE i > n
    <3>1. /\ i - n \in 1 .. d /\ i - n \in 0 .. d /\ (i - n) - 1 \in 0 .. d
          /\ n + (i - n) = i /\ n + ((i - n) - 1) = i - 1 /\ ~(i <= n)
      BY <1>2, <2>2
    <3>2. g[i] = rest(i - n) /\ g[i - 1] = rest((i - n) - 1)
      BY <1>6, <3>1
    <3> QED BY <1>3, <1>5, <3>1, <3>2
  <2> QED BY <1>2, <2>1, <2>2
<1>8. g[0] = c /\ g[n + d] = rest(d)
  BY <1>1, <1>2, <1>6
<1>9. Becomes(c, t, rest(d))
  BY Zenon, <1>3, <1>7, <1>8 DEF Becomes
<1> QED BY <1>9 DEF t, rest

----------------------------------------------------------------------------
(* The inductive invariant.                                                *)

\* The two lists, once everything that waits is handled, and what the kernel has: what is
\* missing is what the dump in progress has yet to report.
Agrees(e) ==
    /\ \A r \in e.routes : Reported(r) /\ (r \in kernel \/ Key(r) \in replaced)
    /\ \A r \in kernel :
          Reported(r) =>
            r \in e.routes \/ Key(r) \in doubled \cup replaced \/ stage = "opened" \/ NewRoute(r) \in walk
    /\ e.addrs \subseteq hosted
    /\ \A a \in hosted : a \in e.addrs \/ NewAddr(a) \in walk \/ stage # "running" \/ expired

Follows == ~lost => \E e : Becomes(Copy, nl, e) /\ Agrees(e)

\* The dump of routes is over when its end was handled, or waits.
DumpOK ==
    /\ stage = "opened" => walk = {} /\ \A i \in 1 .. Len(nl) : nl[i] # Done
    /\ stage = "querying" /\ (timer = 0 \/ \E i \in 1 .. Len(nl) : nl[i] = Done) => walk = {}

IsRouteMessage(m) == m.type \in {"NEWROUTE", "DELROUTE"}

\* A route that an earlier process left, has been there all the time and was alone with its key:
\* nothing else of its key is known or reported, and it is known when the dump is over.
Awaited(r) ==
    /\ \A q \in Known : SameKey(q, r) => q = r
    /\ \A i \in 1 .. Len(nl) : IsRouteMessage(nl[i]) /\ SameKey(nl[i].route, r) => nl[i] = NewRoute(r)
    /\ \/ stage = "opened"
       \/ NewRoute(r) \in walk
       \/ r \in Known
       \/ \E i \in 1 .. Len(nl) : nl[i] = NewRoute(r) /\ \A j \in 1 .. i : nl[j] # Done
    /\ stage = "querying" /\ timer = 0 => r \in Known

EarlierOK ==
    IF stage = "running"
    THEN ~expired => \A r \in left : Key(r) \in doubled
    ELSE \A r \in left : Key(r) \notin doubled => Awaited(r)

\* Two routes of a key are noticed.
DoubledOK == \A q, r \in kernel : SameKey(q, r) /\ q # r => Key(r) \in doubled

IInv ==
    /\ TypeOK
    /\ ListOK(ndL_routes)
    /\ DoubledOK
    /\ DumpOK
    /\ Follows
    /\ EarlierOK

\* What a host is.
LEMMA WorldFacts ==
    ASSUME TypeOK
    PROVE  /\ world.routes \in SUBSET nd_rt_route
           /\ \A r \in world.earlier : r \in world.routes /\ r.owned /\ Reported(r)
           /\ None \notin world.routes
BY RoutesAssumption DEF TypeOK, World, Reported

\* What a message is, by its type.
LEMMA MessageFacts ==
    ASSUME NEW m \in Message
    PROVE  /\ m.type = "NEWROUTE" => m.route \in world.routes /\ m = NewRoute(m.route)
           /\ m.type = "DELROUTE" => m.route \in world.routes /\ m = DelRoute(m.route)
           /\ m.type = "NEWADDR" => m.addr \in world.addresses
           /\ m.type = "DELADDR" => m.addr \in world.addresses
           /\ m.type = "DONE" <=> m = Done
BY DEF Message, NewRoute, DelRoute, NewAddr, DelAddr, Done

\* An event is one of the messages; which message it is can be told.
LEMMA EventFacts ==
    /\ \A r \in world.routes : NewRoute(r) \in Message /\ DelRoute(r) \in Message
    /\ \A a \in world.addresses : NewAddr(a) \in Message /\ DelAddr(a) \in Message
    /\ Done \in Message
    /\ \A r : /\ NewRoute(r).type = "NEWROUTE" /\ NewRoute(r).route = r
              /\ DelRoute(r).type = "DELROUTE" /\ DelRoute(r).route = r
    /\ \A a : /\ NewAddr(a).type = "NEWADDR" /\ NewAddr(a).addr = a
              /\ DelAddr(a).type = "DELADDR" /\ DelAddr(a).addr = a
    /\ Done.type = "DONE"
BY DEF Message, NewRoute, DelRoute, NewAddr, DelAddr, Done

\* Initially nothing is known and nothing waits.
LEMMA InitInv == Init => IInv
<1> SUFFICES ASSUME Init PROVE IInv
  OBVIOUS
<1>1. world \in Worlds /\ kernel \subseteq world.routes /\ hosted \subseteq world.addresses
  BY RoutesAssumption DEF Init
<1>2. TypeOK
  <2>1. left \subseteq kernel \cap world.earlier /\ doubled \cup replaced \subseteq {Key(r) : r \in world.routes}
    BY <1>1 DEF Init
  <2>2. nl \in Seq(Message) /\ Len(nl) <= NLMAX /\ ndL_routes \in Seq(world.routes)
    BY RoutesAssumption, EmptySeq DEF Init
  <2>3. timer \in 0 .. DUMP_TIMEOUT
    BY RoutesAssumption DEF Init
  <2> QED BY Zenon, <1>1, <2>1, <2>2, <2>3 DEF Init, TypeOK
<1>3. Known = {}
  BY DEF Init, Known, Range
<1>4. Follows
  <2>1. Becomes(Copy, nl, Copy)
    BY Zenon, BecomesEmpty DEF Init
  <2>2. Agrees(Copy)
    BY <1>3 DEF Agrees, Copy, Init
  <2> QED BY <2>1, <2>2 DEF Follows
<1>5. EarlierOK
  BY <1>3 DEF EarlierOK, Awaited, Init
<1>6. DoubledOK
  BY DEF DoubledOK, Init, SameKey
<1> QED BY <1>2, <1>4, <1>5, <1>6 DEF IInv, Init, ListOK, DumpOK

----------------------------------------------------------------------------
(* The kernel's events.                                                    *)

\* The messages that wait after an event: the same, or one more at the end.
LEMMA NotifyFacts ==
    ASSUME TypeOK, NEW m \in Message, Notify(m), world' = world
    PROVE  /\ nl' \in Seq(Message)' /\ Len(nl') <= NLMAX /\ lost' \in BOOLEAN
           /\ ~lost' => ~lost /\ nl' = Append(nl, m)
           /\ Len(nl') \in Nat /\ Len(nl) \in Nat /\ Len(nl) <= Len(nl')
           /\ \A i \in 1 .. Len(nl) : nl'[i] = nl[i]
           /\ \A i \in 1 .. Len(nl') : nl'[i] = m \/ (i \in 1 .. Len(nl) /\ nl'[i] = nl[i])
<1>1. Message' = Message
  BY DEF Message
<1>2. nl \in Seq(Message) /\ Len(nl) \in Nat /\ Len(nl) <= NLMAX /\ lost \in BOOLEAN /\ NLMAX \in Nat
  BY LenProperties, RoutesAssumption DEF TypeOK
<1>3. CASE Len(nl) < NLMAX
  <2>1. nl' = Append(nl, m) /\ lost' = lost
    BY <1>3 DEF Notify
  <2>2. /\ nl' \in Seq(Message) /\ Len(nl') = Len(nl) + 1
        /\ (\A i \in 1 .. Len(nl) : nl'[i] = nl[i]) /\ nl'[Len(nl) + 1] = m
    BY <1>2, <2>1, AppendProperties
  <2>3. \A i \in 1 .. Len(nl) + 1 : i = Len(nl) + 1 \/ i \in 1 .. Len(nl)
    BY <1>2
  <2> QED BY <1>1, <1>2, <1>3, <2>1, <2>2, <2>3
<1>4. CASE ~(Len(nl) < NLMAX)
  BY <1>1, <1>2, <1>4 DEF Notify
<1> QED BY <1>3, <1>4

\* An event keeps the invariant if what it says is what happened, and if it says nothing
\* else of a route that an earlier process left.
LEMMA EventInv ==
    ASSUME IInv, NEW m \in Message, m # Done, Notify(m),
           UNCHANGED <<world, walk, ndL_routes, ndL_addrs, stage, timer, expired>>,
           kernel' \subseteq world.routes, hosted' \subseteq world.addresses, wired' \subseteq world.routes,
           left' \subseteq left, left' \subseteq kernel', doubled \subseteq doubled',
           doubled' \cup replaced' \subseteq {Key(r) : r \in world.routes}, DoubledOK',
           \A e : Agrees(e) => Agrees(After(e, m))',
           \A r \in left' : Key(r) \notin doubled' /\ IsRouteMessage(m) /\ SameKey(m.route, r) => m = NewRoute(r)
    PROVE  IInv'
<1>1. TypeOK
  BY DEF IInv
<1>2. /\ nl' \in Seq(Message)' /\ Len(nl') <= NLMAX /\ lost' \in BOOLEAN
      /\ ~lost' => ~lost /\ nl' = Append(nl, m)
      /\ Len(nl') \in Nat /\ Len(nl) \in Nat /\ Len(nl) <= Len(nl')
      /\ \A i \in 1 .. Len(nl) : nl'[i] = nl[i]
      /\ \A i \in 1 .. Len(nl') : nl'[i] = m \/ (i \in 1 .. Len(nl) /\ nl'[i] = nl[i])
  BY <1>1, NotifyFacts
<1>3. TypeOK'
  <2>1. Message' = Message
    BY DEF Message
  <2>2. left' \subseteq kernel' \cap world.earlier
    BY <1>1 DEF TypeOK
  <2> QED BY Zenon, <1>1, <1>2, <2>1, <2>2 DEF TypeOK
<1>4. Known' = Known /\ Copy' = Copy
  BY DEF Known, Copy
<1>5. ListOK(ndL_routes)'
  BY DEF IInv, ListOK
<1>6. DumpOK'
  BY <1>2 DEF IInv, DumpOK
<1>7. Follows'
  <2> SUFFICES ASSUME ~lost' PROVE \E e : (Becomes(Copy, nl, e) /\ Agrees(e))'
    BY DEF Follows
  <2>1. PICK e : Becomes(Copy, nl, e) /\ Agrees(e)
    BY <1>2 DEF IInv, Follows
  <2>2. Becomes(Copy, Append(nl, m), After(e, m))
    BY <1>1, <2>1, BecomesAppend DEF TypeOK
  <2>3. Becomes(Copy, nl, After(e, m))'
    BY Zenon, <1>2, <1>4, <2>2
  <2> QED BY Zenon, <2>1, <2>3
<1>8. EarlierOK'
  <2>1. CASE stage = "running"
    BY <2>1 DEF IInv, EarlierOK
  <2>2. CASE stage # "running"
    <3> SUFFICES ASSUME NEW r \in left', Key(r) \notin doubled' PROVE Awaited(r)'
      BY <2>2 DEF EarlierOK
    <3>1. Awaited(r)
      BY <2>2 DEF IInv, EarlierOK
    <3>2. \A q \in Known' : SameKey(q, r) => q = r
      BY Zenon, <1>4, <3>1 DEF Awaited
    <3>3. \A i \in 1 .. Len(nl') : IsRouteMessage(nl'[i]) /\ SameKey(nl'[i].route, r) => nl'[i] = NewRoute(r)
      BY <1>2, <3>1 DEF Awaited
    <3>4. (\E i \in 1 .. Len(nl) : nl[i] = NewRoute(r) /\ \A j \in 1 .. i : nl[j] # Done)
            => \E i \in 1 .. Len(nl') : nl'[i] = NewRoute(r) /\ \A j \in 1 .. i : nl'[j] # Done
      BY <1>2
    <3>5. \/ stage' = "opened"
          \/ NewRoute(r) \in walk'
          \/ r \in Known'
          \/ \E i \in 1 .. Len(nl') : nl'[i] = NewRoute(r) /\ \A j \in 1 .. i : nl'[j] # Done
      BY Zenon, <1>4, <3>1, <3>4 DEF Awaited
    <3>6. stage' = "querying" /\ timer' = 0 => r \in Known'
      BY Zenon, <1>4, <3>1 DEF Awaited
    <3> QED BY Zenon, <3>2, <3>3, <3>5, <3>6 DEF Awaited, IsRouteMessage
  <2> QED BY <2>1, <2>2
<1> QED BY Zenon, <1>3, <1>5, <1>6, <1>7, <1>8 DEF IInv

\* A route is added, to a destination that has none or as a second one.
LEMMA AddInv ==
    ASSUME IInv, NEW r \in world.routes, r \notin kernel, kernel' = kernel \cup {r}, doubled' = Doubling(r),
           Notify(NewRoute(r)),
           UNCHANGED <<world, hosted, walk, ndL_routes, ndL_addrs, stage, timer, expired, left, replaced>>,
           wired' \subseteq world.routes
    PROVE  IInv'
<1> DEFINE m == NewRoute(r)
<1>1. m \in Message /\ m # Done /\ m.type = "NEWROUTE" /\ m.route = r
  BY EventFacts
<1>2. /\ kernel \subseteq world.routes /\ hosted \subseteq world.addresses /\ DoubledOK
      /\ left \subseteq kernel /\ doubled \cup replaced \subseteq {Key(q) : q \in world.routes}
  BY DEF IInv, TypeOK
<1>3. doubled \subseteq doubled' /\ \A q \in kernel : SameKey(q, r) => Key(r) \in doubled'
  BY DEF Doubling, SameKey
<1>4. doubled' \cup replaced' \subseteq {Key(q) : q \in world.routes}
  BY <1>2 DEF Doubling
<1>5. DoubledOK'
  BY <1>2, <1>3 DEF DoubledOK, SameKey
<1>6. ASSUME NEW e, Agrees(e) PROVE Agrees(After(e, m))'
  <2>1. After(e, m).addrs = e.addrs /\ After(e, m).routes = RoutesAfter(e.routes, m)
    BY <1>1 DEF After, AddrsAfter
  <2>2. /\ e.routes \subseteq RoutesAfter(e.routes, m)
        /\ \A q \in RoutesAfter(e.routes, m) : q \in e.routes \/ (q = r /\ Reported(r))
        /\ Reported(r) => r \in RoutesAfter(e.routes, m) \/ \E q \in e.routes : SameKey(q, r)
    BY <1>1 DEF RoutesAfter
  <2>3. \A q \in e.routes : SameKey(q, r) => Key(r) \in doubled' \cup replaced
    BY <1>3, <1>6 DEF Agrees, SameKey
  <2> HIDE DEF m
  <2> QED BY <1>3, <1>6, <2>1, <2>2, <2>3 DEF Agrees
<1>7. ASSUME NEW q \in left', Key(q) \notin doubled'
      PROVE  ~SameKey(r, q)
  BY <1>2, <1>3, <1>7 DEF SameKey
<1> HIDE DEF m
<1> QED BY <1>1, <1>2, <1>3, <1>4, <1>5, <1>6, <1>7, EventInv DEF m

\* A route is deleted.
LEMMA DelInv ==
    ASSUME IInv, NEW r \in kernel, kernel' = kernel \ {r}, left' = left \ {r}, Notify(DelRoute(r)),
           UNCHANGED <<world, hosted, walk, ndL_routes, ndL_addrs, stage, timer, expired, doubled, replaced>>,
           wired' \subseteq wired
    PROVE  IInv'
<1> DEFINE m == DelRoute(r)
<1>1. /\ kernel \subseteq world.routes /\ hosted \subseteq world.addresses /\ wired \subseteq world.routes /\ DoubledOK
      /\ left \subseteq kernel /\ doubled \cup replaced \subseteq {Key(q) : q \in world.routes}
  BY DEF IInv, TypeOK
<1>2. m \in Message /\ m # Done /\ m.type = "DELROUTE" /\ m.route = r
  BY <1>1, EventFacts
<1>3. DoubledOK' /\ left' \subseteq left /\ left' \subseteq kernel'
  BY <1>1 DEF DoubledOK
<1>4. ASSUME NEW e, Agrees(e) PROVE Agrees(After(e, m))'
  <2>1. After(e, m).addrs = e.addrs /\ After(e, m).routes = RoutesAfter(e.routes, m)
    BY <1>2 DEF After, AddrsAfter
  <2>2. /\ RoutesAfter(e.routes, m) \subseteq e.routes
        /\ Reported(r) => r \notin RoutesAfter(e.routes, m)
        /\ \A q \in e.routes : ~SameKey(q, r) => q \in RoutesAfter(e.routes, m)
    BY <1>2 DEF RoutesAfter, SameKey
  <2>3. \A q \in kernel' : SameKey(q, r) => Key(q) \in doubled
    BY <1>1 DEF DoubledOK, SameKey
  <2> HIDE DEF m
  <2> QED BY <1>4, <2>1, <2>2, <2>3 DEF Agrees
<1>5. ASSUME NEW q \in left', Key(q) \notin doubled'
      PROVE  ~SameKey(r, q)
  BY <1>1, <1>5 DEF DoubledOK
<1> HIDE DEF m
<1> QED BY <1>1, <1>2, <1>3, <1>4, <1>5, EventInv DEF m

\* A route is replaced in place, which the list does not follow.
LEMMA ReplaceInv ==
    ASSUME IInv, NEW q \in world.routes, NEW r \in world.routes, KernelReplaceRoute(q, r)
    PROVE  IInv'
<1> DEFINE m == NewRoute(r)
<1>1. /\ q \in kernel /\ SameKey(q, r) /\ r \notin kernel
      /\ kernel' = (kernel \ {q}) \cup {r} /\ left' = left \ {q} /\ replaced' = replaced \cup {Key(r)} /\ Notify(m)
      /\ UNCHANGED <<world, hosted, walk, ndL_routes, ndL_addrs, stage, timer, wired, expired, doubled>>
  BY DEF KernelReplaceRoute, SameRoute, SameKey
<1>2. m \in Message /\ m # Done /\ m.type = "NEWROUTE" /\ m.route = r
  BY EventFacts
<1>3. /\ kernel \subseteq world.routes /\ hosted \subseteq world.addresses /\ wired \subseteq world.routes /\ DoubledOK
      /\ left \subseteq kernel /\ doubled \cup replaced \subseteq {Key(p) : p \in world.routes}
  BY DEF IInv, TypeOK
<1>4. /\ DoubledOK' /\ left' \subseteq left /\ left' \subseteq kernel'
      /\ doubled' \cup replaced' \subseteq {Key(p) : p \in world.routes}
  BY <1>1, <1>3 DEF DoubledOK, SameKey
<1>5. ASSUME NEW e, Agrees(e) PROVE Agrees(After(e, m))'
  <2>1. After(e, m).addrs = e.addrs /\ After(e, m).routes = RoutesAfter(e.routes, m)
    BY <1>2 DEF After, AddrsAfter
  <2>2. /\ e.routes \subseteq RoutesAfter(e.routes, m)
        /\ \A p \in RoutesAfter(e.routes, m) : p \in e.routes \/ (p = r /\ Reported(r))
    BY <1>2 DEF RoutesAfter
  <2>3. Key(q) \in replaced' /\ Key(r) \in replaced'
    BY <1>1 DEF SameKey
  <2> HIDE DEF m
  <2> QED BY <1>1, <1>5, <2>1, <2>2, <2>3 DEF Agrees
<1>6. ASSUME NEW p \in left', Key(p) \notin doubled'
      PROVE  ~SameKey(r, p)
  BY <1>1, <1>3, <1>6 DEF DoubledOK, SameKey
<1> HIDE DEF m
<1> QED BY <1>1, <1>2, <1>3, <1>4, <1>5, <1>6, EventInv DEF m

\* An address is added or taken away.
LEMMA AddrInv ==
    ASSUME IInv, NEW a \in world.addresses, KernelAddr(a)
    PROVE  IInv'
<1> USE DEF KernelAddr
<1>1. /\ kernel \subseteq world.routes /\ hosted \subseteq world.addresses /\ wired \subseteq world.routes
      /\ left \subseteq kernel /\ doubled \cup replaced \subseteq {Key(r) : r \in world.routes}
  BY DEF IInv, TypeOK
<1>2. DoubledOK' /\ UNCHANGED <<left, doubled, replaced>>
  BY DEF DoubledOK, IInv, history
<1>3. CASE a \notin hosted
  <2> DEFINE m == NewAddr(a)
  <2>1. m \in Message /\ m # Done /\ m.type = "NEWADDR" /\ m.addr = a
    BY EventFacts
  <2>2. Notify(m) /\ hosted' = hosted \cup {a}
    BY <1>3
  <2>3. ASSUME NEW e, Agrees(e) PROVE Agrees(After(e, m))'
    <3>1. After(e, m).addrs = e.addrs \cup {a} /\ After(e, m).routes = e.routes
      BY <2>1 DEF After, AddrsAfter, RoutesAfter
    <3> HIDE DEF m
    <3> QED BY <1>2, <2>2, <2>3, <3>1 DEF Agrees
  <2>4. ~IsRouteMessage(m)
    BY <2>1 DEF IsRouteMessage
  <2> HIDE DEF m
  <2> QED BY <1>1, <1>2, <2>1, <2>2, <2>3, <2>4, EventInv
<1>4. CASE a \in hosted
  <2> DEFINE m == DelAddr(a)
  <2>1. m \in Message /\ m # Done /\ m.type = "DELADDR" /\ m.addr = a
    BY EventFacts
  <2>2. Notify(m) /\ hosted' = hosted \ {a}
    BY <1>4
  <2>3. ASSUME NEW e, Agrees(e) PROVE Agrees(After(e, m))'
    <3>1. After(e, m).addrs = e.addrs \ {a} /\ After(e, m).routes = e.routes
      BY <2>1 DEF After, AddrsAfter, RoutesAfter
    <3> HIDE DEF m
    <3> QED BY <1>2, <2>2, <2>3, <3>1 DEF Agrees
  <2>4. ~IsRouteMessage(m)
    BY <2>1 DEF IsRouteMessage
  <2> HIDE DEF m
  <2> QED BY <1>1, <1>2, <2>1, <2>2, <2>3, <2>4, EventInv
<1> QED BY <1>3, <1>4

\* The dump goes on: what it reports is there, and is reported before its end.
LEMMA DumpInv ==
    ASSUME IInv, KernelDump
    PROVE  IInv'
<1>1. TypeOK /\ ListOK(ndL_routes) /\ DoubledOK /\ DumpOK /\ Follows /\ EarlierOK
  BY DEF IInv
<1>2. PICK m \in walk : /\ m = Done => walk = {Done}
                        /\ walk' = walk \ {m}
                        /\ nl' = IF Holds(m) THEN Append(nl, m) ELSE nl
  BY DEF KernelDump
<1>3. /\ Len(nl) < NLMAX
      /\ UNCHANGED <<world, kernel, hosted, ndL_routes, ndL_addrs, stage, timer, wired, lost, expired,
                     left, doubled, replaced>>
  BY DEF KernelDump, history
<1>4. /\ m \in Message /\ Message' = Message /\ Known' = Known /\ Copy' = Copy
      /\ nl \in Seq(Message) /\ Len(nl) \in Nat /\ NLMAX \in Nat
  BY <1>1, <1>2, <1>3, LenProperties, RoutesAssumption DEF TypeOK, Message, Known, Copy
<1>5. stage # "opened" /\ (stage = "querying" => timer # 0 /\ \A i \in 1 .. Len(nl) : nl[i] # Done)
  BY <1>1, <1>2 DEF DumpOK
<1>6. /\ nl' \in Seq(Message) /\ Len(nl') <= NLMAX /\ Len(nl') \in Nat /\ Len(nl) <= Len(nl')
      /\ \A i \in 1 .. Len(nl) : nl'[i] = nl[i]
      /\ \A i \in 1 .. Len(nl') : (Holds(m) /\ nl'[i] = m) \/ (i \in 1 .. Len(nl) /\ nl'[i] = nl[i])
      /\ Holds(m) => nl'[Len(nl')] = m /\ Len(nl') = Len(nl) + 1
  <2>1. CASE Holds(m)
    <3>1. /\ nl' \in Seq(Message) /\ Len(nl') = Len(nl) + 1
          /\ (\A i \in 1 .. Len(nl) : nl'[i] = nl[i]) /\ nl'[Len(nl) + 1] = m
      BY <1>2, <1>4, <2>1, AppendProperties
    <3>2. \A i \in 1 .. Len(nl) + 1 : i = Len(nl) + 1 \/ i \in 1 .. Len(nl)
      BY <1>4
    <3> QED BY <1>3, <1>4, <2>1, <3>1, <3>2
  <2>2. CASE ~Holds(m)
    BY <1>2, <1>3, <1>4, <2>2
  <2> QED BY <2>1, <2>2
<1>7. TypeOK'
  BY Zenon, <1>1, <1>2, <1>3, <1>4, <1>6 DEF TypeOK
<1>8. ListOK(ndL_routes)' /\ DoubledOK'
  BY <1>1, <1>3 DEF ListOK, DoubledOK
<1>9. DumpOK'
  BY <1>2, <1>3, <1>5, <1>6 DEF DumpOK
<1>10. Follows'
  <2> SUFFICES ASSUME ~lost' PROVE \E e : (Becomes(Copy, nl, e) /\ Agrees(e))'
    BY DEF Follows
  <2>1. PICK e : Becomes(Copy, nl, e) /\ Agrees(e)
    BY <1>1, <1>3 DEF Follows
  <2>2. CASE ~Holds(m)
    <3>1. Becomes(Copy, nl, e)'
      BY Zenon, <1>2, <1>4, <2>1, <2>2
    <3>2. \A r \in kernel : NewRoute(r) # m
      BY <2>2, EventFacts DEF Holds
    <3>3. \A a \in hosted : NewAddr(a) # m
      BY <2>2, EventFacts DEF Holds
    <3>4. Agrees(e)'
      BY <1>2, <1>3, <2>1, <3>2, <3>3 DEF Agrees
    <3> QED BY Zenon, <3>1, <3>4
  <2>3. CASE Holds(m)
    <3>1. Becomes(Copy, Append(nl, m), After(e, m))
      BY <1>4, <2>1, BecomesAppend
    <3>2. Becomes(Copy, nl, After(e, m))'
      BY Zenon, <1>2, <1>4, <2>3, <3>1
    <3>3. /\ e.routes \subseteq RoutesAfter(e.routes, m)
          /\ \A q \in RoutesAfter(e.routes, m) :
                q \in e.routes \/ (m.type = "NEWROUTE" /\ q = m.route /\ Reported(m.route))
          /\ m.type = "NEWROUTE" /\ Reported(m.route) =>
                m.route \in RoutesAfter(e.routes, m) \/ Key(m.route) \in doubled \cup replaced
      <4>1. m.type # "DELROUTE" /\ (m.type = "NEWROUTE" => m.route \in kernel)
        BY <2>3 DEF Holds
      <4>2. \A q \in e.routes : m.type = "NEWROUTE" /\ SameKey(q, m.route) =>
               q = m.route \/ Key(m.route) \in doubled \cup replaced
        BY <1>1, <2>1, <4>1 DEF Agrees, DoubledOK, SameKey
      <4> QED BY <4>1, <4>2 DEF RoutesAfter
    <3>4. AddrsAfter(e.addrs, m) = IF m.type = "NEWADDR" THEN e.addrs \cup {m.addr} ELSE e.addrs
      BY <2>3 DEF AddrsAfter, Holds
    <3>5. After(e, m).routes = RoutesAfter(e.routes, m) /\ After(e, m).addrs = AddrsAfter(e.addrs, m)
      BY DEF After
    <3>6. \A r : NewRoute(r) = m => m.type = "NEWROUTE" /\ m.route = r
      BY EventFacts
    <3>7. \A a : NewAddr(a) = m => m.type = "NEWADDR" /\ m.addr = a
      BY EventFacts
    <3>8. (m.type = "NEWROUTE" => m.route \in kernel) /\ (m.type = "NEWADDR" => m.addr \in hosted)
      BY <2>3 DEF Holds
    <3>9. /\ \A r \in After(e, m).routes : Reported(r) /\ (r \in kernel \/ Key(r) \in replaced)
          /\ \A r \in kernel :
                Reported(r) => \/ r \in After(e, m).routes \/ Key(r) \in doubled \cup replaced
                               \/ stage = "opened" \/ NewRoute(r) \in walk'
      BY <1>2, <2>1, <3>3, <3>5, <3>6, <3>8 DEF Agrees
    <3>10. /\ After(e, m).addrs \subseteq hosted
           /\ \A a \in hosted : a \in After(e, m).addrs \/ NewAddr(a) \in walk' \/ stage # "running" \/ expired
      BY <1>2, <2>1, <3>4, <3>5, <3>7, <3>8 DEF Agrees
    <3>11. Agrees(After(e, m))'
      BY Zenon, <1>3, <3>9, <3>10 DEF Agrees
    <3> QED BY Zenon, <3>2, <3>11
  <2> QED BY <2>2, <2>3
<1>11. EarlierOK'
  <2>1. CASE stage = "running"
    BY <1>1, <1>3, <2>1 DEF EarlierOK
  <2>2. CASE stage # "running"
    <3> SUFFICES ASSUME NEW r \in left, Key(r) \notin doubled PROVE Awaited(r)'
      BY <1>3, <2>2 DEF EarlierOK
    <3>1. Awaited(r) /\ stage = "querying" /\ r \in kernel
      BY <1>1, <1>5, <2>2 DEF EarlierOK, TypeOK
    <3>2. Holds(m) /\ IsRouteMessage(m) /\ SameKey(m.route, r) => m = NewRoute(r)
      <4>1. Holds(m) /\ IsRouteMessage(m) => m.type = "NEWROUTE" /\ m.route \in kernel
        BY DEF Holds, IsRouteMessage
      <4> QED BY <1>1, <1>4, <3>1, <4>1, MessageFacts DEF DoubledOK
    <3>3. \A i \in 1 .. Len(nl') : IsRouteMessage(nl'[i]) /\ SameKey(nl'[i].route, r) => nl'[i] = NewRoute(r)
      BY <1>6, <3>1, <3>2 DEF Awaited
    <3>4. \/ NewRoute(r) \in walk'
          \/ r \in Known
          \/ \E i \in 1 .. Len(nl') : nl'[i] = NewRoute(r) /\ \A j \in 1 .. i : nl'[j] # Done
      <4>1. CASE NewRoute(r) \in walk /\ m = NewRoute(r)
        <5>1. Holds(m) /\ m # Done
          BY <3>1, <4>1, EventFacts DEF Holds
        <5>2. \A j \in 1 .. Len(nl') : nl'[j] # Done
          BY <1>5, <1>6, <3>1, <5>1
        <5>3. Len(nl') \in 1 .. Len(nl')
          BY <1>4, <1>6, <5>1
        <5> QED BY <1>6, <4>1, <5>1, <5>2, <5>3
      <4>2. CASE NewRoute(r) \in walk /\ m # NewRoute(r)
        BY <1>2, <4>2
      <4>3. CASE r \in Known
        BY <4>3
      <4>4. CASE \E i \in 1 .. Len(nl) : nl[i] = NewRoute(r) /\ \A j \in 1 .. i : nl[j] # Done
        BY <1>4, <1>6, <4>4
      <4> QED BY <3>1, <4>1, <4>2, <4>3, <4>4 DEF Awaited
    <3> QED BY Zenon, <1>3, <1>4, <1>5, <3>1, <3>3, <3>4 DEF Awaited, IsRouteMessage
  <2> QED BY <2>1, <2>2
<1> QED BY Zenon, <1>7, <1>8, <1>9, <1>10, <1>11 DEF IInv

----------------------------------------------------------------------------
(* The daemon.                                                             *)

\* The dump of routes is requested: every route the kernel has is to be reported.
LEMMA QueryInv ==
    ASSUME IInv, nd_rt_query_routes
    PROVE  IInv'
<1>1. TypeOK /\ ListOK(ndL_routes) /\ DoubledOK /\ DumpOK /\ Follows /\ EarlierOK
  BY DEF IInv
<1>2. /\ stage = "opened" /\ stage' = "querying" /\ timer' = DUMP_TIMEOUT
      /\ walk' = {NewRoute(r) : r \in kernel} \cup {Done}
      /\ UNCHANGED <<world, kernel, hosted, nl, ndL_routes, ndL_addrs, wired, lost, expired, left, doubled, replaced>>
  BY DEF nd_rt_query_routes, history
<1>3. Message' = Message /\ Known' = Known /\ Copy' = Copy
  BY <1>2 DEF Message, Known, Copy
<1>4. walk' \subseteq Message
  BY <1>1, <1>2, EventFacts DEF TypeOK
<1>5. timer' \in 0 .. DUMP_TIMEOUT /\ timer' # 0
  BY <1>2, RoutesAssumption
<1>6. TypeOK'
  BY Zenon, <1>1, <1>2, <1>3, <1>4, <1>5 DEF TypeOK
<1>7. ListOK(ndL_routes)' /\ DoubledOK'
  BY <1>1, <1>2 DEF ListOK, DoubledOK
<1>8. DumpOK'
  BY <1>1, <1>2, <1>5 DEF DumpOK
<1>9. Follows'
  <2> SUFFICES ASSUME ~lost' PROVE \E e : (Becomes(Copy, nl, e) /\ Agrees(e))'
    BY DEF Follows
  <2>1. PICK e : Becomes(Copy, nl, e) /\ Agrees(e)
    BY <1>1, <1>2 DEF Follows
  <2>2. Becomes(Copy, nl, e)'
    BY Zenon, <1>2, <1>3, <2>1
  <2>3. \A r \in kernel : NewRoute(r) \in walk'
    BY <1>2
  <2>4. Agrees(e)'
    BY <1>2, <2>1, <2>3 DEF Agrees
  <2> QED BY Zenon, <2>2, <2>4
<1>10. EarlierOK'
  <2> SUFFICES ASSUME NEW r \in left, Key(r) \notin doubled PROVE Awaited(r)'
    BY <1>2 DEF EarlierOK
  <2>1. Awaited(r) /\ r \in kernel
    BY <1>1, <1>2 DEF EarlierOK, TypeOK
  <2>2. NewRoute(r) \in walk'
    BY <1>2, <2>1
  <2> QED BY Zenon, <1>2, <1>3, <1>5, <2>1, <2>2 DEF Awaited, IsRouteMessage
<1> QED BY Zenon, <1>6, <1>7, <1>8, <1>9, <1>10 DEF IInv

\* What the handler makes of the two lists.
LEMMA HandlerFacts ==
    ASSUME TypeOK, ListOK(ndL_routes), ndL_io_handler
    PROVE  /\ ndL_routes' \in Seq(world.routes) /\ ListOK(ndL_routes)' /\ ndL_addrs' \subseteq world.addresses
           /\ Known' = RoutesAfter(Known, Head(nl)) /\ Copy' = After(Copy, Head(nl))
           /\ nl' = Tail(nl) /\ Tail(nl) \in Seq(Message) /\ Len(nl') = Len(nl) - 1
           /\ Head(nl) = nl[1] /\ \A i \in 1 .. Len(nl') : nl'[i] = nl[i + 1]
           /\ Len(nl) \in Nat \ {0} /\ Head(nl) \in Message
<1> DEFINE m == Head(nl)
           s == ndL_routes
           R == world.routes
<1>1. /\ nl # <<>> /\ nl' = Tail(nl)
      /\ ndL_routes' = CASE m.type = "NEWROUTE" -> ndL_handle_newroute(s, m.route)
                         [] m.type = "DELROUTE" -> ndL_handle_delroute(s, m.route)
                         [] OTHER -> s
      /\ ndL_addrs' = CASE m.type = "NEWADDR" -> ndL_new_addr(ndL_addrs, m.addr)
                        [] m.type = "DELADDR" -> ndL_delete_addr(ndL_addrs, m.addr)
                        [] OTHER -> ndL_addrs
  BY DEF ndL_io_handler
<1>2. /\ m \in Message /\ nl' \in Seq(Message) /\ Len(nl') = Len(nl) - 1
      /\ m = nl[1] /\ (\A i \in 1 .. Len(nl') : nl'[i] = nl[i + 1]) /\ Len(nl) \in Nat \ {0}
  BY <1>1, HeadTailProperties, EmptySeq, LenProperties DEF TypeOK
<1>3. R \in SUBSET nd_rt_route /\ s \in Seq(R) /\ ndL_addrs \subseteq world.addresses
  BY WorldFacts DEF TypeOK
<1> HIDE DEF m
<1>4. ndL_routes' \in Seq(R) /\ ListOK(ndL_routes') /\ Range(ndL_routes') = RoutesAfter(Range(s), m)
  <2>1. CASE m.type = "NEWROUTE"
    <3>1. m.route \in R /\ m = NewRoute(m.route)
      BY <1>2, <2>1, MessageFacts
    <3> DEFINE t == ndL_handle_newroute(s, m.route)
    <3>2. ndL_routes' = t
      BY <1>1, <2>1
    <3>3. t \in Seq(R) /\ ListOK(t) /\ Range(t) = RoutesAfter(Range(s), NewRoute(m.route))
      BY Zenon, <1>3, <3>1, HandleNewRoute
    <3> QED BY Zenon, <3>1, <3>2, <3>3
  <2>2. CASE m.type = "DELROUTE"
    <3>1. m.route \in R /\ m = DelRoute(m.route)
      BY <1>2, <2>2, MessageFacts
    <3> DEFINE t == ndL_handle_delroute(s, m.route)
    <3>2. ndL_routes' = t
      BY <1>1, <2>2
    <3>3. t \in Seq(R) /\ ListOK(t) /\ Range(t) = RoutesAfter(Range(s), DelRoute(m.route))
      BY Zenon, <1>3, <3>1, HandleDelRoute
    <3> QED BY Zenon, <3>1, <3>2, <3>3
  <2>3. CASE m.type \notin {"NEWROUTE", "DELROUTE"}
    <3>1. ndL_routes' = s /\ RoutesAfter(Range(s), m) = Range(s)
      BY <1>1, <2>3 DEF RoutesAfter
    <3> QED BY Zenon, <1>3, <3>1
  <2> QED BY <2>1, <2>2, <2>3
<1>5. ndL_addrs' = AddrsAfter(ndL_addrs, m)
  BY <1>1 DEF AddrsAfter, ndL_new_addr, ndL_delete_addr
<1>6. ndL_addrs' \subseteq world.addresses
  BY <1>2, <1>3, <1>5, MessageFacts DEF AddrsAfter
<1>7. ListOK(ndL_routes)' /\ Known' = RoutesAfter(Known, m)
  BY Zenon, <1>4 DEF Known, ListOK
<1>8. Copy' = After(Copy, m)
  BY Zenon, <1>5, <1>7 DEF Copy, After
<1> QED BY Zenon, <1>1, <1>2, <1>4, <1>6, <1>7, <1>8 DEF m

\* A route that an earlier process left stays awaited: the handler learns of it, keeps it,
\* and does not come to the end of the dump before.
LEMMA HandlerAwaited ==
    ASSUME IInv, ndL_io_handler, stage # "running", NEW r \in left, Awaited(r)
    PROVE  Awaited(r)'
<1> DEFINE m == Head(nl)
<1>1. TypeOK /\ ListOK(ndL_routes) /\ DumpOK
  BY DEF IInv
<1>2. /\ Known' = RoutesAfter(Known, m) /\ m = nl[1] /\ m \in Message
      /\ Len(nl') = Len(nl) - 1 /\ (\A i \in 1 .. Len(nl') : nl'[i] = nl[i + 1]) /\ Len(nl) \in Nat \ {0}
  BY <1>1, HandlerFacts
<1>3. /\ stage # "opened" /\ stage' = stage /\ walk' = walk
      /\ timer' = IF m.type = "DONE" THEN 0 ELSE timer
  BY DEF ndL_io_handler
<1> HIDE DEF m
<1>4. Reported(r) /\ 1 \in 1 .. Len(nl)
  BY <1>1, <1>2, WorldFacts DEF TypeOK
<1>5. IsRouteMessage(m) /\ SameKey(m.route, r) => m = NewRoute(r)
  BY <1>2, <1>4 DEF Awaited
<1>6. \A q \in Known' : SameKey(q, r) => q = r
  <2> SUFFICES ASSUME NEW q \in Known', SameKey(q, r), q \notin Known PROVE q = r
    BY DEF Awaited
  <2>1. m.type = "NEWROUTE" /\ q = m.route
    BY <1>2 DEF RoutesAfter
  <2> QED BY <1>5, <2>1, EventFacts DEF IsRouteMessage
<1>7. r \in Known => r \in Known'
  <2> SUFFICES ASSUME r \in Known, m.type = "DELROUTE", SameKey(r, m.route) PROVE FALSE
    BY <1>2 DEF RoutesAfter
  <2>1. m = NewRoute(r)
    BY <1>5 DEF IsRouteMessage, SameKey
  <2> QED BY <2>1, EventFacts
<1>8. m = NewRoute(r) => r \in Known'
  <2> SUFFICES ASSUME m = NewRoute(r) PROVE r \in Known'
    OBVIOUS
  <2>1. m.type = "NEWROUTE" /\ m.route = r
    BY EventFacts
  <2>2. \A q \in Known : SameKey(q, r) => q = r
    BY DEF Awaited
  <2> QED BY <1>2, <1>4, <2>1, <2>2 DEF RoutesAfter
<1>9. \A i \in 1 .. Len(nl') : i + 1 \in 1 .. Len(nl)
  BY <1>2
<1>10. \A i \in 1 .. Len(nl') : IsRouteMessage(nl'[i]) /\ SameKey(nl'[i].route, r) => nl'[i] = NewRoute(r)
  BY <1>2, <1>9 DEF Awaited
<1>11. m = Done => r \in Known
  <2> SUFFICES ASSUME m = Done PROVE r \in Known
    OBVIOUS
  <2>1. walk = {}
    BY <1>1, <1>2, <1>3, <1>4 DEF DumpOK, TypeOK
  <2>2. ASSUME NEW i \in 1 .. Len(nl), \A j \in 1 .. i : nl[j] # Done
        PROVE  FALSE
    <3>1. 1 \in 1 .. i
      BY <1>2
    <3> QED BY <1>2, <2>2, <3>1
  <2> QED BY <1>3, <2>1, <2>2 DEF Awaited
<1>12. \/ NewRoute(r) \in walk'
       \/ r \in Known'
       \/ \E i \in 1 .. Len(nl') : nl'[i] = NewRoute(r) /\ \A j \in 1 .. i : nl'[j] # Done
  <2>1. CASE NewRoute(r) \in walk \/ r \in Known
    BY <1>3, <1>7, <2>1
  <2>2. ASSUME NEW i \in 1 .. Len(nl), nl[i] = NewRoute(r), \A j \in 1 .. i : nl[j] # Done
        PROVE  r \in Known' \/ \E k \in 1 .. Len(nl') : nl'[k] = NewRoute(r) /\ \A j \in 1 .. k : nl'[j] # Done
    <3>1. CASE i = 1
      BY <1>2, <1>8, <2>2, <3>1
    <3>2. CASE i # 1
      <4>1. /\ i - 1 \in 1 .. Len(nl') /\ (i - 1) + 1 = i
            /\ \A j \in 1 .. i - 1 : j \in 1 .. Len(nl') /\ j + 1 \in 1 .. i
        BY <1>2, <3>2
      <4>2. nl'[i - 1] = NewRoute(r) /\ \A j \in 1 .. i - 1 : nl'[j] # Done
        BY <1>2, <2>2, <4>1
      <4> QED BY <4>1, <4>2
    <3> QED BY <3>1, <3>2
  <2> QED BY <1>3, <2>1, <2>2 DEF Awaited
<1>13. stage' = "querying" /\ timer' = 0 => r \in Known'
  BY <1>2, <1>3, <1>7, <1>11, MessageFacts DEF Awaited
<1> QED BY Zenon, <1>6, <1>10, <1>12, <1>13 DEF Awaited, IsRouteMessage

\* One message is handled.
LEMMA HandlerInv ==
    ASSUME IInv, ndL_io_handler
    PROVE  IInv'
<1>1. TypeOK /\ ListOK(ndL_routes) /\ DoubledOK /\ DumpOK /\ Follows /\ EarlierOK
  BY DEF IInv
<1>2. /\ ndL_routes' \in Seq(world.routes) /\ ListOK(ndL_routes)' /\ ndL_addrs' \subseteq world.addresses
      /\ Copy' = After(Copy, Head(nl))
      /\ nl' = Tail(nl) /\ Tail(nl) \in Seq(Message) /\ Len(nl') = Len(nl) - 1
      /\ Head(nl) = nl[1] /\ (\A i \in 1 .. Len(nl') : nl'[i] = nl[i + 1])
      /\ Len(nl) \in Nat \ {0} /\ Head(nl) \in Message
  BY <1>1, HandlerFacts
<1>3. /\ nl # <<>> /\ stage # "opened"
      /\ timer' = IF Head(nl).type = "DONE" THEN 0 ELSE timer
      /\ UNCHANGED <<world, kernel, hosted, walk, stage, wired, lost, expired, left, doubled, replaced>>
  BY DEF ndL_io_handler, history
<1>4. TypeOK'
  <2>1. Message' = Message
    BY <1>3 DEF Message
  <2>2. Len(nl') <= NLMAX /\ timer' \in 0 .. DUMP_TIMEOUT
    BY <1>1, <1>2, <1>3, RoutesAssumption DEF TypeOK
  <2> QED BY Zenon, <1>1, <1>2, <1>3, <2>1, <2>2 DEF TypeOK
<1>5. DoubledOK'
  BY <1>1, <1>3 DEF DoubledOK
<1>6. DumpOK'
  <2>1. \A i \in 1 .. Len(nl') : i + 1 \in 1 .. Len(nl)
    BY <1>2
  <2>2. Head(nl).type = "DONE" => \E i \in 1 .. Len(nl) : nl[i] = Done
    BY <1>2, MessageFacts
  <2> QED BY <1>1, <1>2, <1>3, <2>1, <2>2 DEF DumpOK
<1>7. Follows'
  <2> SUFFICES ASSUME ~lost' PROVE \E e : (Becomes(Copy, nl, e) /\ Agrees(e))'
    BY DEF Follows
  <2>1. PICK e : Becomes(Copy, nl, e) /\ Agrees(e)
    BY <1>1, <1>3 DEF Follows
  <2>2. Becomes(After(Copy, Head(nl)), Tail(nl), e)
    BY <1>1, <1>3, <2>1, BecomesTail DEF TypeOK
  <2>3. Becomes(Copy, nl, e)'
    BY Zenon, <1>2, <2>2
  <2>4. Agrees(e)'
    BY Zenon, <1>3, <2>1 DEF Agrees
  <2> QED BY Zenon, <2>3, <2>4
<1>8. EarlierOK'
  <2>1. CASE stage = "running"
    BY <1>1, <1>3, <2>1 DEF EarlierOK
  <2>2. CASE stage # "running"
    <3> SUFFICES ASSUME NEW r \in left, Key(r) \notin doubled PROVE Awaited(r)'
      BY <1>3, <2>2 DEF EarlierOK
    <3>1. Awaited(r)
      BY <1>1, <2>2 DEF EarlierOK
    <3> QED BY Zenon, <2>2, <3>1, HandlerAwaited
  <2> QED BY <2>1, <2>2
<1> QED BY Zenon, <1>2, <1>4, <1>5, <1>6, <1>7, <1>8 DEF IInv

\* The lists after any number of messages are two sets.
LEMMA BecomesRecord ==
    ASSUME NEW c, c = [routes |-> c.routes, addrs |-> c.addrs], NEW M, NEW msgs \in Seq(M), NEW e, Becomes(c, msgs, e)
    PROVE  e = [routes |-> e.routes, addrs |-> e.addrs]
<1>1. PICK h : h[0] = c /\ (\A i \in 1 .. Len(msgs) : h[i] = After(h[i - 1], msgs[i])) /\ h[Len(msgs)] = e
  BY DEF Becomes
<1>2. Len(msgs) \in Nat
  BY LenProperties
<1>3. CASE Len(msgs) = 0
  BY Zenon, <1>1, <1>3
<1>4. CASE Len(msgs) # 0
  <2>1. Len(msgs) \in 1 .. Len(msgs)
    BY <1>2, <1>4
  <2>2. e = After(h[Len(msgs) - 1], msgs[Len(msgs)])
    BY Zenon, <1>1, <2>1
  <2> QED BY <2>2 DEF After
<1> QED BY <1>3, <1>4

\* The events of the clean-up: a deletion of each route that goes, and of no other.
LEMMA CleanUpEvents ==
    ASSUME TypeOK, NEW G \in SUBSET kernel,
           NEW n \in 0 .. Len(ndL_routes), NEW dels \in Bijection(1 .. n, {DelRoute(r) : r \in G})
    PROVE  /\ dels \in Seq(Message)
           /\ \A k \in 1 .. Len(dels) : dels[k].type = "DELROUTE" /\ dels[k].route \in G
           /\ \A r \in G : \E k \in 1 .. Len(dels) : r = dels[k].route
<1> DEFINE T == {DelRoute(r) : r \in G}
<1>1. G \subseteq world.routes /\ n \in Nat
  BY LenProperties DEF TypeOK
<1>2. dels \in [1 .. n -> T] /\ \A t \in T : \E k \in 1 .. n : dels[k] = t
  BY DEF Bijection, Injection, Surjection
<1>3. T \subseteq Message
  BY <1>1, EventFacts
<1>4. dels \in Seq(Message) /\ Len(dels) = n
  BY <1>1, <1>2, <1>3
<1>5. ASSUME NEW k \in 1 .. Len(dels)
      PROVE  dels[k].type = "DELROUTE" /\ dels[k].route \in G
  <2>1. dels[k] \in T
    BY <1>2, <1>4
  <2> QED BY <2>1, EventFacts
<1>6. ASSUME NEW r \in G
      PROVE  \E k \in 1 .. Len(dels) : r = dels[k].route
  <2>1. PICK k \in 1 .. n : dels[k] = DelRoute(r)
    BY <1>2
  <2>2. DelRoute(r).route = r
    BY EventFacts
  <2> QED BY Zenon, <1>4, <2>1, <2>2
<1> QED BY <1>4, <1>5, <1>6

\* The poll returns before the clean-up is due, or after it was done.
LEMMA PassInv ==
    ASSUME IInv, NEW d \in Steps, MainLoop(d), ~CleanUpDue(d)
    PROVE  IInv'
<1>1. TypeOK /\ ListOK(ndL_routes) /\ DoubledOK /\ DumpOK /\ Follows /\ EarlierOK
  BY DEF IInv
<1>2. /\ stage # "opened" /\ timer' = Left(d)
      /\ UNCHANGED <<world, kernel, hosted, walk, nl, ndL_routes, ndL_addrs, stage, wired, lost, expired,
                     left, doubled, replaced>>
  BY DEF MainLoop
<1>3. timer' \in 0 .. DUMP_TIMEOUT /\ (stage = "querying" => timer' # 0)
  BY <1>1, <1>2, RoutesAssumption DEF TypeOK, Left, CleanUpDue
<1>4. Known' = Known /\ Copy' = Copy /\ Message' = Message
  BY <1>2 DEF Known, Copy, Message
<1>5. TypeOK'
  BY Zenon, <1>1, <1>2, <1>3, <1>4 DEF TypeOK
<1>6. ListOK(ndL_routes)' /\ DoubledOK' /\ DumpOK'
  BY <1>1, <1>2, <1>3 DEF ListOK, DoubledOK, DumpOK
<1>7. Follows'
  BY Zenon, <1>1, <1>2, <1>4 DEF Follows, Agrees
<1>8. EarlierOK'
  BY Zenon, <1>1, <1>2, <1>3, <1>4 DEF EarlierOK, Awaited, IsRouteMessage
<1> QED BY Zenon, <1>5, <1>6, <1>7, <1>8 DEF IInv

\* The messages that wait after the deletions.
Queued(dels) ==
    IF Len(nl) + Len(dels) <= NLMAX
    THEN nl' = nl \o dels /\ UNCHANGED lost
    ELSE world.lossy /\ lost' = TRUE /\ nl' = SubSeq(nl \o dels, 1, NLMAX)

\* What nd_rt_remove_owned_routes takes out: any of the earlier process's routes that is known
\* and is the only one of its key is among it.
LEMMA RemoveOwned ==
    ASSUME TypeOK, DoubledOK, nd_rt_remove_owned_routes
    PROVE  \E gone \in SUBSET kernel :
              /\ kernel' = kernel \ gone /\ left' = left \ gone
              /\ \A r \in left : r \in Known /\ Key(r) \notin doubled => r \in gone
              /\ \E n \in 0 .. Len(ndL_routes) : \E dels \in Bijection(1 .. n, {DelRoute(r) : r \in gone}) : Queued(dels)
<1> DEFINE asked == {i \in 1 .. Len(ndL_routes) : ndL_routes[i].owned /\ Ours(ndL_routes[i]) # {}}
<1>1. PICK choice \in [asked -> kernel] :
        LET G == {choice[i] : i \in asked}
        IN  /\ \A i \in asked : choice[i] \in Ours(ndL_routes[i])
            /\ kernel' = kernel \ G
            /\ left' = left \ G
            /\ \E n \in 0 .. Len(ndL_routes) : \E dels \in Bijection(1 .. n, {DelRoute(r) : r \in G}) : Queued(dels)
  BY Zenon DEF nd_rt_remove_owned_routes, Queued
<1> DEFINE gone == {choice[i] : i \in asked}
<1>2. gone \in SUBSET kernel
  OBVIOUS
<1>3. ASSUME NEW r \in left, r \in Known, Key(r) \notin doubled PROVE r \in gone
  <2>1. PICK i \in 1 .. Len(ndL_routes) : ndL_routes[i] = r
    BY <1>3, LenProperties DEF Known, Range, TypeOK
  <2>2. r \in kernel /\ r.owned
    BY WorldFacts DEF TypeOK
  <2>3. i \in asked
    BY <2>1, <2>2 DEF Ours, SameKey
  <2>4. choice[i] \in Ours(r)
    BY Zenon, <1>1, <2>1, <2>3
  <2>5. choice[i] = r
    BY <1>3, <2>2, <2>4 DEF Ours, DoubledOK
  <2> QED BY Zenon, <2>3, <2>5
<1> QED BY Zenon, <1>1, <1>2, <1>3

\* The clean-up: for every owned route that is known one goes, and the addresses are asked for.
LEMMA CleanUpInv ==
    ASSUME IInv, NEW d \in Steps, MainLoop(d), CleanUpDue(d)
    PROVE  IInv'
<1>1. TypeOK /\ ListOK(ndL_routes) /\ DoubledOK /\ DumpOK /\ Follows /\ EarlierOK
  BY DEF IInv
<1>2. /\ stage' = "running" /\ expired' = (timer > 0 /\ Left(d) = 0)
      /\ timer' = DUMP_TIMEOUT /\ walk' = IF walk = {} THEN {NewAddr(a) : a \in hosted} \cup {Done} ELSE walk
      /\ UNCHANGED <<world, hosted, ndL_routes, ndL_addrs, wired, doubled, replaced>>
  BY DEF MainLoop, nd_rt_query_addresses
<1>3. nd_rt_remove_owned_routes
  BY DEF MainLoop
<1>4. PICK gone \in SUBSET kernel :
        /\ kernel' = kernel \ gone /\ left' = left \ gone
        /\ \A r \in left : r \in Known /\ Key(r) \notin doubled => r \in gone
        /\ \E n \in 0 .. Len(ndL_routes) : \E dels \in Bijection(1 .. n, {DelRoute(r) : r \in gone}) : Queued(dels)
  BY Zenon, <1>1, <1>3, RemoveOwned
<1>5. PICK n \in 0 .. Len(ndL_routes) : \E dels \in Bijection(1 .. n, {DelRoute(r) : r \in gone}) : Queued(dels)
  BY Zenon, <1>4
<1>6. PICK dels \in Bijection(1 .. n, {DelRoute(r) : r \in gone}) : Queued(dels)
  BY Zenon, <1>5
<1>7. /\ dels \in Seq(Message)
      /\ \A k \in 1 .. Len(dels) : dels[k].type = "DELROUTE" /\ dels[k].route \in gone
      /\ \A r \in gone : \E k \in 1 .. Len(dels) : r = dels[k].route
  BY Zenon, <1>1, CleanUpEvents
<1>8. Known' = Known /\ Copy' = Copy /\ Message' = Message /\ kernel' \subseteq kernel
  BY <1>2, <1>4 DEF Known, Copy, Message
<1>9. nl \in Seq(Message) /\ Len(nl) \in Nat /\ Len(dels) \in Nat /\ NLMAX \in Nat
  BY <1>1, <1>7, LenProperties, RoutesAssumption DEF TypeOK
<1>10. stage = "querying" /\ (timer = 0 \/ expired')
  <2>1. timer \in Nat
    <3>1. timer \in 0 .. DUMP_TIMEOUT /\ DUMP_TIMEOUT \in Nat
      BY Zenon, <1>1, RoutesAssumption DEF TypeOK
    <3> QED BY <3>1
  <2>2. timer = 0 \/ timer > 0
    BY <2>1
  <2> QED BY Zenon, <1>2, <2>2 DEF CleanUpDue
<1>11. nl' \in Seq(Message) /\ Len(nl') <= NLMAX /\ (lost' = lost \/ lost' = TRUE)
  <2> DEFINE t == nl \o dels
  <2>1. t \in Seq(Message) /\ Len(t) = Len(nl) + Len(dels)
    BY <1>7, <1>9, ConcatProperties
  <2> HIDE DEF t
  <2>2. CASE Len(nl) + Len(dels) <= NLMAX
    BY <1>6, <2>1, <2>2 DEF t, Queued
  <2>3. CASE ~(Len(nl) + Len(dels) <= NLMAX)
    <3>1. \A i \in 1 .. NLMAX : t[i] \in Message
      BY <1>9, <2>1, <2>3, LenProperties
    <3>2. SubSeq(t, 1, NLMAX) \in Seq(Message) /\ Len(SubSeq(t, 1, NLMAX)) <= NLMAX
      BY <1>9, <3>1, SubSeqProperties
    <3> QED BY Zenon, <1>6, <2>3, <3>2 DEF t, Queued
  <2> QED BY <2>2, <2>3
<1>12. TypeOK'
  <2>1. walk' \subseteq Message
    BY <1>1, <1>2, EventFacts DEF TypeOK
  <2>2. timer' \in 0 .. DUMP_TIMEOUT
    BY <1>2, RoutesAssumption
  <2>3. lost' \in BOOLEAN /\ expired' \in BOOLEAN
    BY Zenon, <1>1, <1>2, <1>11 DEF TypeOK
  <2>4. kernel' \subseteq world.routes /\ left' \subseteq kernel' \cap world.earlier
    BY <1>1, <1>4 DEF TypeOK
  <2> QED BY Zenon, <1>1, <1>2, <1>8, <1>11, <2>1, <2>2, <2>3, <2>4 DEF TypeOK
<1>13. ListOK(ndL_routes)' /\ DoubledOK' /\ DumpOK'
  BY <1>1, <1>2, <1>8 DEF ListOK, DoubledOK, DumpOK
<1>14. Follows'
  <2> SUFFICES ASSUME ~lost' PROVE \E e : (Becomes(Copy, nl, e) /\ Agrees(e))'
    BY DEF Follows
  <2>1. ~lost /\ nl' = nl \o dels
    BY <1>6 DEF Queued
  <2>2. PICK e : Becomes(Copy, nl, e) /\ Agrees(e)
    BY <1>1, <2>1 DEF Follows
  <2>3. e = [routes |-> e.routes, addrs |-> e.addrs]
    <3>1. Copy = [routes |-> Copy.routes, addrs |-> Copy.addrs]
      BY DEF Copy
    <3> QED BY <1>9, <2>2, <3>1, BecomesRecord
  <2>4. walk # {} => expired'
    BY <1>1, <1>10 DEF DumpOK
  <2>5. e.addrs \subseteq hosted /\ \A a \in hosted : NewAddr(a) \in walk' \/ expired'
    BY <1>2, <2>2, <2>4 DEF Agrees
  <2> DEFINE rest == {q \in e.routes : \A k \in 1 .. Len(dels) : ~Deletes(dels[k], q)}
             x == [routes |-> rest, addrs |-> e.addrs]
  <2>6. Becomes(Copy, nl \o dels, x)
    BY <1>7, <1>9, <2>2, <2>3, BecomesDeletions
  <2>7. x.routes = rest /\ x.addrs = e.addrs
    OBVIOUS
  <2>8. \A r \in rest : Reported(r) /\ (r \in kernel' \/ Key(r) \in replaced)
    <3> SUFFICES ASSUME NEW r \in rest, r \notin kernel', Key(r) \notin replaced PROVE FALSE
      BY <2>2 DEF Agrees
    <3>1. r \in gone /\ Reported(r)
      BY <1>4, <2>2 DEF Agrees
    <3>2. PICK k \in 1 .. Len(dels) : r = dels[k].route
      BY <1>7, <3>1
    <3> QED BY <3>1, <3>2 DEF Deletes, SameKey
  <2>9. ASSUME NEW r \in kernel', Reported(r), Key(r) \notin doubled \cup replaced, NewRoute(r) \notin walk'
        PROVE  r \in rest
    <3>1. r \in kernel /\ r \notin gone
      BY <1>4
    <3>2. NewRoute(r) \notin walk
      BY <1>2, <2>9
    <3>3. r \in e.routes
      BY <1>10, <2>2, <2>9, <3>1, <3>2 DEF Agrees
    <3>4. ASSUME NEW k \in 1 .. Len(dels) PROVE ~SameKey(r, dels[k].route)
      BY <1>1, <1>7, <2>9, <3>1 DEF DoubledOK, SameKey
    <3> QED BY <3>3, <3>4 DEF Deletes
  <2> HIDE DEF x, rest
  <2>10. Agrees(x)'
    <3>1. \A r \in kernel' : Reported(r) => r \in rest \/ Key(r) \in doubled \cup replaced \/ NewRoute(r) \in walk'
      BY Zenon, <2>9
    <3> QED BY Zenon, <1>2, <2>5, <2>7, <2>8, <3>1 DEF Agrees
  <2>11. Becomes(Copy, nl, x)'
    BY Zenon, <1>8, <2>1, <2>6
  <2> QED BY Zenon, <2>10, <2>11
<1>15. EarlierOK'
  <2> SUFFICES ASSUME ~expired', NEW r \in left', Key(r) \notin doubled PROVE FALSE
    BY <1>2 DEF EarlierOK
  <2>1. r \in left /\ r \notin gone /\ Awaited(r)
    BY <1>1, <1>4, <1>10 DEF EarlierOK
  <2>2. r \in Known
    BY <1>10, <2>1 DEF Awaited
  <2> QED BY <1>4, <2>1, <2>2
<1> QED BY Zenon, <1>12, <1>13, <1>14, <1>15 DEF IInv

\* Only the sessions' own record changes, or nothing.
LEMMA RecordInv ==
    ASSUME IInv, wired' \subseteq world.routes,
           UNCHANGED <<world, kernel, hosted, walk, nl, ndL_routes, ndL_addrs, stage, timer, lost, expired,
                       left, doubled, replaced>>
    PROVE  IInv'
<1>1. Known' = Known /\ Copy' = Copy /\ Message' = Message
  BY DEF Known, Copy, Message
<1>2. TypeOK' /\ ListOK(ndL_routes)' /\ DoubledOK' /\ DumpOK'
  BY Zenon, <1>1 DEF IInv, TypeOK, ListOK, DoubledOK, DumpOK
<1>3. Follows' /\ EarlierOK'
  BY Zenon, <1>1 DEF IInv, Follows, Agrees, EarlierOK, Awaited, IsRouteMessage
<1> QED BY Zenon, <1>2, <1>3 DEF IInv

\* A session adds its route, unless the kernel has it.
LEMMA AddRouteInv ==
    ASSUME IInv, NEW r \in world.routes, nd_rt_add_route(r)
    PROVE  IInv'
<1>1. wired' \subseteq world.routes
  BY DEF IInv, TypeOK, nd_rt_add_route
<1>2. CASE \E q \in kernel : SameRoute(q, r)
  BY Zenon, <1>1, <1>2, RecordInv DEF nd_rt_add_route
<1>3. CASE ~\E q \in kernel : SameRoute(q, r)
  <2>1. r \notin kernel
    BY <1>3 DEF SameRoute, SameKey
  <2> QED BY Zenon, <1>1, <1>3, <2>1, AddInv DEF nd_rt_add_route
<1> QED BY <1>2, <1>3

\* A session removes its route, or another of ours that the destination has.
LEMMA RemoveRouteInv ==
    ASSUME IInv, NEW r \in world.routes, nd_rt_remove_route(r)
    PROVE  IInv'
<1>1. wired' \subseteq wired /\ wired' \subseteq world.routes
  BY DEF IInv, TypeOK, nd_rt_remove_route
<1>2. CASE Ours(r) # {}
  <2>1. PICK q \in Ours(r) : kernel' = kernel \ {q} /\ left' = left \ {q} /\ Notify(DelRoute(q))
    BY Zenon, <1>2 DEF nd_rt_remove_route
  <2>2. UNCHANGED <<world, hosted, walk, ndL_routes, ndL_addrs, stage, timer, expired, doubled, replaced>>
    BY DEF nd_rt_remove_route
  <2>3. q \in kernel
    BY DEF Ours
  <2> QED BY Zenon, <1>1, <2>1, <2>2, <2>3, DelInv
<1>3. CASE Ours(r) = {}
  BY Zenon, <1>1, <1>3, RecordInv DEF nd_rt_remove_route
<1> QED BY <1>2, <1>3

\* Every step keeps the invariant.
LEMMA NextInv == IInv /\ [Next]_vars => IInv'
<1> SUFFICES ASSUME IInv, [Next]_vars PROVE IInv'
  OBVIOUS
<1>1. wired \subseteq world.routes /\ kernel \subseteq world.routes
  BY DEF IInv, TypeOK
<1>2. ASSUME NEW r \in world.routes, KernelAddRoute(r) PROVE IInv'
  <2>1. /\ r \notin kernel /\ kernel' = kernel \cup {r} /\ doubled' = Doubling(r) /\ Notify(NewRoute(r))
        /\ UNCHANGED <<world, hosted, walk, ndL_routes, ndL_addrs, stage, timer, wired, expired, left, replaced>>
    BY <1>2 DEF KernelAddRoute, SameRoute, SameKey
  <2> QED BY <1>1, <2>1, AddInv
<1>3. ASSUME NEW r \in world.routes, KernelDelRoute(r) PROVE IInv'
  BY <1>3, DelInv DEF KernelDelRoute
<1>4. ASSUME NEW d \in Steps, MainLoop(d) PROVE IInv'
  BY <1>4, PassInv, CleanUpInv
<1>5. CASE UNCHANGED vars
  BY <1>1, <1>5, RecordInv DEF vars
<1> QED BY Zenon, <1>2, <1>3, <1>4, <1>5, ReplaceInv, AddrInv, DumpInv, QueryInv, HandlerInv, AddRouteInv,
           RemoveRouteInv DEF Next

----------------------------------------------------------------------------
(* The theorems.                                                           *)

\* The invariant holds in every state the program and its host can reach.
THEOREM Invariant == Spec => []IInv
BY InitInv, NextInv, PTL DEF Spec

\* The routing decision of auto mode is the kernel's: the first match of nd_rt_find_route is
\* the most specific of the routes known, in whatever order they were learnt (rt.c).
THEOREM FindsLongest == Spec => []FindLongest
<1>1. IInv => FindLongest
  <2> SUFFICES ASSUME IInv PROVE FindLongest
    OBVIOUS
  <2>1. /\ world.routes \in SUBSET nd_rt_route /\ ndL_routes \in Seq(world.routes) /\ ListOK(ndL_routes)
        /\ None \notin world.routes
    BY WorldFacts DEF IInv, TypeOK
  <2> QED BY Zenon, <2>1, FindIsLongest DEF FindLongest
<1> QED BY <1>1, Invariant, PTL

\* Once every event and every reply to a dump has been handled, and none was lost, the lists
\* of rt.c are the kernel's routes and addresses, but for the keys of which the kernel has had
\* two routes (ndL_new_route drops the second) or one that was replaced in place.
THEOREM ListsAreKnown == Spec => []ListsKnown
<1>1. IInv => ListsKnown
  <2> SUFFICES ASSUME IInv, Quiet, ~lost
               PROVE  /\ \A r \in Known : r \in kernel \/ Key(r) \in replaced
                      /\ \A r \in kernel : Reported(r) => r \in Known \/ Key(r) \in doubled \cup replaced
                      /\ stage = "running" /\ ~expired => ndL_addrs = hosted
    BY DEF ListsKnown
  <2>1. nl = <<>> /\ walk = {} /\ stage # "opened"
    BY DEF Quiet
  <2>2. PICK e : Becomes(Copy, nl, e) /\ Agrees(e)
    BY DEF IInv, Follows
  <2>3. e = Copy
    <3>1. Len(nl) = 0
      BY <2>1
    <3> QED BY Zenon, <2>2, <3>1 DEF Becomes
  <2>4. Copy.routes = Known /\ Copy.addrs = ndL_addrs
    BY DEF Copy
  <2> QED BY <2>1, <2>2, <2>3, <2>4 DEF Agrees
<1> QED BY <1>1, Invariant, PTL

\* Start-up leaves no route of an earlier process in the kernel that is the only one of its
\* key, if the dump of routes ended in time (nd_rt_remove_owned_routes).
THEOREM EarlierAreRemoved == Spec => []EarlierRemoved
<1>1. IInv => EarlierRemoved
  BY DEF IInv, EarlierOK, EarlierRemoved
<1> QED BY <1>1, Invariant, PTL

=============================================================================
