----------------------------- MODULE IfaceProofs -----------------------------
(***************************************************************************)
(* The theorems about Iface, for any names, addresses, configuration and   *)
(* bounds, when the kernel gives no index out twice: a bound interface     *)
(* hears its multicast, and one object stands for an interface.            *)
(***************************************************************************)
EXTENDS Iface, FiniteSetTheorems, SequenceTheorems, TLAPS

\* A pass begins when start-up is over.
PassOK == todo # <<>> => visit = 0

\* No two interfaces have one index, and the indexes the daemon knows were given out.
IndexOK ==
    /\ \A n \in Names : link[n].index \in used \cup {0}
    /\ \A n, m \in Names : link[n].index = link[m].index /\ link[n].index # 0 => n = m
    /\ \A o \in Objects : ifaces[o].index \in used \cup {0}
    /\ cur \in used \cup {0, -1}
    /\ fresh \subseteq used /\ heard \subseteq used

\* The objects that have, or had last, the index and the kind of membership.
Having(list, i, p) == {o \in 1 .. Len(list) : list[o].index = i /\ list[o].promiscuous = p}

\* An index that exists has a membership for each of them.
HearsOK ==
    \A i \in Indexes, p \in BOOLEAN :
        Alive(i) => member[<<i, p>>] >= Cardinality(Having(ifaces, i, p))

\* The pass has been at the object.
Visited(o) == visit # 0 /\ o < visit

\* What the list and the lookup say of interfaces that are not news.
SettledOK ==
    /\ \A o \in Objects :
          LET i == link[ifaces[o].name].index
          IN  i # 0 /\ (i \notin fresh \/ (i \in heard /\ Visited(o)))
                  => ifaces[o].up /\ ifaces[o].index = i
    /\ visit # 0 /\ cur # -1
          => LET i == link[ifaces[visit].name].index
             IN  i # 0 /\ (i \notin fresh \/ i \in heard) => cur = i

\* What start-up is still to open has its object, if any, waiting for it or bound to it.
StartOK ==
    \A j \in 1 .. Len(todo), o \in Objects :
        LET n == ifaces[o].name
        IN  todo[j].name = n /\ ifaces[o].up /\ Present(n) => ifaces[o].index = link[n].index \/ n \in overtaken

\* No other name than those has two objects.
OneEach == \A o, p \in Objects : ifaces[o].name = ifaces[p].name => o = p \/ ifaces[o].name \in overtaken

NamesOK == StartOK /\ OneEach

BoundInv == TypeOK /\ PassOK /\ IndexOK /\ HearsOK

NamesInv == renames = 0 /\ ~failed => SettledOK /\ NamesOK

----------------------------------------------------------------------------
(* The list. *)

\* An object is put in front.
LEMMA PrependedIs ==
    ASSUME NEW S, NEW list \in Seq(S), NEW x \in S
    PROVE  /\ <<x>> \o list \in Seq(S)
           /\ Len(<<x>> \o list) = Len(list) + 1
           /\ (<<x>> \o list)[1] = x
           /\ \A j \in 1 .. Len(list) : (<<x>> \o list)[j + 1] = list[j]
OBVIOUS

Without(list, k) == SubSeq(list, 1, k - 1) \o SubSeq(list, k + 1, Len(list))

\* An object is taken out.
LEMMA WithoutIs ==
    ASSUME NEW S, NEW list \in Seq(S), NEW k \in 1 .. Len(list)
    PROVE  /\ Without(list, k) \in Seq(S)
           /\ Len(Without(list, k)) = Len(list) - 1
           /\ \A j \in 1 .. Len(list) - 1 : Without(list, k)[j] = IF j < k THEN list[j] ELSE list[j + 1]
<1> DEFINE a == SubSeq(list, 1, k - 1)
           b == SubSeq(list, k + 1, Len(list))
<1>1. a \in Seq(S) /\ Len(a) = k - 1 /\ \A j \in 1 .. k - 1 : a[j] = list[j]
  OBVIOUS
<1>2. b \in Seq(S) /\ Len(b) = Len(list) - k /\ \A j \in 1 .. Len(list) - k : b[j] = list[k + j]
  OBVIOUS
<1> HIDE DEF a, b
<1>3. /\ a \o b \in Seq(S) /\ Len(a \o b) = k - 1 + (Len(list) - k)
      /\ \A j \in 1 .. k - 1 + (Len(list) - k) : (a \o b)[j] = IF j <= k - 1 THEN a[j] ELSE b[j - (k - 1)]
  <2>1. /\ a \o b \in Seq(S) /\ Len(a \o b) = Len(a) + Len(b)
        /\ \A j \in 1 .. Len(a) + Len(b) : (a \o b)[j] = IF j <= Len(a) THEN a[j] ELSE b[j - Len(a)]
    BY Zenon, <1>1, <1>2, ConcatProperties
  <2> QED BY Zenon, <2>1, <1>1, <1>2
<1>0. Len(list) \in Nat /\ k \in Nat
  OBVIOUS
<1>4. ASSUME NEW j \in 1 .. Len(list) - 1 PROVE (a \o b)[j] = IF j < k THEN list[j] ELSE list[j + 1]
  <2>1. CASE j < k
    BY <2>1, <1>1, <1>3
  <2>2. CASE j >= k
    <3>1. j - (k - 1) \in 1 .. Len(list) - k /\ k + (j - (k - 1)) = j + 1
      BY <2>2, <1>0
    <3>2. j \in 1 .. k - 1 + (Len(list) - k) /\ ~(j <= k - 1)
      BY <2>2, <1>0
    <3>3. (a \o b)[j] = b[j - (k - 1)]
      BY Zenon, <3>2, <1>3
    <3>4. b[j - (k - 1)] = list[k + (j - (k - 1))]
      BY Zenon, <3>1, <1>2
    <3> QED BY <2>2, <3>1, <3>3, <3>4, <1>0
  <2>3. j < k \/ j >= k
    BY <1>0
  <2> QED BY Zenon, <2>1, <2>2, <2>3
<1>5. Without(list, k) = a \o b
  BY Zenon DEF Without, a, b
<1> QED BY <1>3, <1>4, <1>0, <1>5

\* The objects with an index are finitely many.
LEMMA HavingFinite ==
    ASSUME NEW list, Len(list) \in Nat, NEW i, NEW p
    PROVE  IsFiniteSet(Having(list, i, p)) /\ Cardinality(Having(list, i, p)) \in Nat
<1>1. IsFiniteSet(1 .. Len(list)) /\ Having(list, i, p) \in SUBSET (1 .. Len(list))
  BY FS_Interval DEF Having
<1> QED BY <1>1, FS_Subset, FS_CardinalityType

\* Putting an object in front counts it and no other.
LEMMA HavingPrepend ==
    ASSUME NEW list \in Seq(nd_iface), NEW x \in nd_iface, NEW i, NEW p
    PROVE  Cardinality(Having(<<x>> \o list, i, p)) =
               Cardinality(Having(list, i, p)) + IF x.index = i /\ x.promiscuous = p THEN 1 ELSE 0
<1> DEFINE H == Having(list, i, p)
           M == {o + 1 : o \in H}
           f == [o \in H |-> o + 1]
           new == <<x>> \o list
<1>1. IsFiniteSet(H) /\ Cardinality(H) \in Nat /\ H \subseteq 1 .. Len(list)
  <2>1. Len(list) \in Nat
    OBVIOUS
  <2>2. IsFiniteSet(H) /\ Cardinality(H) \in Nat
    BY Zenon, <2>1, HavingFinite
  <2> QED BY <2>2 DEF Having
<1>2. f \in Bijection(H, M)
  BY <1>1 DEF Bijection, Injection, Surjection, IsInjective
<1>3. IsFiniteSet(M) /\ Cardinality(M) = Cardinality(H)
  BY <1>1, <1>2, FS_Bijection DEF ExistsBijection
<1>4. /\ new \in Seq(nd_iface) /\ Len(new) = Len(list) + 1 /\ new[1] = x
      /\ \A j \in 1 .. Len(list) : new[j + 1] = list[j]
  BY PrependedIs
<1> HIDE DEF new
<1>5. Having(new, i, p) \ {1} = M /\ (1 \in Having(new, i, p) <=> x.index = i /\ x.promiscuous = p)
  <2>1. ASSUME NEW o \in 1 .. Len(new) PROVE o = 1 \/ (o - 1 \in 1 .. Len(list) /\ new[o] = list[o - 1])
    <3>1. CASE o # 1
      <4>1. o - 1 \in 1 .. Len(list) /\ (o - 1) + 1 = o
        BY <3>1, <1>4
      <4> QED BY <4>1, <1>4
    <3> QED BY <3>1
  <2>2. ASSUME NEW o \in Having(new, i, p), o # 1 PROVE o \in M
    <3>1. o - 1 \in H /\ o = (o - 1) + 1
      BY <2>1, <2>2 DEF Having
    <3> QED BY <3>1
  <2>3. ASSUME NEW o \in M PROVE o \in Having(new, i, p) /\ o # 1
    BY <1>4, <1>1 DEF Having
  <2>4. 1 \in Having(new, i, p) <=> x.index = i /\ x.promiscuous = p
    BY <1>4 DEF Having
  <2> HIDE DEF H, M
  <2> QED BY <2>2, <2>3, <2>4
<1>6. 1 \notin M
  BY <1>1
<1>7. CASE x.index = i /\ x.promiscuous = p
  <2>1. Having(new, i, p) = M \cup {1}
    BY Zenon, <1>5, <1>6, <1>7
  <2> HIDE DEF H, M
  <2>2. Cardinality(M \cup {1}) = Cardinality(M) + 1
    BY <1>3, <1>6, FS_AddElement
  <2> QED BY <2>1, <2>2, <1>3, <1>7 DEF H, new
<1>8. CASE ~(x.index = i /\ x.promiscuous = p)
  <2>1. Having(new, i, p) = M
    BY Zenon, <1>5, <1>6, <1>8
  <2> HIDE DEF M
  <2> QED BY <2>1, <1>1, <1>3, <1>8 DEF H, new
<1> QED BY <1>7, <1>8

\* Taking an object out uncounts it and no other.
LEMMA HavingWithout ==
    ASSUME NEW list \in Seq(nd_iface), NEW k \in 1 .. Len(list), NEW i, NEW p
    PROVE  Cardinality(Having(Without(list, k), i, p)) =
               Cardinality(Having(list, i, p)) - IF list[k].index = i /\ list[k].promiscuous = p THEN 1 ELSE 0
<1> DEFINE H == Having(list, i, p)
           new == Without(list, k)
           H2 == Having(new, i, p)
           was(j) == IF j < k THEN j ELSE j + 1
           f == [j \in H2 |-> was(j)]
<1>1. Len(list) \in Nat /\ k \in Nat
  OBVIOUS
<1>2. IsFiniteSet(H) /\ Cardinality(H) \in Nat
  BY Zenon, <1>1, HavingFinite
<1>3. /\ new \in Seq(nd_iface) /\ Len(new) = Len(list) - 1
      /\ \A j \in 1 .. Len(list) - 1 : new[j] = list[was(j)]
  BY WithoutIs
<1> HIDE DEF new
<1>4. IsFiniteSet(H2)
  <2>1. Len(new) \in Nat
    BY <1>3
  <2> QED BY Zenon, <2>1, HavingFinite
<1>5. ASSUME NEW j \in H2 PROVE was(j) \in H \ {k}
  <2>1. j \in 1 .. Len(list) - 1 /\ new[j].index = i /\ new[j].promiscuous = p
    BY <1>3 DEF Having
  <2>2. was(j) \in 1 .. Len(list) /\ was(j) # k /\ new[j] = list[was(j)]
    BY <2>1, <1>1, <1>3
  <2> HIDE DEF was
  <2> QED BY <2>1, <2>2 DEF Having
<1>6. ASSUME NEW o \in H \ {k} PROVE \E j \in H2 : was(j) = o
  <2>1. o \in 1 .. Len(list) /\ list[o].index = i /\ list[o].promiscuous = p /\ o # k
    BY DEF Having
  <2> DEFINE j == IF o < k THEN o ELSE o - 1
  <2>2. j \in 1 .. Len(list) - 1 /\ was(j) = o
    BY <2>1, <1>1
  <2>3. new[j] = list[o]
    BY <2>2, <1>3
  <2> HIDE DEF j, was
  <2>4. j \in H2
    BY <2>1, <2>2, <2>3, <1>3 DEF Having
  <2> QED BY <2>2, <2>4
<1>7. ASSUME NEW j \in H2, NEW m \in H2, was(j) = was(m) PROVE j = m
  <2>1. j \in Int /\ m \in Int
    BY <1>3, <1>1 DEF Having
  <2> QED BY <2>1, <1>1, <1>7
<1> HIDE DEF H, H2, was
<1>8. f \in Bijection(H2, H \ {k})
  BY <1>5, <1>6, <1>7 DEF Bijection, Injection, Surjection, IsInjective
<1>9. Cardinality(H \ {k}) = Cardinality(H2)
  BY <1>4, <1>8, FS_Bijection DEF ExistsBijection
<1>10. k \in H <=> list[k].index = i /\ list[k].promiscuous = p
  BY DEF Having, H
<1>11. Cardinality(H \ {k}) = IF k \in H THEN Cardinality(H) - 1 ELSE Cardinality(H)
  BY <1>2, FS_RemoveElement
<1>12. Cardinality(H2) = Cardinality(H) - IF list[k].index = i /\ list[k].promiscuous = p THEN 1 ELSE 0
  BY <1>2, <1>9, <1>10, <1>11
<1> QED BY <1>12 DEF H, H2, new

\* Giving the object at k another index moves it from one count to the other.
LEMMA HavingMoved ==
    ASSUME NEW list, Len(list) \in Nat, NEW new, Len(new) = Len(list), NEW k \in 1 .. Len(list),
           \A o \in 1 .. Len(list) : new[o].promiscuous = list[o].promiscuous,
           \A o \in 1 .. Len(list) : o # k => new[o].index = list[o].index,
           NEW i, NEW p
    PROVE  LET at(l) == IF l[k].index = i /\ l[k].promiscuous = p THEN 1 ELSE 0
           IN  Cardinality(Having(new, i, p)) = Cardinality(Having(list, i, p)) + at(new) - at(list)
<1> DEFINE H == Having(list, i, p)
           H2 == Having(new, i, p)
<1>1. IsFiniteSet(H) /\ IsFiniteSet(H2) /\ Cardinality(H) \in Nat /\ Cardinality(H2) \in Nat
  <2>1. Len(new) \in Nat
    OBVIOUS
  <2> QED BY Zenon, <2>1, HavingFinite
<1>2. H \ {k} = H2 \ {k}
  BY DEF Having
<1>3. /\ k \in H <=> list[k].index = i /\ list[k].promiscuous = p
      /\ k \in H2 <=> new[k].index = i /\ new[k].promiscuous = p
  BY DEF Having
<1> HIDE DEF H, H2
<1>4. /\ Cardinality(H \ {k}) = IF k \in H THEN Cardinality(H) - 1 ELSE Cardinality(H)
      /\ Cardinality(H2 \ {k}) = IF k \in H2 THEN Cardinality(H2) - 1 ELSE Cardinality(H2)
  BY <1>1, FS_RemoveElement
<1>5. Cardinality(H2) = Cardinality(H) + (IF k \in H2 THEN 1 ELSE 0) - (IF k \in H THEN 1 ELSE 0)
  <2>1. Cardinality(H \ {k}) = Cardinality(H2 \ {k})
    BY Zenon, <1>2
  <2> DEFINE c == Cardinality(H)
             c2 == Cardinality(H2)
             d == Cardinality(H \ {k})
             b == k \in H
             b2 == k \in H2
  <2>2. c \in Nat /\ c2 \in Nat /\ d = (IF b THEN c - 1 ELSE c) /\ d = (IF b2 THEN c2 - 1 ELSE c2)
    BY Zenon, <1>1, <1>4, <2>1
  <2> HIDE DEF c, c2, d, b, b2
  <2>3. c2 = c + (IF b2 THEN 1 ELSE 0) - (IF b THEN 1 ELSE 0)
    BY <2>2
  <2> QED BY Zenon, <2>3 DEF c, c2, d, b, b2
<1> QED BY <1>3, <1>5 DEF H, H2

Less == {p \in Nat \X Nat : p[1] < p[2]}

\* The order of the natural numbers, as the relation the library's theorem is about.
LEMMA LessWellFounded == IsWellFoundedOn(Less, Nat)
<1>1. IsWellFoundedOn(OpToRel(<, Nat), Nat)
  BY Zenon, NatLessThanWellFounded
<1>2. OpToRel(<, Nat) = Less
  BY Zenon DEF OpToRel, Less
<1> QED BY Zenon, <1>1, <1>2

\* What Min is for: the least of the positions that pass a test.
LEMMA MinIs ==
    ASSUME NEW S \in SUBSET Nat, S # {}
    PROVE  Min(S) \in S /\ \A k \in S : Min(S) <= k
<1>1. PICK m \in S : \A k \in S : ~(<<k, m>> \in Less)
  BY LessWellFounded, WFMin
<1>2. ASSUME NEW k \in S PROVE m <= k
  <2>1. k \in Nat /\ m \in Nat
    BY Zenon
  <2>2. SUFFICES ASSUME k < m PROVE FALSE
    BY <2>1
  <2>3. <<k, m>> \in Nat \X Nat /\ <<k, m>>[1] = k /\ <<k, m>>[2] = m
    BY <2>1
  <2> QED BY <1>1, <2>2, <2>3 DEF Less
<1> QED BY <1>2 DEF Min

\* The list with nothing changed that the invariants speak of.
Same(list, new) ==
    /\ new \in Seq(nd_iface) /\ Len(new) = Len(list)
    /\ \A o \in 1 .. Len(list) :
          /\ new[o].name = list[o].name /\ new[o].index = list[o].index
          /\ new[o].up = list[o].up /\ new[o].promiscuous = list[o].promiscuous

\* An object is replaced by one that stands for the same and is bound to the same.
LEMMA ReplacedIs ==
    ASSUME NEW list \in Seq(nd_iface), NEW k \in 1 .. Len(list), NEW y \in nd_iface,
           y.name = list[k].name, y.index = list[k].index, y.up = list[k].up, y.promiscuous = list[k].promiscuous
    PROVE  Same(list, [list EXCEPT ![k] = y])
<1> DEFINE new == [list EXCEPT ![k] = y]
<1>1. new \in Seq(nd_iface) /\ Len(new) = Len(list)
  OBVIOUS
<1>2. \A o \in 1 .. Len(list) : new[o] = IF o = k THEN y ELSE list[o]
  OBVIOUS
<1> HIDE DEF new
<1>3. Same(list, new)
  BY <1>1, <1>2 DEF Same
<1> QED BY <1>3 DEF new

\* Sharing an object changes neither what it stands for nor what it is bound to.
LEMMA SharedIs ==
    ASSUME TypeOK, NEW k \in Objects, NEW asproxy \in BOOLEAN, NEW bysession \in BOOLEAN
    PROVE  Same(ifaces, Shared(k, asproxy, bysession))
<1> DEFINE x == ifaces[k]
           refcount == x.refcount + 1
           proxy == x.proxy \/ asproxy
           sessions == IF bysession THEN x.sessions + 1 ELSE x.sessions
           y == [x EXCEPT !.refcount = refcount, !.proxy = proxy, !.sessions = sessions]
<1>1. ifaces \in Seq(nd_iface) /\ x \in nd_iface
  BY DEF TypeOK, Objects
<1>2. /\ y \in nd_iface /\ y.name = x.name /\ y.index = x.index
      /\ y.up = x.up /\ y.promiscuous = x.promiscuous
  <2>1. refcount \in Nat /\ sessions \in Nat
    BY <1>1 DEF nd_iface
  <2>2. proxy \in BOOLEAN
    BY Zenon, <1>1 DEF nd_iface
  <2> HIDE DEF refcount, proxy, sessions
  <2> QED BY <1>1, <2>1, <2>2 DEF nd_iface
<1>3. Shared(k, asproxy, bysession) = [ifaces EXCEPT ![k] = y]
  BY Zenon, <1>1 DEF Shared
<1> HIDE DEF y
<1> QED BY Zenon, <1>1, <1>2, <1>3, ReplacedIs DEF Objects

\* A new object is bound if its interface exists.
LEMMA NewObjectIs ==
    ASSUME TypeOK, NEW n \in Names, NEW promiscuous \in BOOLEAN, NEW asproxy \in BOOLEAN, NEW bysession \in BOOLEAN
    PROVE  LET x == NewObject(n, promiscuous, asproxy, bysession)
           IN  /\ x \in nd_iface /\ x.name = n /\ x.index = link[n].index
               /\ x.up = Present(n) /\ x.promiscuous = promiscuous
<1>1. link[n] \in [index : 0 .. MAXINDEX, lladdr : LLs, admin : BOOLEAN]
  BY DEF TypeOK
<1> QED BY <1>1 DEF NewObject, nd_iface, Present

\* What there is to share is found, and nothing else.
LEMMA ShareableIs ==
    ASSUME TypeOK, NEW n \in Names
    PROVE  /\ Shareable(n) \in 0 .. Len(ifaces)
           /\ Shareable(n) = 0 =>
                 \A o \in Objects :
                     /\ Present(n) => ~(ifaces[o].index = link[n].index /\ ifaces[o].up)
                     /\ ifaces[o].name = n => Present(n) /\ ifaces[o].up
<1> DEFINE B == {o \in 1 .. Len(ifaces) : ifaces[o].index = link[n].index /\ ifaces[o].up}
           W == {o \in 1 .. Len(ifaces) : ~ifaces[o].up /\ ifaces[o].name = n}
           A == {o \in 1 .. Len(ifaces) : ifaces[o].name = n}
           first(S) == IF S = {} THEN 0 ELSE Min(S)
<1>1. Shareable(n) = IF ~Present(n) THEN first(A) ELSE IF first(B) # 0 THEN first(B) ELSE first(W)
  BY Zenon DEF Shareable, First
<1>2. Len(ifaces) \in Nat
  BY DEF TypeOK
<1>3. ASSUME NEW S \in SUBSET (1 .. Len(ifaces)) PROVE first(S) \in 0 .. Len(ifaces) /\ (first(S) = 0 <=> S = {})
  <2>1. CASE S = {}
    BY <2>1, <1>2
  <2>2. CASE S # {}
    <3>1. Min(S) \in S
      BY <2>2, <1>2, MinIs
    <3>2. first(S) = Min(S)
      BY Zenon, <2>2
    <3>3. Min(S) \in 1 .. Len(ifaces)
      BY Zenon, <3>1
    <3>4. Min(S) \in 0 .. Len(ifaces) /\ Min(S) # 0
      BY <3>3, <1>2
    <3> QED BY Zenon, <2>2, <3>2, <3>4
  <2> QED BY <2>1, <2>2
<1>4. A \in SUBSET (1 .. Len(ifaces)) /\ B \in SUBSET (1 .. Len(ifaces)) /\ W \in SUBSET (1 .. Len(ifaces))
  OBVIOUS
<1>5. /\ first(A) \in 0 .. Len(ifaces) /\ (first(A) = 0 <=> A = {})
      /\ first(B) \in 0 .. Len(ifaces) /\ (first(B) = 0 <=> B = {})
      /\ first(W) \in 0 .. Len(ifaces) /\ (first(W) = 0 <=> W = {})
  BY <1>3, <1>4
<1>6. ASSUME Shareable(n) = 0, NEW o \in Objects
      PROVE  /\ Present(n) => ~(ifaces[o].index = link[n].index /\ ifaces[o].up)
             /\ ifaces[o].name = n => Present(n) /\ ifaces[o].up
  <2>1. CASE Present(n)
    <3>1. B = {} /\ W = {}
      BY Zenon, <2>1, <1>1, <1>5, <1>6
    <3> QED BY Zenon, <2>1, <3>1 DEF Objects
  <2>2. CASE ~Present(n)
    <3>1. A = {}
      BY Zenon, <2>2, <1>1, <1>5, <1>6
    <3> QED BY Zenon, <2>2, <3>1 DEF Objects
  <2> QED BY Zenon, <2>1, <2>2
<1>7. Shareable(n) \in 0 .. Len(ifaces)
  BY Zenon, <1>1, <1>5
<1> QED BY Zenon, <1>6, <1>7

\* An object for the name is put in front, bound if the interface exists; there was
\* nothing to share.
Fronted(n, p) ==
    /\ \A o \in Objects :
          /\ Present(n) => ~(ifaces[o].index = link[n].index /\ ifaces[o].up)
          /\ ifaces[o].name = n => Present(n) /\ ifaces[o].up
    /\ \E x \in nd_iface :
          /\ x.name = n /\ x.index = link[n].index /\ x.up = Present(n) /\ x.promiscuous = p
          /\ ifaces' = <<x>> \o ifaces
    /\ member' = IF Present(n) THEN Joined(link[n].index, p) ELSE member

\* Opening shares an object, or puts a bound or waiting one in front.
LEMMA OpenIs ==
    ASSUME TypeOK, NEW n \in Names, NEW promiscuous \in BOOLEAN, NEW asproxy \in BOOLEAN, NEW bysession \in BOOLEAN,
           nd_iface_open(n, promiscuous, asproxy, bysession)
    PROVE  (Same(ifaces, ifaces') /\ UNCHANGED member) \/ Fronted(n, promiscuous)
<1>1. CASE Shareable(n) # 0
  <2>1. Shareable(n) \in Objects
    <3>1. Shareable(n) \in 0 .. Len(ifaces) /\ Len(ifaces) \in Nat
      BY ShareableIs DEF TypeOK
    <3> QED BY <1>1, <3>1 DEF Objects
  <2>2. ifaces' = Shared(Shareable(n), asproxy, bysession) /\ member' = member
    BY Zenon, <1>1 DEF nd_iface_open
  <2>3. Same(ifaces, Shared(Shareable(n), asproxy, bysession))
    BY <2>1, SharedIs
  <2> QED BY Zenon, <2>2, <2>3
<1>2. CASE Shareable(n) = 0
  <2> DEFINE x == NewObject(n, promiscuous, asproxy, bysession)
  <2>1. ifaces' = <<x>> \o ifaces /\ member' = IF Present(n) THEN Joined(link[n].index, promiscuous) ELSE member
    BY Zenon, <1>2 DEF nd_iface_open
  <2>2. x \in nd_iface /\ x.name = n /\ x.index = link[n].index /\ x.up = Present(n) /\ x.promiscuous = promiscuous
    BY NewObjectIs
  <2>3. \A o \in Objects :
            /\ Present(n) => ~(ifaces[o].index = link[n].index /\ ifaces[o].up)
            /\ ifaces[o].name = n => Present(n) /\ ifaces[o].up
    BY Zenon, <1>2, ShareableIs
  <2> HIDE DEF x
  <2>4. Fronted(n, promiscuous)
    BY Zenon, <2>1, <2>2, <2>3 DEF Fronted
  <2> QED BY Zenon, <2>4
<1> QED BY Zenon, <1>1, <1>2

\* Giving a reference back that is not the last one.
LEMMA UnsharedIs ==
    ASSUME TypeOK, NEW k \in Objects, ifaces[k].sessions > 0, ifaces[k].refcount > 1
    PROVE  Same(ifaces, [ifaces EXCEPT ![k].refcount = @ - 1, ![k].sessions = @ - 1])
<1> DEFINE x == ifaces[k]
           refcount == x.refcount - 1
           sessions == x.sessions - 1
           y == [x EXCEPT !.refcount = refcount, !.sessions = sessions]
<1>1. ifaces \in Seq(nd_iface) /\ x \in nd_iface
  BY DEF TypeOK, Objects
<1>2. /\ y \in nd_iface /\ y.name = x.name /\ y.index = x.index
      /\ y.up = x.up /\ y.promiscuous = x.promiscuous
  <2>1. refcount \in Nat /\ sessions \in Nat
    BY <1>1 DEF nd_iface
  <2> HIDE DEF refcount, sessions
  <2> QED BY <1>1, <2>1 DEF nd_iface
<1>3. [ifaces EXCEPT ![k].refcount = @ - 1, ![k].sessions = @ - 1] = [ifaces EXCEPT ![k] = y]
  BY Zenon, <1>1
<1> HIDE DEF y
<1> QED BY Zenon, <1>1, <1>2, <1>3, ReplacedIs DEF Objects

\* What a visit does to the list: the object visited keeps its name and its kind, the
\* others keep everything, and the index changes only to what the lookup said.
LEMMA VisitIs ==
    ASSUME TypeOK, visit # 0, Gone \/ SameIndex \/ Rebind
    PROVE  /\ ifaces' \in Seq(nd_iface) /\ Len(ifaces') = Len(ifaces) /\ visit \in Objects
           /\ \A o \in Objects :
                 /\ ifaces'[o].name = ifaces[o].name /\ ifaces'[o].promiscuous = ifaces[o].promiscuous
                 /\ o # visit => ifaces'[o] = ifaces[o]
           /\ \/ Gone /\ ifaces'[visit].index = Here.index
              \/ SameIndex /\ ifaces'[visit].index = Here.index /\ ifaces'[visit].up = Here.up
              \/ Rebind /\ Alive(cur) /\ ifaces'[visit].index = cur /\ ifaces'[visit].up
              \/ Rebind /\ ~Alive(cur) /\ ifaces'[visit].index = Here.index /\ ifaces'[visit].up = Here.up
<1> DEFINE x == ifaces[visit]
<1>1. ifaces \in Seq(nd_iface) /\ visit \in Objects /\ x \in nd_iface /\ Here = x /\ visit \in DOMAIN ifaces
  BY DEF TypeOK, Objects, Here
<1>2. Lladdr \in LLs /\ AdminUp \in BOOLEAN
  <2>1. /\ x.name \in Names /\ x.lladdr \in LLs
        /\ link[x.name] \in [index : 0 .. MAXINDEX, lladdr : LLs, admin : BOOLEAN]
    BY <1>1 DEF TypeOK, nd_iface
  <2>2. Lladdr \in LLs
    BY <1>1, <2>1 DEF Lladdr
  <2>3. AdminUp \in BOOLEAN
    BY Zenon, <1>1, <2>1 DEF AdminUp, Present
  <2> QED BY <2>2, <2>3
<1>3. ASSUME NEW y \in nd_iface, y.name = x.name, y.promiscuous = x.promiscuous, ifaces' = [ifaces EXCEPT ![visit] = y]
      PROVE  /\ ifaces' \in Seq(nd_iface) /\ Len(ifaces') = Len(ifaces) /\ ifaces'[visit] = y
             /\ \A o \in Objects :
                   /\ ifaces'[o].name = ifaces[o].name /\ ifaces'[o].promiscuous = ifaces[o].promiscuous
                   /\ o # visit => ifaces'[o] = ifaces[o]
  BY <1>1, <1>3 DEF Objects
<1>4. CASE Gone
  <2> DEFINE y == [x EXCEPT !.up = FALSE, !.admin_up = FALSE]
  <2>1. y \in nd_iface /\ y.name = x.name /\ y.promiscuous = x.promiscuous /\ y.index = x.index
    BY <1>1 DEF nd_iface
  <2>2. ifaces' = [ifaces EXCEPT ![visit] = y]
    BY Zenon, <1>1, <1>4 DEF Gone
  <2> HIDE DEF y
  <2> QED BY Zenon, <1>1, <1>3, <1>4, <2>1, <2>2
<1>5. CASE SameIndex
  <2> DEFINE y == [x EXCEPT !.lladdr = Lladdr, !.admin_up = AdminUp]
  <2>1. y \in nd_iface /\ y.name = x.name /\ y.promiscuous = x.promiscuous /\ y.index = x.index /\ y.up = x.up
    BY <1>1, <1>2 DEF nd_iface
  <2>2. ifaces' = [ifaces EXCEPT ![visit] = y]
    BY Zenon, <1>1, <1>5 DEF SameIndex
  <2> HIDE DEF y
  <2> QED BY Zenon, <1>1, <1>3, <1>5, <2>1, <2>2
<1>6. CASE Rebind /\ Alive(cur)
  <2> DEFINE y == [x EXCEPT !.lladdr = Lladdr, !.admin_up = AdminUp, !.index = cur, !.up = TRUE]
  <2>1. cur \in 0 .. MAXINDEX
    BY <1>6, IfaceAssumption DEF Rebind, TypeOK
  <2>2. y \in nd_iface /\ y.name = x.name /\ y.promiscuous = x.promiscuous /\ y.index = cur /\ y.up
    BY <1>1, <1>2, <2>1 DEF nd_iface
  <2>3. ifaces' = [ifaces EXCEPT ![visit] = y]
    BY Zenon, <1>1, <1>6 DEF Rebind
  <2> HIDE DEF y
  <2> QED BY Zenon, <1>1, <1>3, <1>6, <2>2, <2>3
<1>7. CASE Rebind /\ ~Alive(cur)
  <2> DEFINE y == [x EXCEPT !.lladdr = Lladdr]
  <2>1. y \in nd_iface /\ y.name = x.name /\ y.promiscuous = x.promiscuous /\ y.index = x.index /\ y.up = x.up
    BY <1>1, <1>2 DEF nd_iface
  <2>2. ifaces' = [ifaces EXCEPT ![visit] = y]
    BY Zenon, <1>1, <1>7 DEF Rebind
  <2> HIDE DEF y
  <2> QED BY Zenon, <1>1, <1>3, <1>7, <2>1, <2>2
<1> QED BY Zenon, <1>4, <1>5, <1>6, <1>7

----------------------------------------------------------------------------
(* Memberships. *)

\* The daemon starts with no object and no membership.
LEMMA InitBound == Init => BoundInv
<1> SUFFICES ASSUME Init PROVE BoundInv
  OBVIOUS
<1>1. PICK n \in 0 .. MAXINDEX : \E s \in SUBSET Names : \E index \in Bijection(s, 1 .. n) :
          /\ link = [m \in Names |-> IF m \in s THEN [Absent EXCEPT !.index = index[m], !.admin = TRUE] ELSE Absent]
          /\ used = 1 .. n
  BY Zenon DEF Init
<1>2. PICK s \in SUBSET Names : \E index \in Bijection(s, 1 .. n) :
          /\ link = [m \in Names |-> IF m \in s THEN [Absent EXCEPT !.index = index[m], !.admin = TRUE] ELSE Absent]
          /\ used = 1 .. n
  BY Zenon, <1>1
<1>3. PICK index \in Bijection(s, 1 .. n) :
          /\ link = [m \in Names |-> IF m \in s THEN [Absent EXCEPT !.index = index[m], !.admin = TRUE] ELSE Absent]
          /\ used = 1 .. n
  BY Zenon, <1>2
<1>4. index \in [s -> 1 .. n] /\ \A a, b \in s : index[a] = index[b] => a = b
  BY DEF Bijection, Injection, IsInjective
<1>5. Absent \in [index : 0 .. MAXINDEX, lladdr : LLs, admin : BOOLEAN] /\ Absent.index = 0
  BY IfaceAssumption DEF Absent
<1>6. n \in Nat /\ MAXINDEX \in Nat /\ n <= MAXINDEX
  BY IfaceAssumption
<1> HIDE DEF Absent
<1>7. \A m \in Names : /\ link[m] \in [index : 0 .. MAXINDEX, lladdr : LLs, admin : BOOLEAN]
                       /\ link[m].index = IF m \in s THEN index[m] ELSE 0
  <2> TAKE m \in Names
  <2>1. CASE m \in s
    <3>1. link[m] = [Absent EXCEPT !.index = index[m], !.admin = TRUE]
      BY <1>3, <2>1
    <3>2. index[m] \in 0 .. MAXINDEX
      BY <1>4, <1>6, <2>1
    <3> QED BY <1>5, <2>1, <3>1, <3>2
  <2>2. CASE m \notin s
    BY <1>3, <1>5, <2>2
  <2> QED BY <2>1, <2>2
<1>8. /\ renames = 0 /\ failed = FALSE /\ overtaken = {} /\ member = [x \in Indexes \X BOOLEAN |-> 0] /\ ifaces = <<>>
      /\ todo = Config /\ visit = 0 /\ cur = -1 /\ fresh = {} /\ heard = {}
  BY Zenon DEF Init
<1>9. TypeOK
  <2>1. link \in [Names -> [index : 0 .. MAXINDEX, lladdr : LLs, admin : BOOLEAN]]
    BY <1>3, <1>7
  <2>2. used \subseteq Indexes
    <3>1. used = 1 .. n
      BY Zenon, <1>3
    <3> QED BY <1>6, <3>1 DEF Indexes
  <2>3. renames \in 0 .. MAXRENAMES /\ cur \in -1 .. MAXINDEX /\ todo \in Seq(Opening)
    BY <1>6, <1>8, IfaceAssumption
  <2>4. member \in [Indexes \X BOOLEAN -> Nat] /\ ifaces \in Seq(nd_iface) /\ visit \in 0 .. Len(ifaces)
    BY <1>8
  <2> QED BY <1>8, <2>1, <2>2, <2>3, <2>4 DEF TypeOK
<1>10. IndexOK
  <2>1. \A m \in Names : link[m].index \in used \cup {0}
    BY <1>3, <1>4, <1>7
  <2>2. \A a, b \in Names : link[a].index = link[b].index /\ link[a].index # 0 => a = b
    <3> TAKE a, b \in Names
    <3>1. a \in s => index[a] # 0
      BY <1>4, <1>6
    <3> QED BY <3>1, <1>4, <1>7
  <2>3. Objects = {}
    BY <1>8 DEF Objects
  <2> QED BY <1>8, <2>1, <2>2, <2>3 DEF IndexOK
<1>11. HearsOK
  <2> SUFFICES ASSUME NEW i \in Indexes, NEW p \in BOOLEAN PROVE member[<<i, p>>] >= Cardinality(Having(ifaces, i, p))
    BY DEF HearsOK
  <2>1. Having(ifaces, i, p) = {}
    BY <1>8 DEF Having
  <2>2. member[<<i, p>>] = 0
    BY <1>8
  <2> QED BY <2>1, <2>2, FS_EmptySet
<1> QED BY <1>8, <1>9, <1>10, <1>11 DEF BoundInv, PassOK

\* An interface comes, with an index that nothing knows yet.
LEMMA CreateKeeps ==
    ASSUME BoundInv, ~REUSE, NEW n \in Names, NEW i \in Indexes, NEW l \in LLs, NEW admin \in BOOLEAN,
           KernelCreate(n, i, l, admin)
    PROVE  BoundInv' /\ i \notin used /\ link'[n].index = i /\ \A m \in Names : m # n => link'[m] = link[m]
<1> USE DEF BoundInv
<1>1. /\ i \notin used /\ used' = used \cup {i} /\ fresh' = fresh \cup {i}
      /\ link' = [link EXCEPT ![n] = [index |-> i, lladdr |-> l, admin |-> admin]]
      /\ renames' = renames /\ failed' = failed /\ overtaken' \in {overtaken, overtaken \cup {n}}
      /\ member' = member /\ ifaces' = ifaces /\ todo' = todo /\ visit' = visit /\ cur' = cur /\ heard' = heard
  BY DEF KernelCreate
<1>2. i \in 0 .. MAXINDEX /\ i # 0
  BY IfaceAssumption DEF Indexes
<1>3. link'[n].index = i /\ \A m \in Names : m # n => link'[m] = link[m]
  BY <1>1 DEF TypeOK
<1>4. TypeOK'
  BY <1>1, <1>2 DEF TypeOK
<1>5. IndexOK'
  BY <1>1, <1>2, <1>3 DEF IndexOK, Objects
<1>6. HearsOK'
  <2> SUFFICES ASSUME NEW j \in Indexes, NEW p \in BOOLEAN, Alive(j)'
               PROVE  member[<<j, p>>] >= Cardinality(Having(ifaces, j, p))
    BY <1>1 DEF HearsOK
  <2>1. CASE j = i
    <3>1. Having(ifaces, j, p) = {}
      BY <1>1, <1>2, <2>1 DEF Having, IndexOK, Objects
    <3>2. member[<<j, p>>] \in Nat
      BY DEF TypeOK
    <3> QED BY <3>1, <3>2, FS_EmptySet
  <2>2. CASE j # i
    <3>1. Alive(j)
      BY <1>3, <2>2 DEF Alive
    <3> QED BY <3>1 DEF HearsOK
  <2> QED BY <2>1, <2>2
<1>7. PassOK'
  BY <1>1 DEF PassOK
<1> QED BY <1>1, <1>3, <1>4, <1>5, <1>6, <1>7

\* An interface goes, and its memberships with it.
LEMMA DeleteKeeps ==
    ASSUME BoundInv, NEW n \in Names, KernelDelete(n)
    PROVE  BoundInv' /\ link'[n].index = 0 /\ \A m \in Names : m # n => link'[m] = link[m]
<1> USE DEF BoundInv
<1> DEFINE i == link[n].index
<1>1. /\ link' = [link EXCEPT ![n] = Absent]
      /\ member' = [x \in Indexes \X BOOLEAN |-> IF x[1] = i THEN 0 ELSE member[x]]
      /\ used' = used /\ renames' = renames /\ failed' = failed /\ overtaken' = overtaken /\ ifaces' = ifaces
      /\ todo' = todo /\ visit' = visit /\ cur' = cur /\ fresh' = fresh /\ heard' = heard
  BY DEF KernelDelete
<1>2. Absent \in [index : 0 .. MAXINDEX, lladdr : LLs, admin : BOOLEAN] /\ Absent.index = 0
  BY IfaceAssumption DEF Absent
<1> HIDE DEF Absent
<1>3. link'[n].index = 0 /\ \A m \in Names : m # n => link'[m] = link[m]
  BY <1>1, <1>2 DEF TypeOK
<1>4. TypeOK'
  <2>1. link' \in [Names -> [index : 0 .. MAXINDEX, lladdr : LLs, admin : BOOLEAN]]
    BY <1>1, <1>2 DEF TypeOK
  <2>2. member' \in [Indexes \X BOOLEAN -> Nat]
    BY <1>1 DEF TypeOK
  <2> QED BY <1>1, <2>1, <2>2 DEF TypeOK
<1>5. IndexOK'
  BY <1>1, <1>3 DEF IndexOK, Objects
<1>6. HearsOK'
  <2> SUFFICES ASSUME NEW j \in Indexes, NEW p \in BOOLEAN, Alive(j)'
               PROVE  member'[<<j, p>>] >= Cardinality(Having(ifaces, j, p))
    BY <1>1 DEF HearsOK
  <2>1. Alive(j) /\ j # i
    BY <1>3 DEF Alive, IndexOK
  <2>2. member'[<<j, p>>] = member[<<j, p>>]
    BY <1>1, <2>1
  <2> QED BY <2>1, <2>2 DEF HearsOK
<1>7. PassOK'
  BY <1>1 DEF PassOK
<1> QED BY <1>3, <1>4, <1>5, <1>6, <1>7

\* An interface changes its name and keeps its index.
LEMMA RenameKeeps ==
    ASSUME BoundInv, NEW n \in Names, NEW m \in Names, KernelRename(n, m)
    PROVE  BoundInv' /\ renames' # 0
<1> USE DEF BoundInv
<1>1. /\ renames < MAXRENAMES /\ renames' = renames + 1 /\ Present(n) /\ ~Present(m)
      /\ link' = [link EXCEPT ![n] = Absent, ![m] = link[n]]
      /\ used' = used /\ failed' = failed /\ overtaken' = overtaken /\ member' = member /\ ifaces' = ifaces
      /\ todo' = todo /\ visit' = visit /\ cur' = cur /\ fresh' = fresh /\ heard' = heard
  BY DEF KernelRename
<1>2. Absent \in [index : 0 .. MAXINDEX, lladdr : LLs, admin : BOOLEAN] /\ Absent.index = 0
  BY IfaceAssumption DEF Absent
<1> HIDE DEF Absent
<1>3. n # m /\ link[m].index = 0 /\ link[n].index # 0
  BY <1>1 DEF Present
<1>4. link'[n].index = 0 /\ link'[m] = link[n] /\ \A k \in Names : k # n /\ k # m => link'[k] = link[k]
  BY <1>1, <1>2, <1>3 DEF TypeOK
<1>5. TypeOK'
  <2>1. link' \in [Names -> [index : 0 .. MAXINDEX, lladdr : LLs, admin : BOOLEAN]]
    BY <1>1, <1>2 DEF TypeOK
  <2>2. renames' \in 0 .. MAXRENAMES
    BY <1>1, IfaceAssumption DEF TypeOK
  <2> QED BY <1>1, <2>1, <2>2 DEF TypeOK
<1>6. IndexOK'
  <2>1. \A k \in Names : link'[k].index \in used' \cup {0}
    BY <1>1, <1>4 DEF IndexOK
  <2>2. \A k, j \in Names : link'[k].index = link'[j].index /\ link'[k].index # 0 => k = j
    BY <1>3, <1>4 DEF IndexOK
  <2> QED BY <1>1, <2>1, <2>2 DEF IndexOK, Objects
<1>7. HearsOK'
  <2>1. \A j : Alive(j)' => Alive(j)
    BY <1>4 DEF Alive
  <2> QED BY <1>1, <2>1 DEF HearsOK
<1>8. PassOK'
  BY <1>1 DEF PassOK
<1>9. renames' # 0
  BY <1>1 DEF TypeOK
<1> QED BY <1>5, <1>6, <1>7, <1>8, <1>9

\* An address or a flag changes.
LEMMA ChangeKeeps ==
    ASSUME BoundInv, NEW n \in Names, NEW l \in LLs, NEW admin \in BOOLEAN, KernelChange(n, l, admin)
    PROVE  BoundInv' /\ \A m \in Names : link'[m].index = link[m].index
<1> USE DEF BoundInv
<1> DEFINE y == [link[n] EXCEPT !.lladdr = l, !.admin = admin]
<1>1. /\ used' = used /\ renames' = renames /\ failed' = failed /\ overtaken' = overtaken /\ member' = member /\ ifaces' = ifaces
      /\ todo' = todo /\ visit' = visit /\ cur' = cur /\ fresh' = fresh /\ heard' = heard
      /\ link' = [link EXCEPT ![n].lladdr = l, ![n].admin = admin]
  BY DEF KernelChange
<1>2. link' = [link EXCEPT ![n] = y]
  BY Zenon, <1>1 DEF TypeOK
<1>3. y \in [index : 0 .. MAXINDEX, lladdr : LLs, admin : BOOLEAN] /\ y.index = link[n].index
  BY DEF TypeOK
<1> HIDE DEF y
<1>4. TypeOK'
  BY <1>1, <1>2, <1>3 DEF TypeOK
<1>5. \A m \in Names : link'[m].index = link[m].index
  BY <1>2, <1>3 DEF TypeOK
<1>6. IndexOK'
  BY <1>1, <1>5 DEF IndexOK, Objects
<1>7. HearsOK'
  <2>1. \A j : Alive(j)' => Alive(j)
    BY <1>5 DEF Alive
  <2> QED BY <1>1, <2>1 DEF HearsOK
<1>8. PassOK'
  BY <1>1 DEF PassOK
<1> QED BY <1>4, <1>5, <1>6, <1>7, <1>8

\* The list changes in nothing that the invariant speaks of.
LEMMA SameKeeps ==
    ASSUME BoundInv, Same(ifaces, ifaces'), UNCHANGED member,
           UNCHANGED <<link, used, renames, failed, overtaken, visit, cur, fresh, heard>>,
           todo' \in Seq(Opening), todo' # <<>> => todo # <<>>
    PROVE  BoundInv'
<1> USE DEF BoundInv
<1>1. Len(ifaces') = Len(ifaces) /\ Len(ifaces) \in Nat
  BY DEF Same, TypeOK
<1>2. TypeOK'
  BY <1>1 DEF TypeOK, Same
<1>3. IndexOK'
  BY <1>1 DEF IndexOK, Same, Objects
<1>4. HearsOK'
  <2>1. \A i, p : Having(ifaces', i, p) = Having(ifaces, i, p)
    <3> SUFFICES ASSUME NEW i, NEW p PROVE Having(ifaces', i, p) = Having(ifaces, i, p)
      BY Zenon
    <3>1. \A o \in 1 .. Len(ifaces) :
              ifaces'[o].index = ifaces[o].index /\ ifaces'[o].promiscuous = ifaces[o].promiscuous
      BY Zenon DEF Same
    <3> QED BY <1>1, <3>1 DEF Having
  <2>2. \A i : Alive(i)' = Alive(i)
    BY DEF Alive
  <2> QED BY <2>1, <2>2 DEF HearsOK
<1> QED BY <1>2, <1>3, <1>4 DEF PassOK

\* A new object has its membership, if its interface exists.
LEMMA NewKeeps ==
    ASSUME BoundInv, NEW n \in Names, NEW p \in BOOLEAN, NEW x \in nd_iface,
           x.index = link[n].index, x.promiscuous = p,
           ifaces' = <<x>> \o ifaces,
           member' = IF Present(n) THEN Joined(link[n].index, p) ELSE member,
           UNCHANGED <<link, used, renames, failed, overtaken, visit, cur, fresh, heard>>,
           todo' \in Seq(Opening), todo' # <<>> => todo # <<>>, visit = 0
    PROVE  BoundInv'
<1> USE DEF BoundInv
<1> DEFINE i == link[n].index
<1>1. /\ ifaces' \in Seq(nd_iface) /\ Len(ifaces') = Len(ifaces) + 1 /\ Len(ifaces) \in Nat
      /\ ifaces'[1] = x /\ \A j \in 1 .. Len(ifaces) : ifaces'[j + 1] = ifaces[j]
  <2>1. ifaces \in Seq(nd_iface)
    BY DEF TypeOK
  <2> QED BY <2>1, PrependedIs
<1>2. member' \in [Indexes \X BOOLEAN -> Nat]
  <2>1. i \in 0 .. MAXINDEX
    BY DEF TypeOK
  <2> QED BY <2>1, IfaceAssumption DEF TypeOK, Joined, Present, Indexes
<1>3. TypeOK'
  BY <1>1, <1>2 DEF TypeOK
<1>4. IndexOK'
  <2>1. \A o \in 1 .. Len(ifaces') : ifaces'[o].index \in used \cup {0}
    <3> TAKE o \in 1 .. Len(ifaces')
    <3>1. CASE o = 1
      BY <1>1, <3>1 DEF IndexOK
    <3>2. CASE o # 1
      <4>1. o - 1 \in 1 .. Len(ifaces) /\ (o - 1) + 1 = o
        BY <1>1, <3>2
      <4>2. ifaces'[o] = ifaces[o - 1]
        BY <1>1, <4>1
      <4> QED BY <4>1, <4>2 DEF IndexOK, Objects
    <3> QED BY <3>1, <3>2
  <2> QED BY <2>1 DEF IndexOK, Objects
<1>5. HearsOK'
  <2> SUFFICES ASSUME NEW j \in Indexes, NEW q \in BOOLEAN, Alive(j)
               PROVE  member'[<<j, q>>] >= Cardinality(Having(ifaces', j, q))
    BY DEF HearsOK, Alive
  <2>1. Cardinality(Having(ifaces', j, q)) =
            Cardinality(Having(ifaces, j, q)) + IF x.index = j /\ x.promiscuous = q THEN 1 ELSE 0
    BY HavingPrepend DEF TypeOK
  <2>2. Cardinality(Having(ifaces, j, q)) \in Nat
    BY <1>1, HavingFinite
  <2>3. member[<<j, q>>] \in Nat /\ member[<<j, q>>] >= Cardinality(Having(ifaces, j, q))
    BY DEF TypeOK, HearsOK
  <2>4. CASE j = i /\ q = p
    <3>1. Present(n)
      BY <2>4, IfaceAssumption DEF Present, Indexes
    <3>2. member'[<<j, q>>] = member[<<j, q>>] + 1
      BY <3>1, <2>4 DEF Joined, TypeOK
    <3> QED BY <2>1, <2>2, <2>3, <3>2
  <2>5. CASE ~(j = i /\ q = p)
    <3>1. member'[<<j, q>>] = member[<<j, q>>]
      BY <2>5 DEF Joined, TypeOK
    <3> QED BY <2>1, <2>2, <2>3, <2>5, <3>1
  <2> QED BY <2>4, <2>5
<1> QED BY <1>3, <1>4, <1>5 DEF PassOK

\* Start-up and sessions open an interface.
LEMMA OpenKeeps ==
    ASSUME BoundInv, NEW n \in Names, NEW p \in BOOLEAN, NEW asproxy \in BOOLEAN, NEW bysession \in BOOLEAN,
           nd_iface_open(n, p, asproxy, bysession),
           UNCHANGED <<link, used, renames, failed, overtaken, visit, cur, fresh, heard>>,
           todo' \in Seq(Opening), todo' # <<>> => todo # <<>>, visit = 0
    PROVE  BoundInv'
<1>1. TypeOK
  BY DEF BoundInv
<1>2. CASE Same(ifaces, ifaces') /\ UNCHANGED member
  BY Zenon, <1>2, SameKeeps
<1>3. ASSUME NEW x \in nd_iface, x.index = link[n].index, x.promiscuous = p, ifaces' = <<x>> \o ifaces,
             member' = IF Present(n) THEN Joined(link[n].index, p) ELSE member
      PROVE  BoundInv'
  BY Zenon, <1>3, NewKeeps
<1>4. (Same(ifaces, ifaces') /\ UNCHANGED member) \/ Fronted(n, p)
  BY Zenon, <1>1, OpenIs
<1>5. CASE Fronted(n, p)
  BY Zenon, <1>3, <1>5 DEF Fronted
<1> QED BY Zenon, <1>2, <1>4, <1>5

\* A session gives its reference back; the last reference takes the membership along.
LEMMA CloseKeeps ==
    ASSUME BoundInv, NEW k \in Objects, nd_iface_close(k)
    PROVE  /\ BoundInv' /\ visit = 0 /\ todo = <<>>
           /\ Same(ifaces, ifaces') \/ ifaces' = Without(ifaces, k)
           /\ UNCHANGED <<link, used, renames, failed, overtaken, todo, visit, cur, fresh, heard>>
<1> USE DEF BoundInv
<1>1. /\ todo = <<>> /\ visit = 0 /\ ifaces[k].sessions > 0
      /\ link' = link /\ used' = used /\ renames' = renames /\ failed' = failed /\ overtaken' = overtaken /\ todo' = todo
      /\ visit' = visit /\ cur' = cur /\ fresh' = fresh /\ heard' = heard
  BY DEF nd_iface_close, Idle
<1>2. ifaces \in Seq(nd_iface) /\ Len(ifaces) \in Nat /\ todo \in Seq(Opening)
  BY DEF TypeOK
<1>3. CASE ifaces[k].refcount > 1
  <2>1. Same(ifaces, ifaces') /\ UNCHANGED member
    <3>1. ifaces' = [ifaces EXCEPT ![k].refcount = @ - 1, ![k].sessions = @ - 1] /\ member' = member
      BY Zenon, <1>3 DEF nd_iface_close
    <3>2. Same(ifaces, [ifaces EXCEPT ![k].refcount = @ - 1, ![k].sessions = @ - 1])
      BY Zenon, <1>1, <1>3, UnsharedIs
    <3> QED BY Zenon, <3>1, <3>2
  <2>2. BoundInv'
    BY Zenon, <1>1, <1>2, <2>1, SameKeeps
  <2> QED BY Zenon, <1>1, <2>1, <2>2
<1>4. CASE ~(ifaces[k].refcount > 1)
  <2> DEFINE i == ifaces[k].index
             p == ifaces[k].promiscuous
  <2>1. /\ ifaces' = Without(ifaces, k)
        /\ member' = IF ifaces[k].up THEN Dropped(i, p) ELSE member
    BY Zenon, <1>4 DEF nd_iface_close, Without
  <2>2. /\ ifaces' \in Seq(nd_iface) /\ Len(ifaces') = Len(ifaces) - 1
        /\ \A j \in 1 .. Len(ifaces) - 1 : ifaces'[j] = IF j < k THEN ifaces[j] ELSE ifaces[j + 1]
    BY <1>2, <2>1, WithoutIs DEF Objects
  <2>3. i \in 0 .. MAXINDEX /\ p \in BOOLEAN
    <3>1. ifaces[k] \in nd_iface
      BY <1>2 DEF Objects
    <3> QED BY <3>1 DEF nd_iface
  <2> HIDE DEF i, p
  <2>4. member' \in [Indexes \X BOOLEAN -> Nat]
    <3>1. \A x \in Indexes \X BOOLEAN : (IF member[x] = 0 THEN 0 ELSE member[x] - 1) \in Nat
      BY DEF TypeOK
    <3> QED BY <2>1, <3>1 DEF TypeOK, Dropped
  <2>5. TypeOK'
    BY <1>1, <1>2, <2>2, <2>4 DEF TypeOK
  <2>6. IndexOK'
    <3>1. \A o \in 1 .. Len(ifaces) - 1 : ifaces'[o].index \in used \cup {0}
      BY <1>2, <2>2 DEF IndexOK, Objects
    <3> QED BY <1>1, <2>2, <3>1 DEF IndexOK, Objects
  <2>7. HearsOK'
    <3> SUFFICES ASSUME NEW j \in Indexes, NEW q \in BOOLEAN, Alive(j)
                 PROVE  member'[<<j, q>>] >= Cardinality(Having(ifaces', j, q))
      BY <1>1 DEF HearsOK, Alive
    <3>1. Cardinality(Having(ifaces', j, q)) =
              Cardinality(Having(ifaces, j, q)) - IF i = j /\ p = q THEN 1 ELSE 0
      BY <1>2, <2>1, HavingWithout DEF Objects, i, p
    <3>2. Cardinality(Having(ifaces, j, q)) \in Nat /\ Cardinality(Having(ifaces', j, q)) \in Nat
      BY <1>2, <2>2, HavingFinite
    <3>3. member[<<j, q>>] \in Nat /\ member[<<j, q>>] >= Cardinality(Having(ifaces, j, q))
      BY DEF TypeOK, HearsOK
    <3>4. CASE j = i /\ q = p
      <4>1. \/ member'[<<j, q>>] = member[<<j, q>>]
            \/ member'[<<j, q>>] = IF member[<<j, q>>] = 0 THEN 0 ELSE member[<<j, q>>] - 1
        BY <2>1, <3>4 DEF Dropped, TypeOK
      <4> QED BY <3>1, <3>2, <3>3, <3>4, <4>1
    <3>5. CASE ~(j = i /\ q = p)
      <4>1. member'[<<j, q>>] = member[<<j, q>>]
        BY <2>1, <3>5 DEF Dropped, TypeOK
      <4> QED BY <3>1, <3>2, <3>3, <3>5, <4>1
    <3> QED BY <3>4, <3>5
  <2> QED BY <1>1, <2>1, <2>5, <2>6, <2>7 DEF PassOK
<1> QED BY Zenon, <1>3, <1>4

\* The list and the kernel stand still: a pass begins, a name is looked up, a lookup fails.
LEMMA StillKeeps ==
    ASSUME BoundInv, UNCHANGED <<link, used, renames, overtaken, member, ifaces, todo>>,
           visit' \in 0 .. Len(ifaces), todo # <<>> => visit' = 0,
           cur' \in used \cup {0, -1}, fresh' \subseteq fresh, heard' \subseteq heard \cup fresh,
           failed' \in BOOLEAN
    PROVE  BoundInv'
<1> USE DEF BoundInv
<1>1. TypeOK'
  <2>1. cur' \in -1 .. MAXINDEX
    BY IfaceAssumption DEF TypeOK, Indexes
  <2> QED BY <2>1 DEF TypeOK
<1>2. IndexOK'
  BY DEF IndexOK, Objects
<1>3. HearsOK'
  BY DEF HearsOK, Alive
<1> QED BY <1>1, <1>2, <1>3 DEF PassOK

\* A pass begins.
LEMMA StartKeeps ==
    ASSUME BoundInv, StartPass
    PROVE  BoundInv'
<1> USE DEF BoundInv
<1>1. /\ visit' = 1 /\ cur' = -1 /\ heard' = fresh /\ fresh' = fresh /\ todo = <<>> /\ ifaces # <<>>
      /\ failed' = failed /\ UNCHANGED <<link, used, renames, overtaken, member, ifaces, todo>>
  BY DEF StartPass, Idle
<1>2. Len(ifaces) \in Nat /\ Len(ifaces) # 0 /\ failed \in BOOLEAN
  BY <1>1 DEF TypeOK
<1>3. /\ visit' \in 0 .. Len(ifaces) /\ (todo # <<>> => visit' = 0) /\ cur' \in used \cup {0, -1}
      /\ fresh' \subseteq fresh /\ heard' \subseteq heard \cup fresh /\ failed' \in BOOLEAN
  BY <1>1, <1>2
<1> QED BY Zenon, <1>1, <1>3, StillKeeps

\* A name is looked up.
LEMMA LookupKeeps ==
    ASSUME BoundInv, Lookup
    PROVE  BoundInv'
<1> USE DEF BoundInv
<1>1. /\ cur' = link[ifaces[visit].name].index /\ visit # 0
      /\ visit' = visit /\ fresh' = fresh /\ heard' = heard
      /\ failed' = failed /\ UNCHANGED <<link, used, renames, overtaken, member, ifaces, todo>>
  BY DEF Lookup
<1>2. ifaces[visit].name \in Names
  <2>1. ifaces[visit] \in nd_iface
    BY <1>1 DEF TypeOK
  <2> QED BY <2>1 DEF nd_iface
<1>3. /\ visit' \in 0 .. Len(ifaces) /\ (todo # <<>> => visit' = 0) /\ cur' \in used \cup {0, -1}
      /\ fresh' \subseteq fresh /\ heard' \subseteq heard \cup fresh /\ failed' \in BOOLEAN
  BY <1>1, <1>2 DEF TypeOK, IndexOK, PassOK
<1> QED BY Zenon, <1>1, <1>3, StillKeeps

\* The next object is visited, or the pass is over.
LEMMA OnwardsIs ==
    ASSUME BoundInv, visit # 0, Onwards
    PROVE  /\ visit' \in 0 .. Len(ifaces) /\ (todo # <<>> => visit' = 0) /\ cur' = -1
           /\ fresh' \subseteq fresh /\ heard' \subseteq heard
           /\ UNCHANGED <<link, used, renames, overtaken, todo>>
<1>1. visit \in 0 .. Len(ifaces) /\ Len(ifaces) \in Nat /\ todo = <<>>
  BY DEF BoundInv, TypeOK, PassOK
<1> QED BY <1>1 DEF Onwards

\* A lookup fails.
LEMMA FailKeeps ==
    ASSUME BoundInv, LookupFails
    PROVE  BoundInv' /\ failed'
<1>1. visit # 0 /\ failed' = TRUE /\ UNCHANGED <<ifaces, member>> /\ Onwards
  BY DEF LookupFails
<1>2. /\ visit' \in 0 .. Len(ifaces) /\ (todo # <<>> => visit' = 0) /\ cur' = -1
      /\ fresh' \subseteq fresh /\ heard' \subseteq heard
      /\ UNCHANGED <<link, used, renames, overtaken, todo>>
  BY Zenon, <1>1, OnwardsIs
<1> QED BY <1>1, <1>2, StillKeeps

\* A rebind takes a membership on the new index and gives one back on the old.
LEMMA MembersAfterIs ==
    ASSUME BoundInv, visit # 0, cur > 0, NEW j \in Indexes, NEW q \in BOOLEAN
    PROVE  /\ MembersAfter \in [Indexes \X BOOLEAN -> Nat]
           /\ MembersAfter[<<j, q>>] >=
                  member[<<j, q>>] + (IF cur = j /\ Here.promiscuous = q THEN 1 ELSE 0)
                                   - (IF Here.index = j /\ Here.promiscuous = q THEN 1 ELSE 0)
<1> DEFINE i == Here.index
           p == Here.promiscuous
           M == [Indexes \X BOOLEAN -> Nat]
<1>1. Here \in nd_iface
  BY DEF BoundInv, TypeOK, Here
<1>2. i \in 0 .. MAXINDEX /\ p \in BOOLEAN
  BY <1>1 DEF nd_iface
<1>3. cur \in Indexes /\ member \in M
  BY IfaceAssumption DEF BoundInv, TypeOK, Indexes
<1>4. MembersAfter = IF i \notin {0, cur}
                     THEN [Joined(cur, p) EXCEPT ![<<i, p>>] = IF @ = 0 THEN 0 ELSE @ - 1]
                     ELSE Joined(cur, p)
  BY Zenon DEF MembersAfter
<1> HIDE DEF i, p
<1>5. /\ Joined(cur, p) \in M
      /\ \A x \in Indexes \X BOOLEAN : Joined(cur, p)[x] = IF x = <<cur, p>> THEN member[x] + 1 ELSE member[x]
  BY <1>2, <1>3 DEF Joined
<1>6. member[<<j, q>>] \in Nat /\ <<j, q>> \in Indexes \X BOOLEAN
  BY <1>3
<1>7. (<<j, q>> = <<cur, p>> <=> cur = j /\ p = q) /\ (<<j, q>> = <<i, p>> <=> i = j /\ p = q)
  OBVIOUS
<1> DEFINE J == Joined(cur, p)
           plus == IF cur = j /\ p = q THEN 1 ELSE 0
           minus == IF i = j /\ p = q THEN 1 ELSE 0
<1>8. J[<<j, q>>] = member[<<j, q>>] + plus
  BY <1>5, <1>6, <1>7
<1>9. J \in M
  BY <1>5
<1> HIDE DEF J
<1>10. CASE i \notin {0, cur}
  <2> DEFINE K == [J EXCEPT ![<<i, p>>] = IF @ = 0 THEN 0 ELSE @ - 1]
  <2>1. <<i, p>> \in Indexes \X BOOLEAN /\ MembersAfter = K
    <3>1. i \in Indexes
      BY <1>2, <1>10, IfaceAssumption DEF Indexes
    <3> QED BY <1>2, <1>4, <1>10, <3>1 DEF J
  <2>2. J[<<i, p>>] \in Nat
    BY <2>1, <1>9
  <2>3. (IF J[<<i, p>>] = 0 THEN 0 ELSE J[<<i, p>>] - 1) \in Nat
    BY <2>2
  <2>4. K \in M
    BY <2>1, <2>3, <1>9
  <2>5. CASE <<j, q>> = <<i, p>>
    <3>1. K[<<j, q>>] = IF J[<<j, q>>] = 0 THEN 0 ELSE J[<<j, q>>] - 1
      BY <2>1, <2>5, <1>9
    <3>2. minus = 1 /\ plus = 0
      BY <2>5, <1>7, <1>10
    <3> HIDE DEF K, plus, minus
    <3> QED BY <2>1, <2>4, <3>1, <3>2, <1>6, <1>8 DEF i, p, plus, minus
  <2>6. CASE <<j, q>> # <<i, p>>
    <3>1. K[<<j, q>>] = J[<<j, q>>]
      BY <2>1, <2>6, <1>6, <1>9
    <3>2. minus = 0 /\ plus \in Nat
      BY <2>6, <1>7
    <3> HIDE DEF K, plus, minus
    <3>3. MembersAfter[<<j, q>>] >= member[<<j, q>>] + plus - minus
      BY <2>1, <3>1, <3>2, <1>6, <1>8
    <3> QED BY Zenon, <2>1, <2>4, <3>3 DEF i, p, plus, minus
  <2> QED BY Zenon, <2>5, <2>6
<1>11. CASE i \in {0, cur}
  <2>1. MembersAfter = J
    BY <1>4, <1>11 DEF J
  <2>2. minus \in Nat /\ plus \in Nat
    OBVIOUS
  <2> HIDE DEF plus, minus
  <2>3. MembersAfter[<<j, q>>] >= member[<<j, q>>] + plus - minus
    BY <2>1, <2>2, <1>6, <1>8
  <2> QED BY Zenon, <2>1, <2>3, <1>9 DEF i, p, plus, minus
<1> QED BY Zenon, <1>10, <1>11

\* An object is visited.
LEMMA VisitKeeps ==
    ASSUME BoundInv, visit # 0, Gone \/ SameIndex \/ Rebind
    PROVE  BoundInv'
<1> DEFINE x == ifaces[visit]
           y == ifaces'[visit]
<1>1. TypeOK /\ PassOK /\ IndexOK /\ HearsOK
  BY DEF BoundInv
<1>2. /\ ifaces' \in Seq(nd_iface) /\ Len(ifaces') = Len(ifaces) /\ visit \in Objects
      /\ \A o \in Objects :
            /\ ifaces'[o].name = ifaces[o].name /\ ifaces'[o].promiscuous = ifaces[o].promiscuous
            /\ o # visit => ifaces'[o] = ifaces[o]
  BY Zenon, <1>1, VisitIs
<1>3. (y.index = x.index /\ member' = member) \/ (Alive(cur) /\ y.index = cur /\ cur > 0 /\ member' = MembersAfter)
  <2>1. \/ Gone /\ y.index = x.index
        \/ SameIndex /\ y.index = x.index
        \/ Rebind /\ Alive(cur) /\ y.index = cur
        \/ Rebind /\ ~Alive(cur) /\ y.index = x.index
    BY Zenon, <1>1, VisitIs DEF Here
  <2> HIDE DEF x, y
  <2> QED BY Zenon, <2>1 DEF Gone, SameIndex, Rebind
<1>4. failed' = failed /\ Onwards
  BY DEF Gone, SameIndex, Rebind
<1>5. /\ visit' \in 0 .. Len(ifaces) /\ (todo # <<>> => visit' = 0) /\ cur' = -1
      /\ fresh' \subseteq fresh /\ heard' \subseteq heard
      /\ UNCHANGED <<link, used, renames, overtaken, todo>>
  BY Zenon, <1>4, OnwardsIs
<1>6. member' \in [Indexes \X BOOLEAN -> Nat]
  <2>1. CASE member' = member
    BY <1>1, <2>1 DEF TypeOK
  <2>2. CASE member' = MembersAfter /\ Alive(cur) /\ cur > 0
    <3>1. cur \in Indexes /\ TRUE \in BOOLEAN
      BY <1>1, <2>2, IfaceAssumption DEF TypeOK, Indexes
    <3> QED BY Zenon, <2>2, <3>1, MembersAfterIs
  <2> QED BY <1>3, <2>1, <2>2
<1>7. TypeOK'
  <2>1. cur' \in -1 .. MAXINDEX
    BY <1>5, IfaceAssumption
  <2> QED BY <1>1, <1>2, <1>4, <1>5, <1>6, <2>1 DEF TypeOK
<1>8. IndexOK'
  <2>1. \A o \in Objects : ifaces'[o].index \in used \cup {0}
    <3> TAKE o \in Objects
    <3>1. CASE o # visit
      BY <1>1, <1>2, <3>1 DEF IndexOK
    <3>2. CASE o = visit
      <4>1. x.index \in used \cup {0} /\ (cur > 0 => cur \in used)
        BY <1>1, <1>2 DEF IndexOK
      <4> HIDE DEF x, y
      <4> QED BY <1>3, <3>2, <4>1 DEF y
    <3> QED BY <3>1, <3>2
  <2> QED BY <1>1, <1>2, <1>5, <2>1 DEF IndexOK, Objects
<1>9. HearsOK'
  <2> SUFFICES ASSUME NEW j \in Indexes, NEW q \in BOOLEAN, Alive(j)
               PROVE  member'[<<j, q>>] >= Cardinality(Having(ifaces', j, q))
    BY <1>5 DEF HearsOK, Alive
  <2>1. Len(ifaces) \in Nat /\ Objects = 1 .. Len(ifaces)
    BY <1>1 DEF TypeOK, Objects
  <2>2. Cardinality(Having(ifaces, j, q)) \in Nat /\ Cardinality(Having(ifaces', j, q)) \in Nat
    BY <1>2, <2>1, HavingFinite
  <2>3. member[<<j, q>>] \in Nat /\ member[<<j, q>>] >= Cardinality(Having(ifaces, j, q))
    BY <1>1 DEF TypeOK, HearsOK
  <2> DEFINE at(l) == IF l[visit].index = j /\ l[visit].promiscuous = q THEN 1 ELSE 0
             a == at(ifaces)
             b == at(ifaces')
             p == x.promiscuous
  <2>4. Cardinality(Having(ifaces', j, q)) = Cardinality(Having(ifaces, j, q)) + b - a
    <3>1. \A o \in 1 .. Len(ifaces) : o # visit => ifaces'[o].index = ifaces[o].index
      BY <1>2, <2>1
    <3> QED BY <1>2, <2>1, <3>1, HavingMoved
  <2>5. a \in {0, 1} /\ b \in {0, 1} /\ y.promiscuous = p
    BY <1>2
  <2>6. CASE y.index = x.index /\ member' = member
    <3>1. a = b
      BY <2>5, <2>6
    <3> HIDE DEF a, b
    <3> QED BY <2>2, <2>3, <2>4, <2>5, <2>6, <3>1
  <2>7. CASE Alive(cur) /\ y.index = cur /\ cur > 0 /\ member' = MembersAfter
    <3>1. MembersAfter[<<j, q>>] >= member[<<j, q>>] + (IF cur = j /\ Here.promiscuous = q THEN 1 ELSE 0)
                                                     - (IF Here.index = j /\ Here.promiscuous = q THEN 1 ELSE 0)
      BY Zenon, <2>7, MembersAfterIs
    <3>2. MembersAfter[<<j, q>>] >= member[<<j, q>>] + b - a
      <4>1. (IF cur = j /\ Here.promiscuous = q THEN 1 ELSE 0) = b
        BY <2>5, <2>7 DEF Here
      <4>2. (IF Here.index = j /\ Here.promiscuous = q THEN 1 ELSE 0) = a
        BY Zenon DEF Here
      <4> HIDE DEF a, b
      <4> QED BY Zenon, <3>1, <4>1, <4>2
    <3>3. MembersAfter[<<j, q>>] \in Nat
      BY Zenon, <1>6, <2>7
    <3> HIDE DEF a, b
    <3> QED BY <2>2, <2>3, <2>4, <2>5, <2>7, <3>2, <3>3
  <2> QED BY Zenon, <1>3, <2>6, <2>7
<1>10. PassOK'
  BY <1>5 DEF PassOK
<1> QED BY <1>7, <1>8, <1>9, <1>10 DEF BoundInv

\* What start-up opens next.
LEMMA HeadIs ==
    ASSUME TypeOK, todo # <<>>
    PROVE  /\ Head(todo).name \in Names /\ Head(todo).promiscuous \in BOOLEAN /\ Head(todo).proxy \in BOOLEAN
           /\ Head(todo) = todo[1] /\ Tail(todo) \in Seq(Opening) /\ Len(Tail(todo)) = Len(todo) - 1
           /\ Len(todo) \in Nat \ {0}
           /\ \A j \in 1 .. Len(todo) - 1 : Tail(todo)[j] = todo[j + 1]
<1>1. todo \in Seq(Opening)
  BY DEF TypeOK
<1>2. Head(todo) \in Opening /\ Head(todo) = todo[1] /\ Tail(todo) \in Seq(Opening) /\ Len(Tail(todo)) = Len(todo) - 1
  BY <1>1
<1>3. Len(todo) \in Nat \ {0} /\ \A j \in 1 .. Len(todo) - 1 : Tail(todo)[j] = todo[j + 1]
  BY <1>1
<1> QED BY <1>2, <1>3 DEF Opening

\* No step of the daemon or the kernel breaks the memberships.
LEMMA BoundNext ==
    ASSUME BoundInv, ~REUSE, [Next]_vars
    PROVE  BoundInv'
<1>1. ASSUME NEW n \in Names, NEW i \in Indexes, NEW l \in LLs, NEW admin \in BOOLEAN, KernelCreate(n, i, l, admin)
      PROVE  BoundInv'
  BY Zenon, <1>1, CreateKeeps
<1>2. ASSUME NEW n \in Names, KernelDelete(n) PROVE BoundInv'
  BY Zenon, <1>2, DeleteKeeps
<1>3. ASSUME NEW n \in Names, NEW m \in Names, KernelRename(n, m) PROVE BoundInv'
  BY Zenon, <1>3, RenameKeeps
<1>4. ASSUME NEW n \in Names, NEW l \in LLs, NEW admin \in BOOLEAN, KernelChange(n, l, admin) PROVE BoundInv'
  BY Zenon, <1>4, ChangeKeeps
<1>5. CASE nd_proxy_startup
  <2> DEFINE h == Head(todo)
  <2>1. /\ todo # <<>> /\ nd_iface_open(h.name, h.promiscuous, h.proxy, FALSE) /\ todo' = Tail(todo)
        /\ UNCHANGED <<link, used, renames, failed, overtaken, visit, cur, fresh, heard>>
    BY Zenon, <1>5 DEF nd_proxy_startup
  <2>2. TypeOK /\ visit = 0
    BY <2>1 DEF BoundInv, PassOK
  <2>3. h.name \in Names /\ h.promiscuous \in BOOLEAN /\ h.proxy \in BOOLEAN /\ todo' \in Seq(Opening)
    BY Zenon, <2>1, <2>2, HeadIs
  <2> HIDE DEF h
  <2> QED BY Zenon, <2>1, <2>2, <2>3, OpenKeeps
<1>6. ASSUME NEW n \in Names, SessionOpen(n) PROVE BoundInv'
  <2>1. /\ visit = 0 /\ todo' = todo /\ nd_iface_open(n, FALSE, FALSE, TRUE)
        /\ UNCHANGED <<link, used, renames, failed, overtaken, visit, cur, fresh, heard>>
    BY <1>6 DEF SessionOpen, Idle
  <2>2. todo' \in Seq(Opening) /\ FALSE \in BOOLEAN /\ TRUE \in BOOLEAN
    BY <2>1 DEF BoundInv, TypeOK
  <2> QED BY Zenon, <2>1, <2>2, OpenKeeps
<1>7. ASSUME NEW k \in 1 .. Len(ifaces), nd_iface_close(k) PROVE BoundInv'
  <2>1. k \in Objects
    BY DEF Objects
  <2> QED BY Zenon, <1>7, <2>1, CloseKeeps
<1>8. CASE nd_iface_rebind_all
  <2>1. CASE StartPass
    BY Zenon, <2>1, StartKeeps
  <2>2. CASE Lookup
    BY Zenon, <2>2, LookupKeeps
  <2>3. CASE Gone \/ SameIndex \/ Rebind
    <3>1. visit # 0
      BY Zenon, <2>3 DEF Gone, SameIndex, Rebind
    <3> QED BY Zenon, <2>3, <3>1, VisitKeeps
  <2> QED BY Zenon, <1>8, <2>1, <2>2, <2>3 DEF nd_iface_rebind_all
<1>9. CASE LookupFails
  BY Zenon, <1>9, FailKeeps
<1>10. CASE UNCHANGED vars
  BY <1>10 DEF BoundInv, TypeOK, PassOK, IndexOK, HearsOK, Alive, Objects, vars
<1> QED BY Zenon, <1>1, <1>2, <1>3, <1>4, <1>5, <1>6, <1>7, <1>8, <1>9, <1>10 DEF Next, Kernel

\* Enough memberships is at least one for each.
LEMMA BoundOK == BoundInv => BoundHears
<1> SUFFICES ASSUME BoundInv, NEW o \in Objects, ifaces[o].up, Alive(ifaces[o].index)
             PROVE  member[<<ifaces[o].index, ifaces[o].promiscuous>>] > 0
  BY DEF BoundHears
<1> DEFINE i == ifaces[o].index
           p == ifaces[o].promiscuous
           H == Having(ifaces, i, p)
<1>1. Len(ifaces) \in Nat /\ ifaces[o] \in nd_iface
  BY DEF BoundInv, TypeOK, Objects
<1>2. i \in Indexes /\ p \in BOOLEAN
  BY <1>1, IfaceAssumption DEF nd_iface, Indexes, Alive
<1>3. o \in H
  BY DEF Having, Objects
<1> HIDE DEF i, p, H
<1>4. IsFiniteSet(H) /\ Cardinality(H) \in Nat
  BY Zenon, <1>1, HavingFinite DEF H
<1>5. Cardinality(H) # 0
  BY <1>3, <1>4, FS_EmptySet
<1>6. member[<<i, p>>] >= Cardinality(H) /\ member[<<i, p>>] \in Nat
  BY <1>2 DEF BoundInv, HearsOK, TypeOK, H, i
<1>7. member[<<i, p>>] > 0
  BY <1>4, <1>5, <1>6
<1> QED BY <1>7 DEF i, p

\* BoundHears for any number of interfaces, objects and passes: as long as the kernel
\* gives no index out twice, an object bound to an index that exists has a membership
\* there, whatever was renamed, deleted and created between two system calls of a pass.
THEOREM BoundAlwaysHears ==
    ASSUME ~REUSE
    PROVE  Spec => []BoundHears
<1>1. BoundInv /\ [Next]_vars => BoundInv'
  BY BoundNext
<1> QED BY <1>1, InitBound, BoundOK, PTL DEF Spec

----------------------------------------------------------------------------
(* Names. *)

\* What is known of interfaces, and of names, before there are objects.
LEMMA InitNames ==
    ASSUME Init
    PROVE  NamesInv
<1>1. ifaces = <<>> /\ visit = 0
  BY DEF Init
<1>2. Objects = {}
  BY <1>1 DEF Objects
<1> QED BY <1>1, <1>2 DEF NamesInv, SettledOK, NamesOK, StartOK, OneEach

\* The name an object has is one of the names.
LEMMA NameIs ==
    ASSUME BoundInv, NEW o \in Objects
    PROVE  ifaces[o].name \in Names
<1>1. ifaces[o] \in nd_iface
  BY DEF BoundInv, TypeOK, Objects
<1> QED BY <1>1 DEF nd_iface

\* The kernel changes and the daemon does not: what is not news stays as it is known.
LEMMA KernelSettled ==
    ASSUME BoundInv, SettledOK, UNCHANGED <<ifaces, visit, cur, heard>>,
           \A n \in Names : link'[n].index \in {0, link[n].index} \/ link'[n].index \in fresh' \ heard,
           fresh \subseteq fresh'
    PROVE  SettledOK'
<1>2. ASSUME NEW o \in Objects, link'[ifaces[o].name].index # 0,
             \/ link'[ifaces[o].name].index \notin fresh'
             \/ link'[ifaces[o].name].index \in heard
      PROVE  /\ link'[ifaces[o].name].index = link[ifaces[o].name].index
             /\ link[ifaces[o].name].index \notin fresh \/ link[ifaces[o].name].index \in heard
  <2>1. ifaces[o].name \in Names
    BY Zenon, NameIs
  <2> QED BY <1>2, <2>1
<1>3. ASSUME NEW o \in Objects, link'[ifaces[o].name].index # 0,
             \/ link'[ifaces[o].name].index \notin fresh'
             \/ link'[ifaces[o].name].index \in heard /\ Visited(o)
      PROVE  ifaces[o].up /\ ifaces[o].index = link'[ifaces[o].name].index
  <2>1. /\ link'[ifaces[o].name].index = link[ifaces[o].name].index
        /\ link[ifaces[o].name].index \notin fresh \/ (link[ifaces[o].name].index \in heard /\ Visited(o))
    BY <1>2, <1>3
  <2> QED BY Zenon, <1>3, <2>1 DEF SettledOK
<1>4. ASSUME visit # 0, cur # -1, link'[ifaces[visit].name].index # 0,
             \/ link'[ifaces[visit].name].index \notin fresh'
             \/ link'[ifaces[visit].name].index \in heard
      PROVE  cur = link'[ifaces[visit].name].index
  <2>1. visit \in Objects
    BY <1>4 DEF BoundInv, TypeOK, Objects
  <2>2. /\ link'[ifaces[visit].name].index = link[ifaces[visit].name].index
        /\ link[ifaces[visit].name].index \notin fresh \/ link[ifaces[visit].name].index \in heard
    BY Zenon, <1>2, <1>4, <2>1
  <2> QED BY Zenon, <1>4, <2>2 DEF SettledOK
<1>5. \A o : Visited(o)' <=> Visited(o)
  BY DEF Visited
<1> QED BY <1>3, <1>4, <1>5 DEF SettledOK, Objects

\* The kernel changes and the daemon does not: an interface that comes under a name that
\* start-up is to open, and that a bound object has, overtakes it.
LEMMA KernelNames ==
    ASSUME BoundInv, NamesOK, UNCHANGED <<ifaces, todo>>, overtaken \subseteq overtaken',
           \A n \in Names : link'[n].index \in {0, link[n].index} \/ ~Overtakes(n) \/ n \in overtaken'
    PROVE  NamesOK'
<1>1. OneEach'
  BY DEF NamesOK, OneEach, Objects
<1>2. ASSUME NEW j \in 1 .. Len(todo), NEW o \in Objects, NEW n, n = ifaces[o].name, todo[j].name = n,
             ifaces[o].up, link'[n].index # 0
      PROVE  ifaces[o].index = link'[n].index \/ n \in overtaken'
  <2>1. n \in Names
    BY Zenon, <1>2, NameIs
  <2>2. Overtakes(n)
    BY Zenon, <1>2 DEF Overtakes, Objects
  <2>3. n \in overtaken' \/ (link'[n].index = link[n].index /\ link[n].index # 0)
    BY <1>2, <2>1, <2>2
  <2>4. link[n].index # 0 => ifaces[o].index = link[n].index \/ n \in overtaken
    BY Zenon, <1>2 DEF NamesOK, StartOK, Present
  <2> QED BY <2>3, <2>4
<1>3. StartOK'
  BY <1>2 DEF StartOK, Present, Objects
<1> QED BY <1>1, <1>3 DEF NamesOK

\* What start-up has left to open, it had left before.
LEMMA LeftIs ==
    ASSUME TypeOK, todo' = todo \/ (todo # <<>> /\ todo' = Tail(todo)), NEW j \in 1 .. Len(todo')
    PROVE  \E k \in 1 .. Len(todo) : todo'[j] = todo[k]
<1>1. CASE todo' = todo
  BY Zenon, <1>1
<1>2. CASE todo # <<>> /\ todo' = Tail(todo)
  <2>1. /\ Len(todo') = Len(todo) - 1 /\ Len(todo) \in Nat \ {0}
        /\ \A k \in 1 .. Len(todo) - 1 : todo'[k] = todo[k + 1]
    BY Zenon, <1>2, HeadIs
  <2>2. j + 1 \in 1 .. Len(todo) /\ todo'[j] = todo[j + 1]
    BY <2>1
  <2> QED BY Zenon, <2>2
<1> QED BY Zenon, <1>1, <1>2

\* A reference is added or given back: no object comes, goes or changes its name.
LEMMA SameSettled ==
    ASSUME BoundInv, SettledOK, NamesOK, Same(ifaces, ifaces'), visit = 0,
           UNCHANGED <<link, overtaken, visit, cur, fresh, heard>>,
           todo' = todo \/ (todo # <<>> /\ todo' = Tail(todo))
    PROVE  SettledOK' /\ NamesOK'
<1>1. /\ Len(ifaces') = Len(ifaces) /\ Objects' = Objects
      /\ \A o \in Objects : /\ ifaces'[o].name = ifaces[o].name /\ ifaces'[o].index = ifaces[o].index
                            /\ ifaces'[o].up = ifaces[o].up
  BY DEF Same, Objects
<1>2. SettledOK'
  BY <1>1 DEF SettledOK, Visited
<1>3. OneEach'
  BY <1>1 DEF NamesOK, OneEach
<1>4. ASSUME NEW j \in 1 .. Len(todo'), NEW o \in Objects, todo'[j].name = ifaces[o].name, ifaces[o].up,
             Present(ifaces[o].name)
      PROVE  ifaces[o].index = link[ifaces[o].name].index \/ ifaces[o].name \in overtaken
  <2>1. PICK k \in 1 .. Len(todo) : todo'[j] = todo[k]
    BY Zenon, LeftIs DEF BoundInv
  <2> QED BY Zenon, <1>4, <2>1 DEF NamesOK, StartOK
<1>5. StartOK'
  <2> SUFFICES ASSUME NEW j \in 1 .. Len(todo'), NEW o \in Objects', todo'[j].name = ifaces'[o].name, ifaces'[o].up,
                      link'[ifaces'[o].name].index # 0
               PROVE  ifaces'[o].index = link'[ifaces'[o].name].index \/ ifaces'[o].name \in overtaken'
    BY Zenon DEF StartOK, Present
  <2>1. o \in Objects /\ ifaces'[o].name = ifaces[o].name /\ ifaces'[o].index = ifaces[o].index /\ ifaces[o].up
    BY Zenon, <1>1
  <2>2. link' = link /\ overtaken' = overtaken /\ Present(ifaces[o].name)
    BY <2>1 DEF Present
  <2> QED BY Zenon, <1>4, <2>1, <2>2
<1> QED BY <1>2, <1>3, <1>5 DEF NamesOK

\* An object is put in front, for a name that had none or is overtaken.
LEMMA FrontedSettled ==
    ASSUME BoundInv, SettledOK, NamesOK, visit = 0, NEW n \in Names, NEW x \in nd_iface,
           x.name = n, x.index = link[n].index, x.up = Present(n), ifaces' = <<x>> \o ifaces,
           \A o \in Objects : ifaces[o].name = n => n \in overtaken,
           UNCHANGED <<link, overtaken, visit, cur, fresh, heard>>,
           todo' = todo \/ (todo # <<>> /\ todo' = Tail(todo))
    PROVE  SettledOK' /\ NamesOK'
<1>1. ifaces \in Seq(nd_iface) /\ Len(ifaces) \in Nat
  BY DEF BoundInv, TypeOK
<1>2. /\ Len(ifaces') = Len(ifaces) + 1 /\ ifaces'[1] = x
      /\ \A j \in 1 .. Len(ifaces) : ifaces'[j + 1] = ifaces[j]
  BY <1>1, PrependedIs
<1>3. \A o \in Objects' : o = 1 \/ (o \in Int /\ o - 1 \in Objects /\ ifaces'[o] = ifaces[o - 1])
  <2> SUFFICES ASSUME NEW o \in 1 .. Len(ifaces'), o # 1 PROVE o - 1 \in 1 .. Len(ifaces) /\ ifaces'[o] = ifaces[o - 1]
    BY DEF Objects
  <2>1. o - 1 \in 1 .. Len(ifaces) /\ (o - 1) + 1 = o
    BY <1>1, <1>2
  <2> QED BY <1>2, <2>1
<1>4. ASSUME NEW o \in Objects', NEW k \in Objects', ifaces'[o].name = ifaces'[k].name
      PROVE  o = k \/ ifaces'[o].name \in overtaken
  <2>1. CASE o = 1 /\ k = 1
    BY <2>1
  <2>2. CASE o = 1 /\ k # 1
    <3>1. PICK k1 \in Objects : ifaces'[k] = ifaces[k1]
      BY Zenon, <1>3, <2>2
    <3> QED BY Zenon, <1>2, <1>4, <2>2, <3>1
  <2>3. CASE o # 1 /\ k = 1
    <3>1. PICK o1 \in Objects : ifaces'[o] = ifaces[o1]
      BY Zenon, <1>3, <2>3
    <3> QED BY Zenon, <1>2, <1>4, <2>3, <3>1
  <2>4. CASE o # 1 /\ k # 1
    <3> DEFINE o1 == o - 1
               k1 == k - 1
    <3>1. o1 \in Objects /\ k1 \in Objects /\ ifaces'[o] = ifaces[o1] /\ ifaces'[k] = ifaces[k1] /\ o \in Int /\ k \in Int
      BY Zenon, <1>3, <2>4
    <3> HIDE DEF o1, k1
    <3>2. ifaces[o1].name = ifaces[k1].name
      BY Zenon, <1>4, <3>1
    <3>3. o1 = k1 \/ ifaces[o1].name \in overtaken
      BY Zenon, <3>1, <3>2 DEF NamesOK, OneEach
    <3>4. o1 = k1 => o = k
      BY <3>1 DEF o1, k1
    <3> QED BY Zenon, <3>1, <3>3, <3>4
  <2> QED BY Zenon, <2>1, <2>2, <2>3, <2>4
<1>5. NamesOK'
  <2>1. ASSUME NEW j \in 1 .. Len(todo'), NEW o \in Objects', todo'[j].name = ifaces'[o].name, ifaces'[o].up,
               Present(ifaces'[o].name)
        PROVE  ifaces'[o].index = link[ifaces'[o].name].index \/ ifaces'[o].name \in overtaken
    <3>1. PICK m \in 1 .. Len(todo) : todo'[j] = todo[m]
      BY Zenon, LeftIs DEF BoundInv
    <3>2. ifaces'[o] = x \/ \E k \in Objects : ifaces'[o] = ifaces[k]
      BY Zenon, <1>2, <1>3
    <3> QED BY Zenon, <2>1, <3>1, <3>2 DEF NamesOK, StartOK
  <2>2. StartOK'
    BY <2>1 DEF StartOK, Present
  <2>3. OneEach'
    BY <1>4 DEF OneEach
  <2> QED BY Zenon, <2>2, <2>3 DEF NamesOK
<1>6. SettledOK'
  <2>1. ASSUME NEW o \in Objects', link[ifaces'[o].name].index # 0, link[ifaces'[o].name].index \notin fresh
        PROVE  ifaces'[o].up /\ ifaces'[o].index = link[ifaces'[o].name].index
    <3>1. CASE o = 1
      BY Zenon, <1>2, <2>1, <3>1 DEF Present
    <3>2. CASE o # 1
      <4>1. PICK k \in Objects : ifaces'[o] = ifaces[k]
        BY Zenon, <1>3, <3>2
      <4> QED BY Zenon, <2>1, <4>1 DEF SettledOK
    <3> QED BY Zenon, <3>1, <3>2
  <2>2. link' = link /\ fresh' = fresh /\ visit' = 0 /\ ~Visited(0)
    BY DEF Visited
  <2> QED BY Zenon, <2>1, <2>2 DEF SettledOK, Visited
<1> QED BY <1>5, <1>6

\* An object goes, with its name.
LEMMA WithoutSettled ==
    ASSUME BoundInv, SettledOK, NamesOK, visit = 0, NEW k \in Objects, ifaces' = Without(ifaces, k),
           UNCHANGED <<link, overtaken, todo, visit, cur, fresh, heard>>
    PROVE  SettledOK' /\ NamesOK'
<1>1. ifaces \in Seq(nd_iface) /\ Len(ifaces) \in Nat /\ k \in 1 .. Len(ifaces) /\ k \in Int
  BY DEF BoundInv, TypeOK, Objects
<1>2. /\ Len(ifaces') = Len(ifaces) - 1
      /\ \A j \in 1 .. Len(ifaces) - 1 : ifaces'[j] = IF j < k THEN ifaces[j] ELSE ifaces[j + 1]
  BY <1>1, WithoutIs
<1> DEFINE was(j) == IF j < k THEN j ELSE j + 1
<1>3. \A o \in Objects' : o \in Int /\ was(o) \in Objects /\ ifaces'[o] = ifaces[was(o)]
  BY <1>1, <1>2 DEF Objects
<1>4. \A i, j \in Int : was(i) = was(j) => i = j
  BY <1>1
<1> HIDE DEF was
<1>5. ASSUME NEW o \in Objects', NEW p \in Objects', ifaces'[o].name = ifaces'[p].name
      PROVE  o = p \/ ifaces'[o].name \in overtaken
  <2>1. /\ was(o) \in Objects /\ ifaces'[o] = ifaces[was(o)] /\ o \in Int
        /\ was(p) \in Objects /\ ifaces'[p] = ifaces[was(p)] /\ p \in Int
    BY Zenon, <1>3
  <2>2. was(o) = was(p) \/ ifaces'[o].name \in overtaken
    BY Zenon, <1>5, <2>1 DEF NamesOK, OneEach
  <2> QED BY Zenon, <1>4, <2>1, <2>2
<1>6. NamesOK'
  <2>1. ASSUME NEW j \in 1 .. Len(todo), NEW o \in Objects', todo[j].name = ifaces'[o].name, ifaces'[o].up,
               Present(ifaces'[o].name)
        PROVE  ifaces'[o].index = link[ifaces'[o].name].index \/ ifaces'[o].name \in overtaken
    <3>1. was(o) \in Objects /\ ifaces'[o] = ifaces[was(o)]
      BY Zenon, <1>3
    <3> QED BY Zenon, <2>1, <3>1 DEF NamesOK, StartOK
  <2>2. StartOK'
    BY <2>1 DEF StartOK, Present
  <2>3. OneEach'
    BY <1>5 DEF OneEach
  <2> QED BY Zenon, <2>2, <2>3 DEF NamesOK
<1>7. SettledOK'
  <2>1. ASSUME NEW o \in Objects', link[ifaces'[o].name].index # 0, link[ifaces'[o].name].index \notin fresh
        PROVE  ifaces'[o].up /\ ifaces'[o].index = link[ifaces'[o].name].index
    BY Zenon, <1>3, <2>1 DEF SettledOK
  <2>2. link' = link /\ fresh' = fresh /\ visit' = 0
    OBVIOUS
  <2> QED BY Zenon, <2>1, <2>2 DEF SettledOK, Visited
<1> QED BY <1>6, <1>7

\* A pass begins: no object is visited, and nothing is looked up yet.
LEMMA StartSettled ==
    ASSUME BoundInv, SettledOK, NamesOK, StartPass
    PROVE  SettledOK' /\ NamesOK'
<1>1. /\ visit' = 1 /\ cur' = -1 /\ fresh' = fresh
      /\ link' = link /\ ifaces' = ifaces /\ todo' = todo /\ overtaken' = overtaken /\ Objects' = Objects
  BY DEF StartPass, Objects
<1>2. NamesOK'
  BY <1>1 DEF NamesOK, StartOK, OneEach, Present
<1>3. \A o \in Objects : ~Visited(o)'
  BY <1>1 DEF Visited, Objects
<1> QED BY <1>1, <1>2, <1>3 DEF SettledOK

\* A name is looked up.
LEMMA LookupSettled ==
    ASSUME BoundInv, SettledOK, NamesOK, Lookup
    PROVE  SettledOK' /\ NamesOK'
<1>1. /\ cur' = link[ifaces[visit].name].index /\ visit' = visit /\ fresh' = fresh /\ heard' = heard
      /\ link' = link /\ ifaces' = ifaces /\ todo' = todo /\ overtaken' = overtaken /\ Objects' = Objects
  BY DEF Lookup, Objects
<1>2. NamesOK'
  BY <1>1 DEF NamesOK, StartOK, OneEach, Present
<1>3. \A o : Visited(o)' <=> Visited(o)
  BY <1>1 DEF Visited
<1> QED BY <1>1, <1>2, <1>3 DEF SettledOK

\* An object is visited: if its interface exists, and is not news that came during the
\* pass, the object is bound to it afterwards.
LEMMA VisitSettled ==
    ASSUME BoundInv, SettledOK, NamesOK, visit # 0, Gone \/ SameIndex \/ Rebind
    PROVE  SettledOK' /\ NamesOK'
<1> DEFINE x == ifaces[visit]
           y == ifaces'[visit]
           i == link[x.name].index
<1>1. TypeOK
  BY DEF BoundInv
<1>2. /\ Len(ifaces') = Len(ifaces) /\ visit \in Objects
      /\ \A o \in Objects : ifaces'[o].name = ifaces[o].name /\ (o # visit => ifaces'[o] = ifaces[o])
  BY Zenon, <1>1, VisitIs
<1>3. Objects' = Objects
  BY <1>2 DEF Objects
<1>4. Onwards /\ cur # -1
  BY DEF Gone, SameIndex, Rebind
<1>5. UNCHANGED <<link, overtaken, todo>> /\ cur' = -1
  BY <1>4 DEF Onwards
<1>6. NamesOK'
  <2>1. OneEach'
    BY <1>2, <1>3, <1>5 DEF NamesOK, OneEach
  <2>2. Len(todo') = 0
    BY <1>5 DEF BoundInv, PassOK
  <2>3. StartOK'
    BY <2>2 DEF StartOK
  <2> QED BY Zenon, <2>1, <2>3 DEF NamesOK
<1>7. ASSUME i # 0, i \notin fresh \/ i \in heard
      PROVE  y.up /\ y.index = i
  <2>1. cur = i
    BY Zenon, <1>4, <1>7 DEF SettledOK
  <2>2. x.name \in Names
    BY Zenon, <1>2, NameIs
  <2>3. Alive(cur)
    BY Zenon, <1>7, <2>1, <2>2 DEF Alive
  <2>4. \/ Gone
        \/ SameIndex /\ y.index = x.index /\ y.up = x.up
        \/ Rebind /\ Alive(cur) /\ y.index = cur /\ y.up
        \/ Rebind /\ ~Alive(cur)
    BY Zenon, <1>1, VisitIs DEF Here
  <2> HIDE DEF x, y, i
  <2>5. ~Gone
    BY Zenon, <1>7, <2>1 DEF Gone
  <2>6. SameIndex => cur = x.index /\ x.up
    BY Zenon DEF SameIndex, Here, x
  <2> QED BY Zenon, <2>1, <2>3, <2>4, <2>5, <2>6
<1>8. ASSUME NEW o \in Objects, link[ifaces[o].name].index # 0,
             \/ link[ifaces[o].name].index \notin fresh'
             \/ link[ifaces[o].name].index \in heard' /\ Visited(o)'
      PROVE  \/ link[ifaces[o].name].index \notin fresh
             \/ link[ifaces[o].name].index \in heard /\ (o = visit \/ Visited(o))
  <2>1. visit \in 1 .. Len(ifaces) /\ o \in 1 .. Len(ifaces) /\ Len(ifaces) \in Nat
    BY <1>1, <1>2 DEF TypeOK, Objects
  <2>2. CASE visit < Len(ifaces)
    <3>1. visit' = visit + 1 /\ fresh' = fresh /\ heard' = heard
      BY <1>4, <2>2 DEF Onwards
    <3>2. Visited(o)' => o = visit \/ Visited(o)
      BY <2>1, <3>1 DEF Visited
    <3> QED BY Zenon, <1>8, <3>1, <3>2
  <2>3. CASE ~(visit < Len(ifaces))
    <3>1. visit' = 0 /\ fresh' = fresh \ heard
      BY <1>4, <2>3 DEF Onwards
    <3>2. ~Visited(o)'
      BY <3>1 DEF Visited
    <3>3. o = visit \/ Visited(o)
      BY <2>1, <2>3 DEF Visited
    <3> QED BY Zenon, <1>8, <3>1, <3>2, <3>3
  <2> QED BY Zenon, <2>2, <2>3
<1>9. ASSUME NEW o \in Objects, link[ifaces[o].name].index # 0,
             \/ link[ifaces[o].name].index \notin fresh'
             \/ link[ifaces[o].name].index \in heard' /\ Visited(o)'
      PROVE  ifaces'[o].up /\ ifaces'[o].index = link[ifaces[o].name].index
  <2>1. \/ link[ifaces[o].name].index \notin fresh
        \/ link[ifaces[o].name].index \in heard /\ (o = visit \/ Visited(o))
    BY Zenon, <1>8, <1>9
  <2>2. CASE o = visit
    BY Zenon, <1>7, <1>9, <2>1, <2>2
  <2>3. CASE o # visit
    <3>1. ifaces'[o] = ifaces[o]
      BY Zenon, <1>2, <2>3
    <3> QED BY Zenon, <1>9, <2>1, <2>3, <3>1 DEF SettledOK
  <2> QED BY Zenon, <2>2, <2>3
<1>10. SettledOK'
  <2>1. /\ link' = link /\ Objects' = Objects /\ cur' = -1
        /\ \A o \in Objects : ifaces'[o].name = ifaces[o].name
    BY <1>2, <1>3, <1>5
  <2>2. \A o \in Objects' :
            LET j == link'[ifaces'[o].name].index
            IN  j # 0 /\ (j \notin fresh' \/ (j \in heard' /\ Visited(o)')) => ifaces'[o].up /\ ifaces'[o].index = j
    BY Zenon, <1>9, <2>1
  <2> QED BY Zenon, <2>1, <2>2 DEF SettledOK
<1> QED BY <1>6, <1>10

\* Start-up opens the next interface.
LEMMA StartupSettled ==
    ASSUME BoundInv, SettledOK, NamesOK, nd_proxy_startup
    PROVE  SettledOK' /\ NamesOK'
<1> DEFINE h == Head(todo)
<1>1. /\ todo # <<>> /\ nd_iface_open(h.name, h.promiscuous, h.proxy, FALSE) /\ todo' = Tail(todo)
      /\ UNCHANGED <<link, used, renames, failed, overtaken, visit, cur, fresh, heard>>
  BY Zenon DEF nd_proxy_startup
<1>2. TypeOK /\ visit = 0
  BY <1>1 DEF BoundInv, PassOK
<1>3. h.name \in Names /\ h.promiscuous \in BOOLEAN /\ h.proxy \in BOOLEAN /\ FALSE \in BOOLEAN
  BY Zenon, <1>1, <1>2, HeadIs
<1>4. 1 \in 1 .. Len(todo) /\ todo[1] = h
  BY <1>1, <1>2, HeadIs
<1> HIDE DEF h
<1>5. (Same(ifaces, ifaces') /\ UNCHANGED member) \/ Fronted(h.name, h.promiscuous)
  BY Zenon, <1>1, <1>2, <1>3, OpenIs
<1>6. CASE Same(ifaces, ifaces')
  BY Zenon, <1>1, <1>2, <1>6, SameSettled
<1>7. CASE Fronted(h.name, h.promiscuous)
  <2>1. PICK x \in nd_iface : /\ x.name = h.name /\ x.index = link[h.name].index /\ x.up = Present(h.name)
                              /\ ifaces' = <<x>> \o ifaces
    BY Zenon, <1>7 DEF Fronted
  <2>2. ASSUME NEW o \in Objects, ifaces[o].name = h.name PROVE h.name \in overtaken
    <3>1. Present(h.name) /\ ifaces[o].up /\ ifaces[o].index # link[h.name].index
      BY Zenon, <1>7, <2>2 DEF Fronted
    <3> QED BY Zenon, <1>4, <2>2, <3>1 DEF NamesOK, StartOK
  <2> QED BY Zenon, <1>1, <1>2, <1>3, <2>1, <2>2, FrontedSettled
<1> QED BY Zenon, <1>5, <1>6, <1>7

\* A session opens an interface that is not news: an object of its name would be bound
\* to it, and is shared.
LEMMA SessionSettled ==
    ASSUME BoundInv, SettledOK, NamesOK, NEW n \in Names, SessionOpen(n)
    PROVE  SettledOK' /\ NamesOK'
<1>1. /\ todo = <<>> /\ visit = 0 /\ Present(n) /\ link[n].index \notin fresh /\ nd_iface_open(n, FALSE, FALSE, TRUE)
      /\ UNCHANGED <<link, used, renames, failed, overtaken, todo, visit, cur, fresh, heard>>
  BY DEF SessionOpen, Idle
<1>2. TypeOK
  BY DEF BoundInv
<1>3. (Same(ifaces, ifaces') /\ UNCHANGED member) \/ Fronted(n, FALSE)
  BY Zenon, <1>1, <1>2, OpenIs
<1>4. CASE Same(ifaces, ifaces')
  BY Zenon, <1>1, <1>4, SameSettled
<1>5. CASE Fronted(n, FALSE)
  <2>1. PICK x \in nd_iface : /\ x.name = n /\ x.index = link[n].index /\ x.up = Present(n)
                              /\ ifaces' = <<x>> \o ifaces
    BY Zenon, <1>5 DEF Fronted
  <2>2. ASSUME NEW o \in Objects PROVE ifaces[o].name # n
    <3>1. SUFFICES ASSUME ifaces[o].name = n PROVE FALSE
      OBVIOUS
    <3>2. ifaces[o].up /\ ifaces[o].index = link[n].index
      BY Zenon, <1>1, <3>1 DEF SettledOK, Present
    <3> QED BY Zenon, <1>1, <1>5, <3>2 DEF Fronted
  <2> QED BY Zenon, <1>1, <2>1, <2>2, FrontedSettled
<1> QED BY Zenon, <1>3, <1>4, <1>5

\* A session gives its reference back.
LEMMA CloseSettled ==
    ASSUME BoundInv, SettledOK, NamesOK, NEW k \in Objects, nd_iface_close(k)
    PROVE  SettledOK' /\ NamesOK'
<1>1. /\ visit = 0
      /\ Same(ifaces, ifaces') \/ ifaces' = Without(ifaces, k)
      /\ UNCHANGED <<link, used, renames, failed, overtaken, todo, visit, cur, fresh, heard>>
  BY Zenon, CloseKeeps
<1>2. CASE Same(ifaces, ifaces')
  BY Zenon, <1>1, <1>2, SameSettled
<1>3. CASE ifaces' = Without(ifaces, k)
  BY Zenon, <1>1, <1>3, WithoutSettled
<1> QED BY Zenon, <1>1, <1>2, <1>3

\* A step that is neither a rename nor a failed lookup gives no name a second object.
LEMMA NamesNext ==
    ASSUME BoundInv, NamesInv, ~REUSE, [Next]_vars
    PROVE  NamesInv'
<1>1. SUFFICES ASSUME renames' = 0, ~failed' PROVE SettledOK' /\ NamesOK'
  BY Zenon DEF NamesInv
<1> DEFINE Kept == SettledOK' /\ NamesOK'
           Good == SettledOK /\ NamesOK
<1>2. ASSUME UNCHANGED <<renames, failed>> PROVE Good
  BY <1>1, <1>2 DEF NamesInv
<1> HIDE DEF Kept, Good
<1>3. ASSUME NEW n \in Names, NEW i \in Indexes, NEW l \in LLs, NEW admin \in BOOLEAN, KernelCreate(n, i, l, admin)
      PROVE  Kept
  <2>1. i \notin used /\ link'[n].index = i /\ \A m \in Names : m # n => link'[m] = link[m]
    BY <1>3, CreateKeeps
  <2>2. UNCHANGED <<renames, failed, ifaces, todo, visit, cur, heard>> /\ fresh' = fresh \cup {i}
    BY <1>3 DEF KernelCreate
  <2>3. heard \subseteq used
    BY DEF BoundInv, IndexOK
  <2>4. \A m \in Names : link'[m].index \in {0, link[m].index} \/ link'[m].index \in fresh' \ heard
    BY <2>1, <2>2, <2>3
  <2>5. fresh \subseteq fresh'
    BY <2>2
  <2>6. overtaken \subseteq overtaken' /\ (~Overtakes(n) \/ n \in overtaken')
    BY <1>3 DEF KernelCreate
  <2>7. \A m \in Names : link'[m].index \in {0, link[m].index} \/ ~Overtakes(m) \/ m \in overtaken'
    BY <2>1, <2>6
  <2>8. SettledOK'
    BY Zenon, <1>2, <2>2, <2>4, <2>5, KernelSettled DEF Good
  <2>9. NamesOK'
    BY Zenon, <1>2, <2>2, <2>6, <2>7, KernelNames DEF Good
  <2> QED BY Zenon, <2>8, <2>9 DEF Kept
<1>4. ASSUME NEW n \in Names, KernelDelete(n) PROVE Kept
  <2>1. link'[n].index = 0 /\ \A m \in Names : m # n => link'[m] = link[m]
    BY Zenon, <1>4, DeleteKeeps
  <2>2. /\ UNCHANGED <<renames, failed, ifaces, todo, visit, cur, heard>> /\ fresh \subseteq fresh'
        /\ overtaken \subseteq overtaken'
    BY <1>4 DEF KernelDelete
  <2>3. \A m \in Names : link'[m].index \in {0, link[m].index} \/ link'[m].index \in fresh' \ heard
    BY <2>1
  <2>4. SettledOK'
    BY Zenon, <1>2, <2>2, <2>3, KernelSettled DEF Good
  <2>5. \A m \in Names : link'[m].index \in {0, link[m].index} \/ ~Overtakes(m) \/ m \in overtaken'
    BY <2>1
  <2>6. NamesOK'
    BY Zenon, <1>2, <2>2, <2>5, KernelNames DEF Good
  <2> QED BY Zenon, <2>4, <2>6 DEF Kept
<1>5. ASSUME NEW n \in Names, NEW m \in Names, KernelRename(n, m) PROVE FALSE
  BY Zenon, <1>1, <1>5, RenameKeeps
<1>6. ASSUME NEW n \in Names, NEW l \in LLs, NEW admin \in BOOLEAN, KernelChange(n, l, admin) PROVE Kept
  <2>1. \A m \in Names : link'[m].index = link[m].index
    BY Zenon, <1>6, ChangeKeeps
  <2>2. /\ UNCHANGED <<renames, failed, ifaces, todo, visit, cur, heard>> /\ fresh \subseteq fresh'
        /\ overtaken \subseteq overtaken'
    BY <1>6 DEF KernelChange
  <2>3. \A m \in Names : link'[m].index \in {0, link[m].index} \/ link'[m].index \in fresh' \ heard
    BY <2>1
  <2>4. SettledOK'
    BY Zenon, <1>2, <2>2, <2>3, KernelSettled DEF Good
  <2>5. \A m \in Names : link'[m].index \in {0, link[m].index} \/ ~Overtakes(m) \/ m \in overtaken'
    BY <2>1
  <2>6. NamesOK'
    BY Zenon, <1>2, <2>2, <2>5, KernelNames DEF Good
  <2> QED BY Zenon, <2>4, <2>6 DEF Kept
<1>7. CASE nd_proxy_startup
  <2>1. UNCHANGED <<renames, failed>>
    BY <1>7 DEF nd_proxy_startup
  <2> QED BY Zenon, <1>2, <1>7, <2>1, StartupSettled DEF Kept, Good
<1>8. ASSUME NEW n \in Names, SessionOpen(n) PROVE Kept
  <2>1. UNCHANGED <<renames, failed>>
    BY <1>8 DEF SessionOpen
  <2> QED BY Zenon, <1>2, <1>8, <2>1, SessionSettled DEF Kept, Good
<1>9. ASSUME NEW k \in 1 .. Len(ifaces), nd_iface_close(k) PROVE Kept
  <2>1. UNCHANGED <<renames, failed>> /\ k \in Objects
    BY <1>9 DEF nd_iface_close, Objects
  <2> QED BY Zenon, <1>2, <1>9, <2>1, CloseSettled DEF Kept, Good
<1>10. CASE nd_iface_rebind_all
  <2>1. CASE StartPass
    <3>1. UNCHANGED <<renames, failed>>
      BY <2>1 DEF StartPass
    <3> QED BY Zenon, <1>2, <2>1, <3>1, StartSettled DEF Kept, Good
  <2>2. CASE Lookup
    <3>1. UNCHANGED <<renames, failed>>
      BY <2>2 DEF Lookup
    <3> QED BY Zenon, <1>2, <2>2, <3>1, LookupSettled DEF Kept, Good
  <2>3. CASE Gone \/ SameIndex \/ Rebind
    <3>1. visit # 0 /\ UNCHANGED <<renames, failed>>
      BY <2>3 DEF Gone, SameIndex, Rebind, Onwards
    <3> QED BY Zenon, <1>2, <2>3, <3>1, VisitSettled DEF Kept, Good
  <2> QED BY Zenon, <1>10, <2>1, <2>2, <2>3 DEF nd_iface_rebind_all
<1>11. CASE LookupFails
  BY Zenon, <1>1, <1>11, FailKeeps
<1>12. CASE UNCHANGED vars
  <2>1. UNCHANGED <<renames, failed>>
    BY <1>12 DEF vars
  <2>2. SettledOK /\ NamesOK
    BY Zenon, <1>2, <2>1 DEF Good
  <2> QED BY <1>12, <2>2 DEF SettledOK, NamesOK, StartOK, OneEach, Present, Visited, Objects, vars, Kept
<1> QED BY Zenon, <1>3, <1>4, <1>5, <1>6, <1>7, <1>8, <1>9, <1>10, <1>11, <1>12 DEF Next, Kernel, Kept

\* OneObjectPerName for any number of interfaces, sessions and passes and any
\* configuration, names opened more than once included, when the kernel gives no index
\* out twice: as long as nothing was renamed and no lookup has failed, nd_iface_open never
\* makes a second object for a name, whatever the kernel did between the passes and
\* during them, but for a name created anew between two openings of it by start-up.
THEOREM OneObjectStands ==
    ASSUME ~REUSE
    PROVE  Spec => []OneObjectPerName
<1>1. Init => BoundInv /\ NamesInv
  BY InitBound, InitNames
<1>2. BoundInv /\ NamesInv /\ [Next]_vars => BoundInv' /\ NamesInv'
  BY Zenon, BoundNext, NamesNext
<1>3. NamesInv => OneObjectPerName
  BY DEF NamesInv, NamesOK, OneEach, OneObjectPerName
<1> QED BY <1>1, <1>2, <1>3, PTL DEF Spec

=============================================================================
