----------------------------- MODULE ConfProofs -----------------------------
(***************************************************************************)
(* That the parser of conf.c accepts the well-formed files and loads what  *)
(* they say, for every vocabulary and files of every length.               *)
(*                                                                         *)
(* The properties look at a file as a whole, the parser at one item and a  *)
(* scope.  The invariant therefore says which block of the file the scope  *)
(* stands for: the proxy or rule that began last is the one that is open.  *)
(***************************************************************************)
EXTENDS Conf, FiniteSetTheorems, TLAPS

\* The block that the i-th item begins has not ended.
Open(i) == \A k \in i + 1 .. Len(text) + 1 : Depth(k) > Depth(i)

\* The last item of a block with the given key.
LastIn(i, key) == text[Latest(Within(i, key))]

\* The block is the last of its kind.
Newest(i, key) == \A j \in At(key) : j <= i

Level == IF scope = "DEFAULT" THEN 0 ELSE IF scope = "PROXY" THEN 1 ELSE 2

\* The scope stands for the blocks that are open: a proxy and a rule at most, each the
\* last of its kind.  Every rule is in a proxy.
Nested ==
    /\ scope \in {"DEFAULT", "PROXY", "RULE"}
    /\ Depth(Len(text) + 1) = Level
    /\ \A i \in At("proxy") : Open(i) <=> scope # "DEFAULT" /\ Newest(i, "proxy")
    /\ \A i \in At("rule") : Open(i) <=> scope = "RULE" /\ Newest(i, "rule")
    /\ \A i \in At("rule") : Open(i) <=> Within(i, "END") = {}
    /\ \A i \in At("rule") : \E j \in At("proxy") : j < i
    /\ scope # "DEFAULT" => \E i \in At("proxy") : Newest(i, "proxy")
    /\ scope = "RULE" => \E i \in At("rule") : Newest(i, "rule")

\* The rule of a block that may not have ended.
RuleSoFar(i) == [RuleAt(i) EXCEPT !.mode = IF ModesOf(i) = {} THEN "UNKNOWN" ELSE @]

\* The lists are those of the blocks, in their order.
LoadedProxies ==
    /\ Len(proxies) = Before(Len(text) + 1, "proxy")
    /\ \A i \in At("proxy") : proxies[Before(i, "proxy") + 1] = ProxyAt(i)
    /\ \A k \in 1 .. Len(proxies) : \E i \in At("proxy") : Before(i, "proxy") + 1 = k

LoadedRules ==
    /\ Len(rules) = Before(Len(text) + 1, "rule")
    /\ \A i \in At("rule") : rules[Before(i, "rule") + 1] = RuleSoFar(i)
    /\ \A k \in 1 .. Len(rules) : \E i \in At("rule") : Before(i, "rule") + 1 = k

Loaded == LoadedProxies /\ LoadedRules

Vals == {x.arg.val : x \in Items} \cup {None}

ProxyRec == [ifname : Names, target : Vals, router : BOOLEAN, promiscuous : BOOLEAN]

RuleFields ==
    [proxy : Names, addr : Vals, prefix : 0 .. 128, target : Vals, mode : {"UNKNOWN", "AUTO", "STATIC", "IFACE"},
     ifname : Names \cup {None}, autowire : BOOLEAN, table : 0 .. 255, rewrite_tgt : Vals, rewrite_pflen : 0 .. 128]

RuleRec == {r \in RuleFields : r.mode = "IFACE" <=> r.ifname # None}

ConfRec ==
    [invalid_ttl : Nat \ {0}, valid_ttl : Nat \ {0}, renew : Nat, retrans_limit : Nat, retrans_time : Nat,
     keepalive : BOOLEAN]

\* The references that nd_proxy_startup takes.
Held ==
    [n \in Names |-> Cardinality({i \in DOMAIN proxies : proxies[i].ifname = n})
                     + Cardinality({i \in DOMAIN rules : rules[i].ifname = n})]

\* What is stored, whatever the file says: values in range, proxies for different
\* interfaces, and rules that are complete but for the one being parsed.
Stored ==
    /\ scope \in {"DEFAULT", "PROXY", "RULE"}
    /\ conf \in ConfRec
    /\ proxies \in Seq(ProxyRec)
    /\ rules \in Seq(RuleRec)
    /\ \A i, j \in 1 .. Len(proxies) : proxies[i].ifname = proxies[j].ifname => i = j
    /\ scope # "DEFAULT" => Len(proxies) > 0
    /\ scope = "RULE" => Len(rules) > 0
    /\ \A i \in 1 .. Len(rules) : RuleComplete(rules[i]) \/ (scope = "RULE" /\ i = Len(rules))

Sound ==
    /\ stage \in {"parsing", "failed", "loaded", "refused", "started"}
    /\ Stored
    /\ Through => scope = "DEFAULT"
    /\ stage = "started" => Startable /\ refs = Held

Unfinished == \A i \in DOMAIN text : text[i].key # "EOF"

IInv ==
    /\ text \in Seq(Items)
    /\ stage = "parsing" => Unfinished /\ Nested /\ WellBegun /\ Loaded
    /\ stage = "failed" /\ text # <<>> => ~WellBegun
    /\ Through => WellFormed /\ Loaded

\* One more item is read after n others.
Reads(n, x) == text \in Seq(Items) /\ Len(text) = n /\ x \in Items /\ text' = Append(text, x)

----------------------------------------------------------------------------
(* Sets of places. *)

Less == {p \in Nat \X Nat : p[1] < p[2]}

\* Of the numbers with a property one is the least.
LEMMA LeastOf ==
    ASSUME NEW S \in SUBSET Nat, S # {}
    PROVE  \E m \in S : \A k \in S : m <= k
<1>1. IsWellFoundedOn(OpToRel(<, Nat), Nat) /\ OpToRel(<, Nat) = Less
  BY Zenon, NatLessThanWellFounded DEF OpToRel, Less
<1>2. PICK m \in S : \A k \in S : ~(<<k, m>> \in Less)
  BY Zenon, <1>1, WFMin
<1>3. ASSUME NEW k \in S, k < m PROVE FALSE
  <2>1. <<k, m>> \in Nat \X Nat /\ <<k, m>>[1] = k /\ <<k, m>>[2] = m
    BY Zenon
  <2> QED BY <1>2, <1>3, <2>1 DEF Less
<1> QED BY <1>3

\* The latest of some places is one of them, and the last.
LEMMA LatestIs ==
    ASSUME NEW n \in Nat, NEW S \in SUBSET (1 .. n), S # {}
    PROVE  Latest(S) \in S /\ \A j \in S : j <= Latest(S)
<1> DEFINE U == {m \in Nat : \A k \in S : k <= m}
<1>1. n \in U
  OBVIOUS
<1>2. PICK m \in U : \A k \in U : m <= k
  BY <1>1, LeastOf
<1>3. m \in S
  <2>1. SUFFICES ASSUME m \notin S PROVE FALSE
    OBVIOUS
  <2>2. \A k \in S : k \in Nat /\ k >= 1 /\ k <= m /\ k # m
    BY <2>1
  <2>3. m \in Nat /\ m # 0 /\ \A k \in S : k <= m - 1
    <3>1. PICK k \in S : TRUE
      BY Zenon
    <3> QED BY <2>2, <3>1
  <2>4. m - 1 \in U
    BY <2>3
  <2> QED BY <1>2, <2>3, <2>4
<1>4. \A k \in S : k <= m
  OBVIOUS
<1> QED BY Zenon, <1>3, <1>4 DEF Latest

\* A place beyond the others is the latest.
LEMMA LatestNew ==
    ASSUME NEW n \in Nat, NEW S \in SUBSET (1 .. n)
    PROVE  Latest(S \cup {n + 1}) = n + 1
<1>1. S \cup {n + 1} \in SUBSET (1 .. n + 1) /\ n + 1 \in Nat /\ S \cup {n + 1} # {}
  OBVIOUS
<1> DEFINE l == Latest(S \cup {n + 1})
<1>2. l \in S \cup {n + 1} /\ \A j \in S \cup {n + 1} : j <= l
  BY Zenon, <1>1, LatestIs
<1>3. l \in 1 .. n + 1 /\ n + 1 <= l
  BY Zenon, <1>1, <1>2
<1> HIDE DEF l
<1>4. l = n + 1
  BY <1>3
<1> QED BY Zenon, <1>4 DEF l

----------------------------------------------------------------------------
(* One more item. *)

\* The items of a file.
LEMMA TextIs ==
    ASSUME text \in Seq(Items)
    PROVE  Len(text) \in Nat /\ DOMAIN text = 1 .. Len(text) /\ \A i \in 1 .. Len(text) : text[i] \in Items
OBVIOUS

\* The file, once one more item is read.
LEMMA TextReads ==
    ASSUME NEW n, NEW x, Reads(n, x)
    PROVE  /\ n \in Nat
           /\ text' \in Seq(Items)
           /\ Len(text') = n + 1
           /\ text'[n + 1] = x
           /\ \A i \in 1 .. n : text'[i] = text[i]
BY DEF Reads

\* How many items with a key come before a place, once one more item is read.
LEMMA BeforeReads ==
    ASSUME NEW n, NEW x, Reads(n, x), NEW key
    PROVE  /\ \A i \in 1 .. n + 1 : Before(i, key) \in Nat /\ Before(i, key)' = Before(i, key)
           /\ Before(n + 2, key)' = Before(n + 1, key) + (IF x.key = key THEN 1 ELSE 0)
<1> DEFINE C(i) == {j \in 1 .. i - 1 : text[j].key = key}
           D(i) == {j \in 1 .. i - 1 : text'[j].key = key}
<1>1. n \in Nat /\ text'[n + 1] = x /\ \A i \in 1 .. n : text'[i] = text[i]
  BY Zenon, TextReads
<1>2. ASSUME NEW i \in 1 .. n + 1 PROVE IsFiniteSet(C(i)) /\ Cardinality(C(i)) \in Nat /\ D(i) = C(i)
  <2>1. IsFiniteSet(1 .. i - 1) /\ C(i) \in SUBSET (1 .. i - 1)
    BY <1>1, FS_Interval
  <2>2. IsFiniteSet(C(i))
    BY Zenon, <2>1, FS_Subset
  <2>3. 1 .. i - 1 \subseteq 1 .. n
    BY <1>1
  <2>4. D(i) = C(i)
    BY Zenon, <1>1, <2>3
  <2> QED BY Zenon, <2>2, <2>4, FS_CardinalityType
<1>3. D(n + 2) = IF x.key = key THEN C(n + 1) \cup {n + 1} ELSE C(n + 1)
  <2>1. 1 .. (n + 2) - 1 = (1 .. (n + 1) - 1) \cup {n + 1} /\ 1 .. (n + 1) - 1 = 1 .. n
    BY <1>1
  <2> QED BY Zenon, <1>1, <2>1
<1>4. n + 1 \notin C(n + 1) /\ n + 1 \in 1 .. n + 1
  BY <1>1
<1>5. IsFiniteSet(C(n + 1)) /\ Cardinality(C(n + 1)) \in Nat
  BY Zenon, <1>2, <1>4
<1>6. Cardinality(D(n + 2)) = Cardinality(C(n + 1)) + (IF x.key = key THEN 1 ELSE 0)
  <2>1. CASE x.key = key
    <3>1. Cardinality(C(n + 1) \cup {n + 1}) = Cardinality(C(n + 1)) + 1
      BY Zenon, <1>4, <1>5, FS_AddElement
    <3> QED BY Zenon, <1>3, <2>1, <3>1
  <2>2. CASE x.key # key
    <3>1. Cardinality(D(n + 2)) = Cardinality(C(n + 1))
      BY Zenon, <1>3, <2>2
    <3> HIDE DEF C, D
    <3> QED BY <1>5, <2>2, <3>1
  <2> QED BY Zenon, <2>1, <2>2
<1>7. \A i : Before(i, key) = Cardinality(C(i)) /\ Before(i, key)' = Cardinality(D(i))
  BY Zenon DEF Before
<1>8. \A i \in 1 .. n + 1 : Before(i, key) \in Nat /\ Before(i, key)' = Before(i, key)
  BY Zenon, <1>2, <1>7
<1>9. Before(n + 1, key) = Cardinality(C(n + 1)) /\ Before(n + 2, key)' = Cardinality(D(n + 2))
  BY Zenon, <1>7
<1>10. Before(n + 2, key)' = Before(n + 1, key) + (IF x.key = key THEN 1 ELSE 0)
  BY Zenon, <1>6, <1>9
<1> QED BY Zenon, <1>8, <1>10

\* The depth of what was read stays; after a header it grows by one, after an end it falls.
LEMMA DepthReads ==
    ASSUME NEW n, NEW x, Reads(n, x)
    PROVE  /\ \A i \in 1 .. n + 1 : Depth(i) \in Int /\ Depth(i)' = Depth(i)
           /\ Depth(n + 2)' = Depth(n + 1) + (IF x.key \in {"proxy", "rule"} THEN 1 ELSE IF x.key = "END" THEN -1 ELSE 0)
<1>1. n \in Nat
  BY Zenon, TextReads
<1>2. ASSUME NEW i \in 1 .. n + 1 PROVE Depth(i) \in Int /\ Depth(i)' = Depth(i)
  <2>1. \A key : Before(i, key) \in Nat /\ Before(i, key)' = Before(i, key)
    BY Zenon, BeforeReads
  <2> QED BY <2>1 DEF Depth
<1>3. Depth(n + 2)' = Depth(n + 1) + (IF x.key \in {"proxy", "rule"} THEN 1 ELSE IF x.key = "END" THEN -1 ELSE 0)
  <2>1. n + 1 \in 1 .. n + 1
    BY <1>1
  <2>2. \A key : Before(n + 1, key) \in Nat /\ Before(n + 2, key)' = Before(n + 1, key) + (IF x.key = key THEN 1 ELSE 0)
    BY Zenon, <2>1, BeforeReads
  <2>3. PICK p, r, e : p = Before(n + 1, "proxy") /\ r = Before(n + 1, "rule") /\ e = Before(n + 1, "END")
    BY Zenon
  <2>4. /\ p \in Nat /\ r \in Nat /\ e \in Nat
        /\ Depth(n + 1) = p + r - e
        /\ Depth(n + 2)' = (p + (IF x.key = "proxy" THEN 1 ELSE 0)) + (r + (IF x.key = "rule" THEN 1 ELSE 0))
                           - (e + (IF x.key = "END" THEN 1 ELSE 0))
    BY <2>2, <2>3 DEF Depth
  <2> QED BY <2>4
<1> QED BY Zenon, <1>2, <1>3

\* A block stays open unless what is read ends it, and is open once its header is read.
LEMMA OpenReads ==
    ASSUME NEW n, NEW x, Reads(n, x)
    PROVE  /\ \A i \in 1 .. n : Open(i)' <=> Open(i) /\ Depth(n + 2)' > Depth(i)
           /\ Open(n + 1)' <=> Depth(n + 2)' > Depth(n + 1)
<1>1. n \in Nat /\ Len(text) = n /\ Len(text') = n + 1
  BY Zenon, TextReads DEF Reads
<1>2. \A k \in 1 .. n + 1 : Depth(k)' = Depth(k)
  BY Zenon, DepthReads
<1>3. ASSUME NEW i \in 1 .. n PROVE Open(i)' <=> Open(i) /\ Depth(n + 2)' > Depth(i)
  <2>1. i + 1 .. (n + 1) + 1 = (i + 1 .. n + 1) \cup {n + 2} /\ i \in 1 .. n + 1
    BY <1>1
  <2>2. i + 1 .. n + 1 \subseteq 1 .. n + 1
    BY <1>1
  <2> QED BY Zenon, <1>1, <1>2, <2>1, <2>2 DEF Open
<1>4. Open(n + 1)' <=> Depth(n + 2)' > Depth(n + 1)
  <2>1. (n + 1) + 1 .. (n + 1) + 1 = {n + 2} /\ n + 1 \in 1 .. n + 1
    BY <1>1
  <2> QED BY Zenon, <1>1, <1>2, <2>1 DEF Open
<1> QED BY Zenon, <1>3, <1>4

\* What is read belongs to the open block that it stands directly in.
Joins(i, n) == Open(i) /\ Depth(n + 1) = Depth(i) + 1

\* The items of a block, once one more is read.
LEMMA WithinReads ==
    ASSUME NEW n, NEW x, Reads(n, x), NEW key
    PROVE  /\ \A i \in 1 .. n :
                /\ Within(i, key) \in SUBSET (1 .. n)
                /\ Within(i, key)' = IF x.key = key /\ Joins(i, n) THEN Within(i, key) \cup {n + 1} ELSE Within(i, key)
           /\ Within(n + 1, key)' = {}
<1>1. /\ n \in Nat /\ Len(text) = n /\ Len(text') = n + 1
      /\ text'[n + 1] = x /\ \A i \in 1 .. n : text'[i] = text[i]
  BY Zenon, TextReads DEF Reads
<1>2. \A k \in 1 .. n + 1 : Depth(k)' = Depth(k)
  BY Zenon, DepthReads
<1>3. ASSUME NEW i \in 1 .. n
      PROVE  /\ Within(i, key) \in SUBSET (1 .. n)
             /\ Within(i, key)' = IF x.key = key /\ Joins(i, n) THEN Within(i, key) \cup {n + 1} ELSE Within(i, key)
  <2>1. i + 1 .. n \subseteq 1 .. n /\ i \in 1 .. n + 1 /\ n + 1 \in 1 .. n + 1
    BY <1>1
  <2>2. Within(i, key) \in SUBSET (1 .. n)
    BY Zenon, <1>1, <2>1 DEF Within
  <2>3. \A j \in i + 1 .. n : j \in 1 .. n /\ j \in 1 .. n + 1 /\ i + 1 .. j \subseteq 1 .. n + 1
    BY <1>1
  <2>4. ASSUME NEW j \in i + 1 .. n PROVE j \in Within(i, key)' <=> j \in Within(i, key)
    <3>1. text'[j] = text[j] /\ Depth(j)' = Depth(j) /\ Depth(i)' = Depth(i) /\ \A k \in i + 1 .. j : Depth(k)' = Depth(k)
      BY Zenon, <1>1, <1>2, <2>1, <2>3
    <3>2. j \in i + 1 .. n + 1
      BY <1>1
    <3> QED BY Zenon, <1>1, <3>1, <3>2 DEF Within
  <2>5. n + 1 \in Within(i, key)' <=> x.key = key /\ Joins(i, n)
    <3>1. n + 1 \in i + 1 .. n + 1 /\ i + 1 .. n + 1 \subseteq 1 .. n + 1
      BY <1>1
    <3> QED BY Zenon, <1>1, <1>2, <2>1, <3>1 DEF Within, Joins, Open
  <2>6. Within(i, key)' \subseteq (i + 1 .. n) \cup {n + 1} /\ Within(i, key) \subseteq i + 1 .. n
    <3>1. i + 1 .. n + 1 = (i + 1 .. n) \cup {n + 1}
      BY <1>1
    <3> QED BY Zenon, <1>1, <3>1 DEF Within
  <2>7. n + 1 \notin i + 1 .. n
    BY <1>1
  <2>8. PICK W, V : W = Within(i, key)' /\ V = Within(i, key)
    BY Zenon
  <2>9. W = IF x.key = key /\ Joins(i, n) THEN V \cup {n + 1} ELSE V
    <3>1. \A j \in i + 1 .. n : j \in W <=> j \in V
      BY Zenon, <2>4, <2>8
    <3>2. W \subseteq (i + 1 .. n) \cup {n + 1} /\ V \subseteq i + 1 .. n
      BY Zenon, <2>6, <2>8
    <3>3. n + 1 \in W <=> x.key = key /\ Joins(i, n)
      BY Zenon, <2>5, <2>8
    <3>4. CASE n + 1 \in W
      <4>1. W = V \cup {n + 1}
        BY Zenon, <3>1, <3>2, <3>4
      <4> QED BY Zenon, <3>3, <3>4, <4>1
    <3>5. CASE n + 1 \notin W
      <4>1. W = V
        BY Zenon, <2>7, <3>1, <3>2, <3>5
      <4> QED BY Zenon, <3>3, <3>5, <4>1
    <3> QED BY Zenon, <3>4, <3>5
  <2> QED BY Zenon, <2>2, <2>8, <2>9
<1>4. Within(n + 1, key)' = {}
  <2>1. (n + 1) + 1 .. n + 1 = {}
    BY <1>1
  <2> QED BY Zenon, <1>1, <2>1 DEF Within
<1> QED BY Zenon, <1>3, <1>4

\* The last item of a block with a key, once one more is read.
LEMMA LastReads ==
    ASSUME NEW n, NEW x, Reads(n, x), NEW key, NEW i \in 1 .. n
    PROVE  /\ x.key = key /\ Joins(i, n) => Within(i, key)' # {} /\ LastIn(i, key)' = x
           /\ ~(x.key = key /\ Joins(i, n)) =>
                /\ Within(i, key)' = Within(i, key)
                /\ Within(i, key) # {} => LastIn(i, key)' = LastIn(i, key)
<1>1. n \in Nat /\ text'[n + 1] = x /\ \A j \in 1 .. n : text'[j] = text[j]
  BY Zenon, TextReads
<1>2. /\ Within(i, key) \in SUBSET (1 .. n)
      /\ Within(i, key)' = IF x.key = key /\ Joins(i, n) THEN Within(i, key) \cup {n + 1} ELSE Within(i, key)
  BY Zenon, WithinReads
<1>3. PICK W, V : W = Within(i, key)' /\ V = Within(i, key)
  BY Zenon
<1>4. LastIn(i, key)' = text'[Latest(W)] /\ LastIn(i, key) = text[Latest(V)]
  BY Zenon, <1>3 DEF LastIn, Latest
<1>5. CASE x.key = key /\ Joins(i, n)
  <2>1. W = V \cup {n + 1} /\ V \in SUBSET (1 .. n)
    BY Zenon, <1>2, <1>3, <1>5
  <2>2. Latest(W) = n + 1
    BY Zenon, <1>1, <2>1, LatestNew
  <2> QED BY Zenon, <1>1, <1>3, <1>4, <1>5, <2>1, <2>2
<1>6. CASE ~(x.key = key /\ Joins(i, n))
  <2>1. W = V /\ V \in SUBSET (1 .. n)
    BY Zenon, <1>2, <1>3, <1>6
  <2>2. V # {} => Latest(V) \in 1 .. n
    BY Zenon, <1>1, <2>1, LatestIs
  <2> QED BY Zenon, <1>1, <1>3, <1>4, <1>6, <2>1, <2>2
<1> QED BY Zenon, <1>5, <1>6

\* The places of a key, once one more item is read.
LEMMA AtReads ==
    ASSUME NEW n, NEW x, Reads(n, x), NEW key
    PROVE  /\ At(key) \in SUBSET (1 .. n)
           /\ At(key)' = IF x.key = key THEN At(key) \cup {n + 1} ELSE At(key)
<1>1. /\ n \in Nat /\ DOMAIN text = 1 .. n /\ DOMAIN text' = (1 .. n) \cup {n + 1} /\ n + 1 \notin 1 .. n
      /\ text'[n + 1] = x /\ \A i \in 1 .. n : text'[i] = text[i]
  BY DEF Reads
<1> QED BY Zenon, <1>1 DEF At

----------------------------------------------------------------------------
(* What a block says, once one more item is read. *)

\* The last value given in a block, once one more item is read.
LEMMA GivenReads ==
    ASSUME NEW n, NEW x, Reads(n, x), NEW key, NEW i \in 1 .. n, NEW d
    PROVE  /\ Given(Within(i, key), d)' = IF x.key = key /\ Joins(i, n) THEN x.arg.val ELSE Given(Within(i, key), d)
           /\ Set(Within(i, key))' = IF x.key = key /\ Joins(i, n) THEN BoolOf(x.arg) ELSE Set(Within(i, key))
           /\ GivenPrefix(Within(i, key))' = IF x.key = key /\ Joins(i, n) THEN PrefixOf(x.pf) ELSE GivenPrefix(Within(i, key))
<1>1. /\ x.key = key /\ Joins(i, n) => Within(i, key)' # {} /\ LastIn(i, key)' = x
      /\ ~(x.key = key /\ Joins(i, n)) =>
           /\ Within(i, key)' = Within(i, key)
           /\ Within(i, key) # {} => LastIn(i, key)' = LastIn(i, key)
  BY Zenon, LastReads
<1>2. \A e : /\ Given(Within(i, key), e) = IF Within(i, key) = {} THEN e ELSE LastIn(i, key).arg.val
             /\ Given(Within(i, key), e)' = IF Within(i, key)' = {} THEN e ELSE LastIn(i, key)'.arg.val
  BY Zenon DEF Given, LastIn
<1>3. /\ Set(Within(i, key)) <=> Within(i, key) # {} /\ BoolOf(LastIn(i, key).arg)
      /\ Set(Within(i, key))' <=> Within(i, key)' # {} /\ BoolOf(LastIn(i, key)'.arg)
  BY Zenon DEF Set, LastIn
<1>4. /\ GivenPrefix(Within(i, key)) = IF Within(i, key) = {} THEN 0 ELSE PrefixOf(LastIn(i, key).pf)
      /\ GivenPrefix(Within(i, key))' = IF Within(i, key)' = {} THEN 0 ELSE PrefixOf(LastIn(i, key)'.pf)
  BY Zenon DEF GivenPrefix, LastIn
<1>5. CASE x.key = key /\ Joins(i, n)
  BY Zenon, <1>1, <1>2, <1>3, <1>4, <1>5 DEF BoolOf, Set
<1>6. CASE ~(x.key = key /\ Joins(i, n))
  BY Zenon, <1>1, <1>2, <1>3, <1>4, <1>6 DEF BoolOf, Set
<1> QED BY Zenon, <1>5, <1>6

\* A block that has only been begun says nothing yet.
LEMMA GivenNew ==
    ASSUME NEW n, NEW x, Reads(n, x), NEW key, NEW d
    PROVE  /\ Within(n + 1, key)' = {}
           /\ Given(Within(n + 1, key), d)' = d
           /\ Set(Within(n + 1, key))' = FALSE
           /\ GivenPrefix(Within(n + 1, key))' = 0
<1>1. Within(n + 1, key)' = {}
  BY Zenon, WithinReads
<1> QED BY Zenon, <1>1 DEF Given, Set, GivenPrefix

\* The proxy that a rule is in, and what the rule has got from it, stay.
LEMMA EnclosingReads ==
    ASSUME NEW n, NEW x, Reads(n, x), NEW i \in 1 .. n, NEW q \in At("proxy"), q < i
    PROVE  /\ Enclosing(i)' = Enclosing(i) /\ Enclosing(i) \in 1 .. n
           /\ text[Enclosing(i)]' = text[Enclosing(i)]
           /\ Inherited(i)' = Inherited(i)
<1>1. n \in Nat /\ \A j \in 1 .. n : text'[j] = text[j]
  BY Zenon, TextReads
<1>2. ~(n + 1 < i)
  BY <1>1
<1>3. /\ At("proxy") \in SUBSET (1 .. n)
      /\ At("proxy")' = IF x.key = "proxy" THEN At("proxy") \cup {n + 1} ELSE At("proxy")
  BY Zenon, AtReads
<1>4. PICK P : P = {j \in At("proxy") : j < i}
  BY Zenon
<1>5. P \in SUBSET (1 .. n) /\ P # {}
  BY Zenon, <1>3, <1>4
<1>6. {j \in At("proxy") : j < i}' = P
  BY Zenon, <1>2, <1>3, <1>4
<1>7. PICK p : p = Latest(P)
  BY Zenon
<1>8. Enclosing(i) = p /\ Enclosing(i)' = p
  BY Zenon, <1>4, <1>6, <1>7 DEF Enclosing, Latest
<1>9. p \in 1 .. n
  BY Zenon, <1>1, <1>5, <1>7, LatestIs
<1>10. /\ Within(p, "target") \in SUBSET (1 .. n)
       /\ Within(p, "target")' = Within(p, "target") \/ Within(p, "target")' = Within(p, "target") \cup {n + 1}
  BY Zenon, <1>9, WithinReads
<1>11. PICK S : S = {j \in Within(p, "target") : j < i}
  BY Zenon
<1>12. {j \in Within(p, "target") : j < i}' = S
  BY Zenon, <1>2, <1>10, <1>11
<1>13. S \in SUBSET (1 .. n)
  BY Zenon, <1>10, <1>11
<1>14. PICK l : l = Latest(S)
  BY Zenon
<1>15. S # {} => l \in 1 .. n
  BY Zenon, <1>1, <1>13, <1>14, LatestIs
<1>16. /\ Inherited(i) = IF S = {} THEN None ELSE text[l].arg.val
       /\ Inherited(i)' = IF S = {} THEN None ELSE text'[l].arg.val
  <2>1. {j \in Within(Enclosing(i), "target") : j < i} = S
    BY Zenon, <1>8, <1>11
  <2>2. {j \in Within(Enclosing(i), "target") : j < i}' = S
    <3>1. Within(Enclosing(i), "target")' = Within(p, "target")'
      BY Zenon, <1>8 DEF Within
    <3> QED BY Zenon, <1>12, <3>1
  <2>3. Inherited(i) = IF S = {} THEN None ELSE text[l].arg.val
    BY Zenon, <1>14, <2>1 DEF Inherited, Given
  <2>4. Inherited(i)' = IF S = {} THEN None ELSE text'[l].arg.val
    <3>1. Latest({j \in Within(Enclosing(i), "target") : j < i})' = l
      BY Zenon, <1>14, <2>2 DEF Latest
    <3> QED BY Zenon, <2>2, <3>1 DEF Inherited, Given
  <2> QED BY Zenon, <2>3, <2>4
<1>17. Inherited(i)' = Inherited(i)
  <2>1. CASE S = {}
    BY Zenon, <1>16, <2>1
  <2>2. CASE S # {}
    <3>1. text'[l] = text[l]
      BY Zenon, <1>1, <1>15, <2>2
    <3> QED BY Zenon, <1>16, <2>2, <3>1
  <2> QED BY Zenon, <2>1, <2>2
<1> QED BY Zenon, <1>1, <1>8, <1>9, <1>17

\* The proxy that a new rule is in is the last, and the rule gets its target.
LEMMA EnclosingNew ==
    ASSUME NEW n, NEW x, Reads(n, x), x.key = "rule", NEW p \in At("proxy"), \A j \in At("proxy") : j <= p
    PROVE  /\ p \in 1 .. n
           /\ Enclosing(n + 1)' = p /\ text[Enclosing(n + 1)]' = text[p]
           /\ Inherited(n + 1)' = Given(Within(p, "target"), None)
<1>1. n \in Nat /\ (\A j \in 1 .. n : text'[j] = text[j]) /\ \A j \in 1 .. n : j < n + 1
  BY TextReads
<1>2. At("proxy") \in SUBSET (1 .. n) /\ At("proxy")' = At("proxy")
  BY Zenon, AtReads
<1>3. PICK P : P = At("proxy")
  BY Zenon
<1>4. {j \in At("proxy") : j < n + 1}' = P
  BY Zenon, <1>1, <1>2, <1>3
<1>5. p \in 1 .. n /\ P \in SUBSET (1 .. n) /\ P # {} /\ p \in P /\ \A j \in P : j <= p
  BY Zenon, <1>2, <1>3
<1>6. Latest(P) = p
  <2>1. PICK l : l = Latest(P)
    BY Zenon
  <2>2. l \in P /\ \A j \in P : j <= l
    BY Zenon, <1>1, <1>5, <2>1, LatestIs
  <2>3. l \in 1 .. n /\ l <= p /\ p <= l
    BY Zenon, <1>5, <2>2
  <2>4. l = p
    BY <1>5, <2>3
  <2> QED BY Zenon, <2>1, <2>4
<1>7. Enclosing(n + 1)' = p
  BY Zenon, <1>4, <1>6 DEF Enclosing, Latest
<1>8. Within(p, "target") \in SUBSET (1 .. n) /\ Within(p, "target")' = Within(p, "target")
  <2>1. x.key # "target"
    OBVIOUS
  <2>2. /\ Within(p, "target") \in SUBSET (1 .. n)
        /\ Within(p, "target")' = IF x.key = "target" /\ Joins(p, n) THEN Within(p, "target") \cup {n + 1} ELSE Within(p, "target")
    BY Zenon, <1>5, WithinReads
  <2> QED BY Zenon, <2>1, <2>2
<1>9. PICK S : S = Within(p, "target")
  BY Zenon
<1>10. {j \in Within(p, "target") : j < n + 1}' = S
  BY Zenon, <1>1, <1>8, <1>9
<1>11. PICK l : l = Latest(S)
  BY Zenon
<1>12. S # {} => l \in 1 .. n
  BY Zenon, <1>1, <1>8, <1>9, <1>11, LatestIs
<1>13. Inherited(n + 1)' = IF S = {} THEN None ELSE text'[l].arg.val
  <2>1. Within(Enclosing(n + 1), "target")' = Within(p, "target")'
    BY Zenon, <1>7 DEF Within
  <2>2. {j \in Within(Enclosing(n + 1), "target") : j < n + 1}' = S
    BY Zenon, <1>10, <2>1
  <2>3. Latest({j \in Within(Enclosing(n + 1), "target") : j < n + 1})' = l
    BY Zenon, <1>11, <2>2 DEF Latest
  <2> QED BY Zenon, <2>2, <2>3 DEF Inherited, Given
<1>14. Given(Within(p, "target"), None) = IF S = {} THEN None ELSE text[l].arg.val
  BY Zenon, <1>9, <1>11 DEF Given
<1>15. Inherited(n + 1)' = Given(Within(p, "target"), None)
  BY Zenon, <1>1, <1>12, <1>13, <1>14
<1> QED BY Zenon, <1>1, <1>5, <1>7, <1>15

----------------------------------------------------------------------------
(* The table. *)

\* The rows of ndL_cfinfo_table, by scope: their type, field and range.
OneOfRows(t) ==
    \/ t.scope = "DEFAULT" /\ t.key = "proxy" /\ t.type = "PROXY"
    \/ t.scope = "DEFAULT" /\ t.key = "keepalive" /\ t.type = "BOOL" /\ t.field = "keepalive"
    \/ /\ t.scope = "DEFAULT" /\ t.type = "INT" /\ t.min \in Int
       /\ \/ t.key = "invalid-ttl" /\ t.field = "invalid_ttl" /\ t.min > 0
          \/ t.key = "valid-ttl" /\ t.field = "valid_ttl" /\ t.min > 0
          \/ t.key = "renew" /\ t.field = "renew" /\ t.min = 0
          \/ t.key = "retrans-limit" /\ t.field = "retrans_limit" /\ t.min = 0
          \/ t.key = "retrans-time" /\ t.field = "retrans_time" /\ t.min = 0
    \/ t.scope = "PROXY" /\ t.key = "rule" /\ t.type = "RULE"
    \/ t.scope = "PROXY" /\ t.key = "router" /\ t.type = "BOOL" /\ t.field = "router"
    \/ t.scope = "PROXY" /\ t.key = "promiscuous" /\ t.type = "BOOL" /\ t.field = "promiscuous"
    \/ t.scope = "PROXY" /\ t.key = "target" /\ t.type = "LLADDR" /\ t.field = "target"
    \/ t.scope = "RULE" /\ t.key = "target" /\ t.type = "LLADDR" /\ t.field = "target"
    \/ t.scope = "RULE" /\ t.key = "rewrite" /\ t.type = "REWRITE"
    \/ t.scope = "RULE" /\ t.key = "autowire" /\ t.type = "BOOL" /\ t.field = "autowire"
    \/ t.scope = "RULE" /\ t.key = "table" /\ t.type = "INT" /\ t.field = "table" /\ t.min = 0 /\ t.max = 255
    \/ t.scope = "RULE" /\ t.key = "auto" /\ t.type = "MODE" /\ t.field = "AUTO"
    \/ t.scope = "RULE" /\ t.key = "static" /\ t.type = "MODE" /\ t.field = "STATIC"
    \/ t.scope = "RULE" /\ t.key = "iface" /\ t.type = "MODE" /\ t.field = "IFACE"

LEMMA RowIs ==
    ASSUME NEW t \in ndL_cfinfo_table
    PROVE  OneOfRows(t)
<1>1. CASE t = Row("proxy", "DEFAULT", "PROXY", "none", 0, 0)
  BY SMT, <1>1 DEF Row, OneOfRows
<1>2. CASE t = Row("rule", "PROXY", "RULE", "none", 0, 0)
  BY SMT, <1>2 DEF Row, OneOfRows
<1>3. CASE t = Row("rewrite", "RULE", "REWRITE", "none", 0, 0)
  BY SMT, <1>3 DEF Row, OneOfRows
<1>4. CASE t = Row("invalid-ttl", "DEFAULT", "INT", "invalid_ttl", 1000, 3600000)
  BY SMT, <1>4 DEF Row, OneOfRows
<1>5. CASE t = Row("valid-ttl", "DEFAULT", "INT", "valid_ttl", 10000, 3600000)
  BY SMT, <1>5 DEF Row, OneOfRows
<1>6. CASE t = Row("renew", "DEFAULT", "INT", "renew", 0, 0)
  BY SMT, <1>6 DEF Row, OneOfRows
<1>7. CASE t = Row("retrans-limit", "DEFAULT", "INT", "retrans_limit", 0, 10)
  BY SMT, <1>7 DEF Row, OneOfRows
<1>8. CASE t = Row("retrans-time", "DEFAULT", "INT", "retrans_time", 0, 60000)
  BY SMT, <1>8 DEF Row, OneOfRows
<1>9. CASE t = Row("keepalive", "DEFAULT", "BOOL", "keepalive", 0, 0)
  BY SMT, <1>9 DEF Row, OneOfRows
<1>10. CASE t = Row("router", "PROXY", "BOOL", "router", 0, 0)
  BY SMT, <1>10 DEF Row, OneOfRows
<1>11. CASE t = Row("promiscuous", "PROXY", "BOOL", "promiscuous", 0, 0)
  BY SMT, <1>11 DEF Row, OneOfRows
<1>12. CASE t = Row("auto", "RULE", "MODE", "AUTO", 0, 0)
  BY SMT, <1>12 DEF Row, OneOfRows
<1>13. CASE t = Row("static", "RULE", "MODE", "STATIC", 0, 0)
  BY SMT, <1>13 DEF Row, OneOfRows
<1>14. CASE t = Row("autowire", "RULE", "BOOL", "autowire", 0, 0)
  BY SMT, <1>14 DEF Row, OneOfRows
<1>15. CASE t = Row("iface", "RULE", "MODE", "IFACE", 0, 0)
  BY SMT, <1>15 DEF Row, OneOfRows
<1>16. CASE t = Row("target", "PROXY", "LLADDR", "target", 0, 0)
  BY SMT, <1>16 DEF Row, OneOfRows
<1>17. CASE t = Row("target", "RULE", "LLADDR", "target", 0, 0)
  BY SMT, <1>17 DEF Row, OneOfRows
<1>18. CASE t = Row("table", "RULE", "INT", "table", 0, 255)
  BY SMT, <1>18 DEF Row, OneOfRows
<1> QED BY SMT, <1>1, <1>2, <1>3, <1>4, <1>5, <1>6, <1>7, <1>8, <1>9, <1>10, <1>11, <1>12,
          <1>13, <1>14, <1>15, <1>16, <1>17, <1>18 DEF ndL_cfinfo_table

\* A key is known once in a scope.
LEMMA RowUnique ==
    ASSUME NEW t \in ndL_cfinfo_table, NEW u \in ndL_cfinfo_table, t.key = u.key, t.scope = u.scope
    PROVE  t = u
<1>1. CASE t = Row("proxy", "DEFAULT", "PROXY", "none", 0, 0)
  BY SMT, <1>1 DEF ndL_cfinfo_table, Row
<1>2. CASE t = Row("rule", "PROXY", "RULE", "none", 0, 0)
  BY SMT, <1>2 DEF ndL_cfinfo_table, Row
<1>3. CASE t = Row("rewrite", "RULE", "REWRITE", "none", 0, 0)
  BY SMT, <1>3 DEF ndL_cfinfo_table, Row
<1>4. CASE t = Row("invalid-ttl", "DEFAULT", "INT", "invalid_ttl", 1000, 3600000)
  BY SMT, <1>4 DEF ndL_cfinfo_table, Row
<1>5. CASE t = Row("valid-ttl", "DEFAULT", "INT", "valid_ttl", 10000, 3600000)
  BY SMT, <1>5 DEF ndL_cfinfo_table, Row
<1>6. CASE t = Row("renew", "DEFAULT", "INT", "renew", 0, 0)
  BY SMT, <1>6 DEF ndL_cfinfo_table, Row
<1>7. CASE t = Row("retrans-limit", "DEFAULT", "INT", "retrans_limit", 0, 10)
  BY SMT, <1>7 DEF ndL_cfinfo_table, Row
<1>8. CASE t = Row("retrans-time", "DEFAULT", "INT", "retrans_time", 0, 60000)
  BY SMT, <1>8 DEF ndL_cfinfo_table, Row
<1>9. CASE t = Row("keepalive", "DEFAULT", "BOOL", "keepalive", 0, 0)
  BY SMT, <1>9 DEF ndL_cfinfo_table, Row
<1>10. CASE t = Row("router", "PROXY", "BOOL", "router", 0, 0)
  BY SMT, <1>10 DEF ndL_cfinfo_table, Row
<1>11. CASE t = Row("promiscuous", "PROXY", "BOOL", "promiscuous", 0, 0)
  BY SMT, <1>11 DEF ndL_cfinfo_table, Row
<1>12. CASE t = Row("auto", "RULE", "MODE", "AUTO", 0, 0)
  BY SMT, <1>12 DEF ndL_cfinfo_table, Row
<1>13. CASE t = Row("static", "RULE", "MODE", "STATIC", 0, 0)
  BY SMT, <1>13 DEF ndL_cfinfo_table, Row
<1>14. CASE t = Row("autowire", "RULE", "BOOL", "autowire", 0, 0)
  BY SMT, <1>14 DEF ndL_cfinfo_table, Row
<1>15. CASE t = Row("iface", "RULE", "MODE", "IFACE", 0, 0)
  BY SMT, <1>15 DEF ndL_cfinfo_table, Row
<1>16. CASE t = Row("target", "PROXY", "LLADDR", "target", 0, 0)
  BY SMT, <1>16 DEF ndL_cfinfo_table, Row
<1>17. CASE t = Row("target", "RULE", "LLADDR", "target", 0, 0)
  BY SMT, <1>17 DEF ndL_cfinfo_table, Row
<1>18. CASE t = Row("table", "RULE", "INT", "table", 0, 255)
  BY SMT, <1>18 DEF ndL_cfinfo_table, Row
<1> QED BY SMT, <1>1, <1>2, <1>3, <1>4, <1>5, <1>6, <1>7, <1>8, <1>9, <1>10, <1>11, <1>12,
          <1>13, <1>14, <1>15, <1>16, <1>17, <1>18 DEF ndL_cfinfo_table

\* A prefix length that is accepted is one.
LEMMA PrefixInRange ==
    ASSUME NEW x \in Items, AcceptPrefix(x.pf)
    PROVE  PrefixOf(x.pf) \in 0 .. 128
<1>1. CASE x.pf.kind = "none"
  BY SMT, <1>1 DEF PrefixOf
<1>2. CASE x.pf.kind # "none"
  <2>1. x.pf.kind = "int" /\ x.pf.val >= 0 /\ x.pf.val <= 128
    BY Zenon, <1>2 DEF AcceptPrefix, ndL_accept_int
  <2>2. x.pf.val \in Int
    BY Zenon, <2>1, ConfAssumption
  <2> QED BY SMT, <1>2, <2>1, <2>2 DEF PrefixOf
<1> QED BY Zenon, <1>1, <1>2

\* What an entry does, by its row.
Does(x, t) ==
    \/ t.type = "BOOL" /\ Store(t, BoolOf(x.arg))
    \/ t.type \in {"INT", "LLADDR"} /\ Store(t, x.arg.val)
    \/ t.type = "PROXY" /\ ndL_parse_proxy(x)
    \/ t.type = "RULE" /\ ndL_parse_rule(x)
    \/ t.type = "REWRITE" /\ ndL_parse_rewrite(x)
    \/ t.type = "MODE" /\ ndL_parse_mode(x, t)

\* The row by which an entry is accepted is the one by which it is parsed.
LEMMA EntryRow ==
    ASSUME NEW x \in Items, Accepted(x), ParseEntry(x), x.key # "EOF", x.key # "END"
    PROVE  x.ok /\ \E t \in ndL_cfinfo_table : t.scope = scope /\ t.key = x.key /\ EntryAccepted(x, t) /\ Does(x, t)
<1>1. x.ok /\ \E u \in Rows(x) : EntryAccepted(x, u)
  BY SMT DEF Accepted
<1>2. PICK u \in Rows(x) : EntryAccepted(x, u)
  BY Zenon, <1>1
<1>3. PICK t \in Rows(x) : Does(x, t)
  BY Zenon DEF ParseEntry, Does
<1>4. t = u /\ t \in ndL_cfinfo_table /\ t.scope = scope /\ t.key = x.key
  BY Zenon, RowUnique DEF Rows
<1> QED BY Zenon, <1>1, <1>2, <1>3, <1>4

\* What an accepted entry stores, by what it is: a proxy, a variable of the daemon, a rule,
\* a field of the proxy or rule that is being parsed, or the mode of the rule.
ProxyEntry(x) ==
    /\ scope = "DEFAULT" /\ x.key = "proxy"
    /\ x.arg.kind = "name" /\ x.arg.val \in Names
    /\ \A i \in DOMAIN proxies : proxies[i].ifname # x.arg.val
    /\ ndL_parse_proxy(x)

ConfEntry(x) ==
    /\ scope = "DEFAULT" /\ x.key \notin {"proxy", "rule"}
    /\ conf' \in ConfRec
    /\ UNCHANGED <<scope, proxies, rules>>

RuleEntry(x) ==
    /\ scope = "PROXY" /\ x.key = "rule"
    /\ PrefixOf(x.pf) \in 0 .. 128
    /\ ndL_parse_rule(x)

ProxyField(x) ==
    /\ scope = "PROXY" /\ x.key \in {"target", "router", "promiscuous"}
    /\ proxies' = [proxies EXCEPT ![Len(proxies)][x.key] = IF x.key = "target" THEN x.arg.val ELSE BoolOf(x.arg)]
    /\ UNCHANGED <<scope, conf, rules>>

RuleField(x) ==
    /\ scope = "RULE" /\ x.key \in {"target", "autowire", "table"}
    /\ x.key = "table" => x.arg.val \in 0 .. 255
    /\ rules' = [rules EXCEPT ![Len(rules)][x.key] = IF x.key = "autowire" THEN BoolOf(x.arg) ELSE x.arg.val]
    /\ UNCHANGED <<scope, conf, proxies>>

RewriteEntry(x) ==
    /\ scope = "RULE" /\ x.key = "rewrite"
    /\ PrefixOf(x.pf) \in 0 .. 128
    /\ ndL_parse_rewrite(x)

ModeEntry(x) ==
    /\ scope = "RULE" /\ x.key \in {"auto", "static", "iface"}
    /\ x.key = "iface" => x.arg.val \in Names
    /\ Last(rules).mode = "UNKNOWN"
    /\ rules' = [rules EXCEPT ![Len(rules)] =
                     [@ EXCEPT !.mode = IF x.key = "auto" THEN "AUTO" ELSE IF x.key = "static" THEN "STATIC" ELSE "IFACE",
                               !.ifname = IF x.key = "iface" THEN x.arg.val ELSE Last(rules).ifname]]
    /\ UNCHANGED <<scope, conf, proxies>>

\* An entry outside of the blocks sets one nd_conf_ variable, to a value in range.
LEMMA ConfStored ==
    ASSUME NEW x \in Items, NEW t \in ndL_cfinfo_table, t.scope = "DEFAULT", scope = "DEFAULT", t.type \in {"BOOL", "INT"},
           Fits(x, t), Does(x, t), conf \in ConfRec
    PROVE  conf' \in ConfRec /\ UNCHANGED <<scope, proxies, rules>>
<1>1. CASE t.type = "BOOL"
  <2>1. t.field = "keepalive"
    BY SMT, <1>1, RowIs DEF OneOfRows
  <2>2. Store(t, BoolOf(x.arg))
    BY SMT, <1>1 DEF Does
  <2>3. BoolOf(x.arg) \in BOOLEAN
    BY Zenon DEF BoolOf
  <2> QED BY SMT, <2>1, <2>2, <2>3 DEF Store, ConfRec
<1>2. CASE t.type = "INT"
  <2>1. /\ t.min \in Int
        /\ \/ t.field = "invalid_ttl" /\ t.min > 0
           \/ t.field = "valid_ttl" /\ t.min > 0
           \/ t.field = "renew" /\ t.min = 0
           \/ t.field = "retrans_limit" /\ t.min = 0
           \/ t.field = "retrans_time" /\ t.min = 0
    BY SMT, <1>2, RowIs DEF OneOfRows
  <2>2. Store(t, x.arg.val)
    BY SMT, <1>2 DEF Does
  <2>3. x.arg.val >= t.min /\ x.arg.kind = "int"
    BY Zenon, <1>2 DEF Fits, ndL_accept_int
  <2>4. x.arg.val \in Int
    BY Zenon, <2>3, ConfAssumption
  <2> QED BY SMT, <2>1, <2>2, <2>3, <2>4 DEF Store, ConfRec
<1> QED BY Zenon, <1>1, <1>2

\* What ParseEntry does with an accepted entry, one case for a kind of entry.
LEMMA EntryStep ==
    ASSUME NEW x \in Items, Accepted(x), ParseEntry(x), x.key # "EOF", x.key # "END", conf \in ConfRec
    PROVE  \/ ProxyEntry(x) \/ ConfEntry(x) \/ RuleEntry(x) \/ ProxyField(x)
           \/ RuleField(x) \/ RewriteEntry(x) \/ ModeEntry(x)
<1>1. PICK t \in ndL_cfinfo_table : t.scope = scope /\ t.key = x.key /\ EntryAccepted(x, t) /\ Does(x, t)
  BY Zenon, EntryRow
<1>2. Fits(x, t)
  BY Zenon, <1>1 DEF EntryAccepted
<1>3. CASE t.type = "PROXY"
  <2>1. scope = "DEFAULT" /\ x.key = "proxy"
    BY SMT, <1>1, <1>3, RowIs DEF OneOfRows
  <2>2. x.arg.kind = "name"
    BY Zenon, <1>2, <1>3 DEF Fits, ndL_accept_name
  <2>3. x.arg.val \in Names
    BY Zenon, <2>1, <2>2, ConfAssumption
  <2>4. ndL_parse_proxy(x)
    BY SMT, <1>1, <1>3 DEF Does
  <2> QED BY Zenon, <1>1, <1>3, <2>1, <2>2, <2>3, <2>4 DEF ProxyEntry, EntryAccepted
<1>4. CASE t.type = "RULE"
  <2>1. scope = "PROXY" /\ x.key = "rule"
    BY SMT, <1>1, <1>4, RowIs DEF OneOfRows
  <2>2. AcceptPrefix(x.pf)
    BY Zenon, <1>2, <1>4 DEF Fits
  <2>3. ndL_parse_rule(x)
    BY SMT, <1>1, <1>4 DEF Does
  <2> QED BY Zenon, <2>1, <2>2, <2>3, PrefixInRange DEF RuleEntry
<1>5. CASE t.type = "REWRITE"
  <2>1. scope = "RULE" /\ x.key = "rewrite"
    BY SMT, <1>1, <1>5, RowIs DEF OneOfRows
  <2>2. AcceptPrefix(x.pf)
    BY Zenon, <1>2, <1>5 DEF Fits
  <2>3. ndL_parse_rewrite(x)
    BY SMT, <1>1, <1>5 DEF Does
  <2> QED BY Zenon, <2>1, <2>2, <2>3, PrefixInRange DEF RewriteEntry
<1>6. CASE t.type = "MODE"
  <2>1. /\ scope = "RULE" /\ x.key \in {"auto", "static", "iface"}
        /\ t.field = IF x.key = "auto" THEN "AUTO" ELSE IF x.key = "static" THEN "STATIC" ELSE "IFACE"
        /\ t.field = "IFACE" <=> x.key = "iface"
    BY SMT, <1>1, <1>6, RowIs DEF OneOfRows
  <2>2. Last(rules).mode = "UNKNOWN" /\ (x.key = "iface" => x.arg.kind = "name")
    BY Zenon, <1>1, <1>6, <2>1 DEF EntryAccepted, Fits, ndL_accept_name
  <2>3. x.key = "iface" => x.arg.val \in Names
    BY Zenon, <2>2, ConfAssumption
  <2>4. ndL_parse_mode(x, t)
    BY SMT, <1>1, <1>6 DEF Does
  <2> QED BY Zenon, <2>1, <2>2, <2>3, <2>4 DEF ModeEntry, ndL_parse_mode
<1>7. CASE t.type \in {"BOOL", "INT", "LLADDR"} /\ scope = "DEFAULT"
  <2>1. t.type \in {"BOOL", "INT"} /\ x.key \notin {"proxy", "rule"}
    BY SMT, <1>1, <1>7, RowIs DEF OneOfRows
  <2> QED BY Zenon, <1>1, <1>2, <1>7, <2>1, ConfStored DEF ConfEntry
<1>8. CASE t.type \in {"BOOL", "INT", "LLADDR"} /\ scope = "PROXY"
  <2>1. /\ x.key \in {"target", "router", "promiscuous"} /\ t.field = x.key
        /\ IF x.key = "target" THEN t.type = "LLADDR" ELSE t.type = "BOOL"
    BY SMT, <1>1, <1>8, RowIs DEF OneOfRows
  <2>2. Store(t, IF x.key = "target" THEN x.arg.val ELSE BoolOf(x.arg))
    BY SMT, <1>1, <2>1 DEF Does
  <2>3. scope # "DEFAULT" /\ scope # "RULE"
    BY Zenon, <1>8
  <2> QED BY Zenon, <1>8, <2>1, <2>2, <2>3 DEF ProxyField, Store
<1>9. CASE t.type \in {"BOOL", "INT", "LLADDR"} /\ scope = "RULE"
  <2>1. /\ x.key \in {"target", "autowire", "table"} /\ t.field = x.key
        /\ x.key = "table" => t.type = "INT" /\ t.min = 0 /\ t.max = 255
        /\ x.key = "autowire" => t.type = "BOOL"
        /\ x.key = "target" => t.type = "LLADDR"
    BY SMT, <1>1, <1>9, RowIs DEF OneOfRows
  <2>2. Store(t, IF x.key = "autowire" THEN BoolOf(x.arg) ELSE x.arg.val)
    BY SMT, <1>1, <2>1 DEF Does
  <2>3. scope # "DEFAULT" /\ scope # "PROXY"
    BY Zenon, <1>9
  <2>4. x.key = "table" => x.arg.kind = "int" /\ x.arg.val >= 0 /\ x.arg.val <= 255
    BY Zenon, <1>2, <2>1 DEF Fits, ndL_accept_int
  <2>5. x.key = "table" => x.arg.val \in Int
    BY Zenon, <2>4, ConfAssumption
  <2>6. x.key = "table" => x.arg.val \in 0 .. 255
    BY SMT, <2>4, <2>5
  <2> QED BY Zenon, <1>9, <2>1, <2>2, <2>3, <2>6 DEF RuleField, Store
<1> QED
  <2>1. t.type \in {"PROXY", "RULE", "REWRITE", "MODE", "BOOL", "INT", "LLADDR"} /\ t.scope \in {"DEFAULT", "PROXY", "RULE"}
    BY SMT, RowIs DEF OneOfRows
  <2> QED BY Zenon, <1>1, <1>3, <1>4, <1>5, <1>6, <1>7, <1>8, <1>9, <2>1

----------------------------------------------------------------------------
(* What is stored. *)

\* A new proxy has another name than those before it.
LEMMA StoredProxy ==
    ASSUME Stored, NEW x \in Items, ProxyEntry(x)
    PROVE  Stored'
<1> DEFINE e == [ifname |-> x.arg.val, target |-> None, router |-> FALSE, promiscuous |-> FALSE]
<1>1. e \in ProxyRec /\ e.ifname = x.arg.val
  BY SMT DEF ProxyEntry, ProxyRec, Vals
<1>2. proxies' = Append(proxies, e) /\ scope' = "PROXY" /\ conf' = conf /\ rules' = rules
  BY Zenon DEF ProxyEntry, ndL_parse_proxy, nd_proxy_create
<1>3. \A i \in DOMAIN proxies : proxies[i].ifname # x.arg.val
  BY Zenon DEF ProxyEntry
<1>4. scope = "DEFAULT"
  BY Zenon DEF ProxyEntry
<1> HIDE DEF e
<1>5. /\ proxies' \in Seq(ProxyRec) /\ Len(proxies') = Len(proxies) + 1 /\ Len(proxies) \in Nat
      /\ proxies'[Len(proxies) + 1] = e /\ \A i \in 1 .. Len(proxies) : proxies'[i] = proxies[i]
  BY SMT, <1>1, <1>2 DEF Stored
<1>6. \A i, j \in 1 .. Len(proxies') : proxies'[i].ifname = proxies'[j].ifname => i = j
  BY SMTT(20), <1>1, <1>3, <1>5 DEF Stored
<1>7. Len(proxies') > 0
  BY SMT, <1>5
<1> QED BY Zenon, <1>2, <1>4, <1>5, <1>6, <1>7 DEF Stored, RuleComplete

\* An entry of a proxy's block keeps what is stored in range.
LEMMA StoredProxyField ==
    ASSUME Stored, NEW x \in Items, ProxyField(x)
    PROVE  Stored'
<1> DEFINE p == proxies[Len(proxies)]
           v == IF x.key = "target" THEN x.arg.val ELSE BoolOf(x.arg)
           e == [p EXCEPT ![x.key] = v]
<1>1. proxies \in Seq(ProxyRec) /\ Len(proxies) > 0 /\ x.key \in {"target", "router", "promiscuous"}
  BY SMT DEF Stored, ProxyField
<1>2. p \in ProxyRec
  BY SMT, <1>1
<1>3. v \in IF x.key = "target" THEN Vals ELSE BOOLEAN
  BY Zenon DEF Vals, BoolOf
<1>4. proxies' = [proxies EXCEPT ![Len(proxies)] = e] /\ UNCHANGED <<scope, conf, rules>>
  BY Zenon DEF ProxyField
<1> HIDE DEF p, v
<1>5. e \in ProxyRec /\ e.ifname = p.ifname
  BY SMT, <1>1, <1>2, <1>3 DEF ProxyRec
<1> HIDE DEF e
<1>6. /\ proxies' \in Seq(ProxyRec) /\ Len(proxies') = Len(proxies) /\ Len(proxies) \in 1 .. Len(proxies)
      /\ proxies'[Len(proxies)] = e /\ \A i \in 1 .. Len(proxies) : i # Len(proxies) => proxies'[i] = proxies[i]
  BY SMT, <1>1, <1>4, <1>5
<1>7. \A i \in 1 .. Len(proxies') : i \in 1 .. Len(proxies) /\ proxies'[i].ifname = proxies[i].ifname
  BY Zenon, <1>5, <1>6 DEF p
<1>8. \A i, j \in 1 .. Len(proxies') : proxies'[i].ifname = proxies'[j].ifname => i = j
  BY Zenon, <1>7 DEF Stored
<1> QED BY Zenon, <1>4, <1>6, <1>8 DEF Stored, RuleComplete

\* A new rule is the one that need not be complete.
LEMMA StoredRule ==
    ASSUME Stored, NEW x \in Items, RuleEntry(x)
    PROVE  Stored'
<1> DEFINE p == proxies[Len(proxies)]
           e == nd_rule_create(p, x.arg.val, PrefixOf(x.pf))
<1>1. scope = "PROXY" /\ Len(proxies) > 0 /\ proxies \in Seq(ProxyRec) /\ rules \in Seq(RuleRec)
  BY SMT DEF RuleEntry, Stored
<1>2. p \in ProxyRec
  BY SMT, <1>1
<1>3. rules' = Append(rules, e) /\ scope' = "RULE" /\ conf' = conf /\ proxies' = proxies
  BY Zenon DEF RuleEntry, ndL_parse_rule, Last
<1>4. PrefixOf(x.pf) \in 0 .. 128 /\ x.arg.val \in Vals /\ None \in Vals
  BY Zenon DEF RuleEntry, Vals
<1> HIDE DEF p
<1>5. p.ifname \in Names /\ p.target \in Vals
  BY SMT, <1>2 DEF ProxyRec
<1>6. e \in RuleRec
  <2>1. e.mode # "IFACE" /\ e.ifname = None
    BY SMT DEF nd_rule_create
  <2>2. 254 \in 0 .. 255 /\ 0 \in 0 .. 128
    BY SMT
  <2> QED BY SMT, <1>4, <1>5, <2>1, <2>2 DEF nd_rule_create, RuleRec, RuleFields
<1> HIDE DEF e
<1>7. /\ rules' \in Seq(RuleRec) /\ Len(rules') = Len(rules) + 1 /\ Len(rules) \in Nat
      /\ \A i \in 1 .. Len(rules) : rules'[i] = rules[i]
  BY SMT, <1>1, <1>3, <1>6
<1>8. \A i \in 1 .. Len(rules') : i = Len(rules') \/ (i \in 1 .. Len(rules) /\ rules'[i] = rules[i])
  BY SMT, <1>7
<1>9. \A i \in 1 .. Len(rules) : RuleComplete(rules[i])
  BY Zenon, <1>1 DEF Stored
<1>10. \A i \in 1 .. Len(rules') : RuleComplete(rules'[i]) \/ (scope' = "RULE" /\ i = Len(rules'))
  BY Zenon, <1>3, <1>8, <1>9
<1>11. Len(rules') > 0
  BY SMT, <1>7
<1> QED BY Zenon, <1>1, <1>3, <1>7, <1>10, <1>11 DEF Stored, RuleComplete

\* While a rule is parsed, only the last one changes.
LEMMA StoredLast ==
    ASSUME Stored, scope = "RULE", UNCHANGED <<scope, conf, proxies>>,
           NEW e \in RuleRec, rules' = [rules EXCEPT ![Len(rules)] = e]
    PROVE  Stored'
<1>1. /\ rules' \in Seq(RuleRec) /\ Len(rules') = Len(rules) /\ Len(rules) \in 1 .. Len(rules) /\ Len(rules) > 0
      /\ \A i \in 1 .. Len(rules) : i # Len(rules) => rules'[i] = rules[i]
  BY SMT DEF Stored
<1>2. \A i \in 1 .. Len(rules') : RuleComplete(rules'[i]) \/ (scope' = "RULE" /\ i = Len(rules'))
  BY Zenon, <1>1 DEF Stored
<1> QED BY Zenon, <1>1, <1>2 DEF Stored, RuleComplete

\* An entry of a rule's block keeps its mode and its interface in agreement.
LEMMA StoredInRule ==
    ASSUME Stored, NEW x \in Items, RuleField(x) \/ RewriteEntry(x) \/ ModeEntry(x)
    PROVE  Stored'
<1> DEFINE r == rules[Len(rules)]
<1>1. scope = "RULE" /\ Len(rules) > 0 /\ rules \in Seq(RuleRec) /\ UNCHANGED <<scope, conf, proxies>>
  BY SMT DEF RuleField, RewriteEntry, ModeEntry, ndL_parse_rewrite, Stored
<1>2. r \in RuleRec
  BY SMT, <1>1
<1>3. x.arg.val \in Vals /\ BoolOf(x.arg) \in BOOLEAN
  BY Zenon DEF Vals, BoolOf
<1>4. CASE RuleField(x)
  <2> DEFINE e == [r EXCEPT ![x.key] = IF x.key = "autowire" THEN BoolOf(x.arg) ELSE x.arg.val]
  <2>1. rules' = [rules EXCEPT ![Len(rules)] = e]
    BY Zenon, <1>4 DEF RuleField
  <2>2. x.key \in {"target", "autowire", "table"} /\ (x.key = "table" => x.arg.val \in 0 .. 255)
    BY Zenon, <1>4 DEF RuleField
  <2> HIDE DEF r
  <2>3. e \in RuleRec
    BY SMTT(20), <1>2, <1>3, <2>2 DEF RuleRec, RuleFields
  <2> QED BY Zenon, <1>1, <2>1, <2>3, StoredLast
<1>5. CASE RewriteEntry(x)
  <2> DEFINE e == [r EXCEPT !.rewrite_tgt = x.arg.val, !.rewrite_pflen = PrefixOf(x.pf)]
  <2>1. rules' = [rules EXCEPT ![Len(rules)] = e]
    BY Zenon, <1>5 DEF RewriteEntry, ndL_parse_rewrite
  <2>2. PrefixOf(x.pf) \in 0 .. 128
    BY Zenon, <1>5 DEF RewriteEntry
  <2> HIDE DEF r
  <2>3. e \in RuleRec
    <3> DEFINE d == [r EXCEPT !.rewrite_tgt = x.arg.val]
    <3>1. d \in RuleRec
      BY SMT, <1>2, <1>3 DEF RuleRec, RuleFields
    <3>2. e = [d EXCEPT !.rewrite_pflen = PrefixOf(x.pf)]
      BY SMT, <1>2 DEF RuleRec, RuleFields
    <3> HIDE DEF d, e
    <3> QED BY SMT, <2>2, <3>1, <3>2 DEF RuleRec, RuleFields
  <2> QED BY Zenon, <1>1, <2>1, <2>3, StoredLast
<1>6. CASE ModeEntry(x)
  <2> DEFINE m == IF x.key = "auto" THEN "AUTO" ELSE IF x.key = "static" THEN "STATIC" ELSE "IFACE"
             v == IF x.key = "iface" THEN x.arg.val ELSE r.ifname
             e == [r EXCEPT !.mode = m, !.ifname = v]
  <2>1. rules' = [rules EXCEPT ![Len(rules)] = e]
    BY Zenon, <1>6 DEF ModeEntry, Last
  <2>2. r.mode = "UNKNOWN" /\ x.key \in {"auto", "static", "iface"} /\ (x.key = "iface" => x.arg.val \in Names)
    BY Zenon, <1>6 DEF ModeEntry, Last
  <2> HIDE DEF r
  <2>3. r.ifname = None /\ r \in RuleFields
    BY SMT, <1>2, <2>2 DEF RuleRec
  <2>4. m \in {"AUTO", "STATIC", "IFACE"} /\ v \in Names \cup {None} /\ (m = "IFACE" <=> v # None)
    BY SMT, <2>2, <2>3, ConfAssumption
  <2> HIDE DEF m, v
  <2>5. e \in RuleRec
    <3> DEFINE d == [r EXCEPT !.mode = m]
    <3>1. d \in RuleFields /\ d.mode = m
      BY SMT, <2>3, <2>4 DEF RuleFields
    <3>2. e = [d EXCEPT !.ifname = v]
      BY SMT, <2>3 DEF RuleFields
    <3> HIDE DEF d, e
    <3>3. e \in RuleFields /\ e.mode = m /\ e.ifname = v
      BY SMT, <2>4, <3>1, <3>2 DEF RuleFields
    <3> QED BY SMT, <2>4, <3>3 DEF RuleRec
  <2> QED BY Zenon, <1>1, <2>1, <2>5, StoredLast
<1> QED BY Zenon, <1>4, <1>5, <1>6

\* A rule whose block ends is complete.
LEMMA StoredEnd ==
    ASSUME Stored, scope = "RULE" => RuleComplete(Last(rules)), ParseEnd
    PROVE  Stored'
<1>1. scope' = (IF scope = "RULE" THEN "PROXY" ELSE "DEFAULT") /\ conf' = conf /\ proxies' = proxies /\ rules' = rules
  BY Zenon DEF ParseEnd
<1>2. \A i \in 1 .. Len(rules) : RuleComplete(rules[i])
  BY Zenon DEF Stored, Last
<1> QED BY Zenon, <1>1, <1>2 DEF Stored, RuleComplete

\* Whatever is accepted, what is stored stays sound.
LEMMA StoredReads ==
    ASSUME Stored, NEW x \in Items, Accepted(x), x.key # "EOF", IF x.key = "END" THEN ParseEnd ELSE ParseEntry(x)
    PROVE  Stored'
<1>1. CASE x.key = "END"
  <2>1. scope = "RULE" => RuleComplete(Last(rules))
    BY SMT, <1>1 DEF Accepted
  <2> QED BY Zenon, <1>1, <2>1, StoredEnd
<1>2. CASE x.key # "END"
  <2>1. ParseEntry(x) /\ conf \in ConfRec
    BY Zenon, <1>2 DEF Stored
  <2>2. CASE ConfEntry(x)
    BY Zenon, <2>2 DEF ConfEntry, Stored, RuleComplete
  <2> QED BY Zenon, <1>2, <2>1, <2>2, EntryStep, StoredProxy, StoredRule, StoredProxyField, StoredInRule
<1> QED BY Zenon, <1>1, <1>2

\* The defaults are in range, and the lists are empty.
LEMMA SoundInit == Init => Sound
<1> SUFFICES ASSUME Init PROVE Sound
  OBVIOUS
<1>1. Defaults \in ConfRec
  BY SMT DEF Defaults, ConfRec
<1>2. proxies = <<>> /\ rules = <<>> /\ scope = "DEFAULT" /\ stage = "parsing" /\ conf = Defaults
  BY Zenon DEF Init
<1> HIDE DEF Defaults
<1>3. /\ proxies \in Seq(ProxyRec) /\ rules \in Seq(RuleRec) /\ 1 .. Len(proxies) = {} /\ 1 .. Len(rules) = {}
      /\ scope # "RULE" /\ scope \in {"DEFAULT", "PROXY", "RULE"}
  BY SMT, <1>2
<1>4. Stored
  BY Zenon, <1>1, <1>2, <1>3 DEF Stored
<1>5. ~Through /\ stage # "started" /\ stage \in {"parsing", "failed", "loaded", "refused", "started"}
  BY SMT, <1>2 DEF Through
<1> QED BY Zenon, <1>4, <1>5 DEF Sound

\* Nothing is stored.
LEMMA StoredSame ==
    ASSUME Stored, UNCHANGED <<scope, conf, proxies, rules>>
    PROVE  Stored'
BY Zenon DEF Stored, RuleComplete

\* Every step keeps what is stored sound.
LEMMA SoundNext == Sound /\ [Next]_vars => Sound'
<1> SUFFICES ASSUME Sound, [Next]_vars PROVE Sound'
  OBVIOUS
<1> USE DEF Through
<1>1. ASSUME NEW x \in Items, ndL_parse_block(x) PROVE Sound'
  <2>1. stage = "parsing" /\ Stored
    BY Zenon, <1>1 DEF ndL_parse_block, Sound
  <2>2. CASE stage' = "failed" /\ UNCHANGED <<scope, conf, proxies, rules>>
    BY Zenon, <2>1, <2>2, StoredSame DEF Sound
  <2>3. CASE Accepted(x) /\ x.key = "EOF" /\ stage' = "loaded" /\ UNCHANGED <<scope, conf, proxies, rules>>
    <3>1. scope = "DEFAULT"
      BY SMT, <2>3 DEF Accepted
    <3> QED BY Zenon, <2>1, <2>3, <3>1, StoredSame DEF Sound
  <2>4. CASE Accepted(x) /\ x.key # "EOF" /\ (IF x.key = "END" THEN ParseEnd ELSE ParseEntry(x)) /\ UNCHANGED stage
    <3>1. Stored'
      BY Zenon, <2>1, <2>4, StoredReads
    <3> QED BY Zenon, <2>1, <2>4, <3>1 DEF Sound
  <2> QED BY Zenon, <1>1, <2>2, <2>3, <2>4 DEF ndL_parse_block
<1>2. CASE LoadFails
  BY Zenon, <1>2, StoredSame DEF Sound, LoadFails
<1>3. ASSUME NEW opens \in BOOLEAN, nd_proxy_startup(opens) PROVE Sound'
  <2>1. stage = "loaded" /\ Stored /\ scope = "DEFAULT" /\ UNCHANGED <<text, scope, conf, proxies, rules>>
    BY Zenon, <1>3 DEF nd_proxy_startup, Sound
  <2>2. Stored' /\ scope' = "DEFAULT"
    BY Zenon, <2>1, StoredSame
  <2>3. CASE Startable /\ opens
    <3>1. stage' = "started" /\ refs' = Held
      BY Zenon, <1>3, <2>3 DEF nd_proxy_startup, Held
    <3>2. Startable' /\ Held' = Held
      BY Zenon, <2>1, <2>3 DEF Startable, RulesOf, Held
    <3> QED BY Zenon, <2>2, <3>1, <3>2 DEF Sound
  <2>4. CASE ~(Startable /\ opens)
    <3>1. stage' = "refused"
      BY Zenon, <1>3, <2>4 DEF nd_proxy_startup
    <3> QED BY Zenon, <2>2, <3>1 DEF Sound
  <2> QED BY Zenon, <2>3, <2>4
<1>4. CASE UNCHANGED vars
  <2>1. UNCHANGED <<scope, conf, proxies, rules>> /\ stage' = stage /\ refs' = refs
    BY Zenon, <1>4 DEF vars
  <2>2. Stored'
    BY Zenon, <2>1, StoredSame DEF Sound
  <2>3. (Startable <=> Startable') /\ Held' = Held
    BY Zenon, <2>1 DEF Startable, RulesOf, Held
  <2> QED BY Zenon, <2>1, <2>2, <2>3 DEF Sound
<1> QED BY Zenon, <1>1, <1>2, <1>3, <1>4 DEF Next

\* Of two sets of places, one of them not empty, some are counted.
LEMMA CountPositive ==
    ASSUME NEW m \in Nat, NEW S \in SUBSET (1 .. m), NEW n \in Nat, NEW T \in SUBSET (1 .. n), S # {} \/ T # {}
    PROVE  Cardinality(S) + Cardinality(T) > 0
<1>1. IsFiniteSet(1 .. m) /\ IsFiniteSet(1 .. n)
  BY FS_Interval
<1>2. IsFiniteSet(S) /\ IsFiniteSet(T)
  BY Zenon, <1>1, FS_Subset
<1>3. Cardinality(S) \in Nat /\ Cardinality(T) \in Nat /\ (Cardinality(S) # 0 \/ Cardinality(T) # 0)
  BY Zenon, <1>2, FS_CardinalityType, FS_EmptySet
<1> QED BY SMT, <1>3

\* What nd_proxy_startup leaves to the session table is what it relies on.
LEMMA SoundUsable == Sound => UsableBySessions
<1> SUFFICES ASSUME Sound, stage = "started" PROVE UsableBySessions
  BY Zenon DEF UsableBySessions
<1>1. Stored /\ scope = "DEFAULT" /\ Startable /\ refs = Held
  BY Zenon DEF Sound, Through
<1>2. /\ proxies \in Seq(ProxyRec) /\ rules \in Seq(RuleRec)
      /\ Len(proxies) \in Nat /\ DOMAIN proxies = 1 .. Len(proxies)
      /\ Len(rules) \in Nat /\ DOMAIN rules = 1 .. Len(rules)
      /\ \A i \in DOMAIN proxies : proxies[i] \in ProxyRec
      /\ \A i \in DOMAIN rules : rules[i] \in RuleRec
  BY SMT, <1>1 DEF Stored
<1>3. ASSUME NEW n \in Names,
             (\E i \in DOMAIN proxies : proxies[i].ifname = n) \/ (\E i \in DOMAIN rules : rules[i].ifname = n)
      PROVE  refs[n] > 0
  <2> DEFINE S == {i \in DOMAIN proxies : proxies[i].ifname = n}
             T == {i \in DOMAIN rules : rules[i].ifname = n}
  <2>1. refs[n] = Cardinality(S) + Cardinality(T)
    BY Zenon, <1>1 DEF Held
  <2>2. S \in SUBSET (1 .. Len(proxies)) /\ T \in SUBSET (1 .. Len(rules)) /\ (S # {} \/ T # {})
    BY Zenon, <1>2, <1>3
  <2> HIDE DEF S, T
  <2> QED BY Zenon, <1>2, <2>1, <2>2, CountPositive
<1>4. proxies # <<>> /\ \A i \in DOMAIN proxies : RulesOf(proxies[i]) # {}
  BY Zenon, <1>1 DEF Startable
<1>5. \A i \in DOMAIN proxies : refs[proxies[i].ifname] > 0
  <2>1. \A i \in DOMAIN proxies : proxies[i].ifname \in Names
    BY SMT, <1>2 DEF ProxyRec
  <2> QED BY Zenon, <1>3, <2>1
<1>6. \A i, j \in DOMAIN proxies : proxies[i].ifname = proxies[j].ifname => i = j
  BY Zenon, <1>1, <1>2 DEF Stored
<1>7. ASSUME NEW i \in DOMAIN rules
      PROVE  /\ rules[i].mode \in {"STATIC", "IFACE", "AUTO"}
             /\ rules[i].mode = "IFACE" <=> rules[i].ifname # None
             /\ rules[i].ifname # None => refs[rules[i].ifname] > 0
             /\ rules[i].autowire => rules[i].mode = "IFACE"
             /\ rules[i].prefix \in 0 .. 128 /\ rules[i].rewrite_pflen \in 0 .. 128
             /\ rules[i].table \in 0 .. 255
  <2>1. RuleComplete(rules[i])
    BY Zenon, <1>1, <1>2 DEF Stored
  <2>2. PICK r : r = rules[i]
    BY Zenon
  <2>3. r \in RuleRec
    BY Zenon, <1>2, <2>2
  <2>4. /\ r.mode \in {"UNKNOWN", "AUTO", "STATIC", "IFACE"} /\ r.ifname \in Names \cup {None}
        /\ r.prefix \in 0 .. 128 /\ r.rewrite_pflen \in 0 .. 128 /\ r.table \in 0 .. 255
        /\ r.mode = "IFACE" <=> r.ifname # None
    BY SMT, <2>3 DEF RuleRec, RuleFields
  <2>5. r.mode # "UNKNOWN" /\ (r.autowire => r.mode = "IFACE")
    BY Zenon, <2>1, <2>2 DEF RuleComplete
  <2>6. r.ifname # None => refs[r.ifname] > 0
    BY Zenon, <1>3, <2>2, <2>4
  <2> QED BY Zenon, <2>2, <2>4, <2>5, <2>6
<1>8. conf.valid_ttl > 0 /\ conf.invalid_ttl > 0 /\ conf.retrans_time >= 0 /\ conf.retrans_limit >= 0
  BY SMT, <1>1 DEF Stored, ConfRec
<1> QED BY Zenon, <1>4, <1>5, <1>6, <1>7, <1>8 DEF UsableBySessions

\* Whatever the file: a daemon that gets through nd_proxy_startup has proxies with rules,
\* one proxy for an interface, a mode for every rule that agrees with its interface and
\* its autowire, values in range and a reference on every interface that is named.
THEOREM UsableBySessionsThm == Spec => []UsableBySessions
BY SoundInit, SoundNext, SoundUsable, PTL DEF Spec

----------------------------------------------------------------------------
(* The places of the blocks in the lists. *)

\* The places before the i-th with the given key.
Ahead(i, key) == {j \in 1 .. i - 1 : text[j].key = key}

\* The items counted by Before are finitely many.
LEMMA AheadIs ==
    ASSUME text \in Seq(Items), NEW key, NEW i \in 1 .. Len(text) + 1
    PROVE  IsFiniteSet(Ahead(i, key)) /\ Before(i, key) = Cardinality(Ahead(i, key)) /\ Before(i, key) \in Nat
<1>1. IsFiniteSet(1 .. i - 1) /\ Ahead(i, key) \in SUBSET (1 .. i - 1)
  <2>1. 1 \in Int /\ i - 1 \in Int
    BY SMT
  <2>2. IsFiniteSet(1 .. i - 1)
    BY Zenon, <2>1, FS_Interval
  <2> QED BY Zenon, <2>2 DEF Ahead
<1>2. IsFiniteSet(Ahead(i, key))
  BY Zenon, <1>1, FS_Subset
<1>3. Before(i, key) = Cardinality(Ahead(i, key))
  BY Zenon DEF Before, Ahead
<1> QED BY Zenon, <1>2, <1>3, FS_CardinalityType

\* Past an item with the key the count is greater.
LEMMA BeforeGrows ==
    ASSUME text \in Seq(Items), NEW key, NEW i \in At(key), NEW j \in 1 .. Len(text) + 1, i < j
    PROVE  Before(i, key) \in Nat /\ Before(j, key) \in Nat /\ Before(i, key) + 1 <= Before(j, key)
<1>1. i \in 1 .. Len(text) /\ i \in 1 .. Len(text) + 1 /\ text[i].key = key
  BY DEF At
<1>2. /\ IsFiniteSet(Ahead(i, key)) /\ Before(i, key) = Cardinality(Ahead(i, key)) /\ Before(i, key) \in Nat
      /\ IsFiniteSet(Ahead(j, key)) /\ Before(j, key) = Cardinality(Ahead(j, key)) /\ Before(j, key) \in Nat
  BY Zenon, <1>1, AheadIs
<1>3. i \notin Ahead(i, key) /\ Ahead(i, key) \cup {i} \subseteq Ahead(j, key)
  BY <1>1 DEF Ahead
<1>4. Cardinality(Ahead(i, key) \cup {i}) = Cardinality(Ahead(i, key)) + 1
  BY Zenon, <1>2, <1>3, FS_AddElement
<1>5. Cardinality(Ahead(i, key) \cup {i}) <= Cardinality(Ahead(j, key))
  BY Zenon, <1>2, <1>3, FS_Subset
<1> QED BY Zenon, <1>2, <1>4, <1>5

\* Past the last item with the key the count is complete.
LEMMA BeforeNewest ==
    ASSUME text \in Seq(Items), NEW key, NEW i \in At(key), Newest(i, key)
    PROVE  Before(i, key) + 1 = Before(Len(text) + 1, key)
<1>1. i \in 1 .. Len(text) /\ i \in 1 .. Len(text) + 1 /\ Len(text) + 1 \in 1 .. Len(text) + 1 /\ text[i].key = key
  BY DEF At
<1>2. /\ IsFiniteSet(Ahead(i, key)) /\ Before(i, key) = Cardinality(Ahead(i, key))
      /\ Before(Len(text) + 1, key) = Cardinality(Ahead(Len(text) + 1, key))
  BY Zenon, <1>1, AheadIs
<1>3. i \notin Ahead(i, key) /\ Ahead(Len(text) + 1, key) = Ahead(i, key) \cup {i}
  <2>1. \A j \in 1 .. Len(text) : text[j].key = key => j <= i
    BY DEF At, Newest
  <2> QED BY <1>1, <2>1 DEF Ahead
<1>4. Cardinality(Ahead(i, key) \cup {i}) = Cardinality(Ahead(i, key)) + 1
  BY Zenon, <1>2, <1>3, FS_AddElement
<1> QED BY Zenon, <1>2, <1>3, <1>4

\* The complete count is the number of items with the key.
LEMMA BeforeAll ==
    ASSUME text \in Seq(Items), NEW key
    PROVE  Before(Len(text) + 1, key) = Cardinality(At(key))
<1>1. 1 .. (Len(text) + 1) - 1 = DOMAIN text
  OBVIOUS
<1> QED BY Zenon, <1>1 DEF Before, At

\* The blocks of a kind have different places in their list, the newest has the last.
LEMMA PlaceIs ==
    ASSUME text \in Seq(Items), NEW key, NEW i \in At(key)
    PROVE  /\ Before(i, key) + 1 \in 1 .. Before(Len(text) + 1, key)
           /\ Before(i, key) + 1 = Before(Len(text) + 1, key) <=> Newest(i, key)
           /\ \A j \in At(key) : Before(i, key) = Before(j, key) => i = j
<1>1. /\ At(key) \subseteq 1 .. Len(text) /\ Len(text) \in Nat
      /\ \A j \in At(key) : j \in 1 .. Len(text) + 1 /\ j < Len(text) + 1
  BY DEF At
<1>2. /\ Before(i, key) \in Nat /\ Before(Len(text) + 1, key) \in Nat
      /\ Before(i, key) + 1 <= Before(Len(text) + 1, key)
  <2>1. Len(text) + 1 \in 1 .. Len(text) + 1
    BY <1>1
  <2> QED BY Zenon, <1>1, <2>1, BeforeGrows
<1>3. ASSUME ~Newest(i, key) PROVE Before(i, key) + 1 # Before(Len(text) + 1, key)
  <2>1. PICK j \in At(key) : ~(j <= i)
    BY Zenon, <1>3 DEF Newest
  <2>2. i < j
    BY <1>1, <2>1
  <2>3. Before(i, key) + 1 <= Before(j, key)
    BY Zenon, <1>1, <2>2, BeforeGrows
  <2>4. Before(j, key) \in Nat /\ Before(j, key) + 1 <= Before(Len(text) + 1, key)
    <3>1. Len(text) + 1 \in 1 .. Len(text) + 1
      BY <1>1
    <3> QED BY Zenon, <1>1, <3>1, BeforeGrows
  <2> QED BY <1>2, <2>3, <2>4
<1>4. ASSUME NEW j \in At(key), Before(i, key) = Before(j, key) PROVE i = j
  <2>1. CASE i < j
    <3>1. Before(j, key) \in Nat /\ Before(i, key) + 1 <= Before(j, key)
      BY Zenon, <1>1, <2>1, BeforeGrows
    <3> QED BY <1>4, <3>1
  <2>2. CASE j < i
    <3>1. Before(j, key) \in Nat /\ Before(j, key) + 1 <= Before(i, key)
      BY Zenon, <1>1, <2>2, BeforeGrows
    <3> QED BY <1>4, <3>1
  <2>3. i < j \/ j < i \/ i = j
    BY <1>1
  <2> QED BY Zenon, <2>1, <2>2, <2>3
<1>5. Before(i, key) + 1 \in 1 .. Before(Len(text) + 1, key)
  BY <1>2
<1> QED BY Zenon, <1>3, <1>4, <1>5, BeforeNewest

----------------------------------------------------------------------------
(* The blocks that are open. *)

\* The item that comes next stands in the scope.
LEMMA ScopeIs ==
    ASSUME NEW n, NEW x, Reads(n, x), Nested
    PROVE  /\ Depth(n + 1) = Level /\ Depth(n + 1)' = Level /\ Level \in 0 .. 2
           /\ ScopeAt(n + 1)' = scope
           /\ \A i \in 1 .. n : ScopeAt(i)' = ScopeAt(i)
<1>1. n \in Nat /\ Len(text) = n
  BY Zenon, TextReads DEF Reads
<1>2. n + 1 \in 1 .. n + 1 /\ \A i \in 1 .. n : i \in 1 .. n + 1
  BY <1>1
<1>3. Depth(n + 1) = Level /\ Depth(n + 1)' = Depth(n + 1) /\ \A i \in 1 .. n : Depth(i)' = Depth(i)
  BY Zenon, <1>1, <1>2, DepthReads DEF Nested
<1>4. Level \in 0 .. 2 /\ <<"DEFAULT", "PROXY", "RULE">>[Level + 1] = scope
  BY SMT DEF Level, Nested
<1> QED BY Zenon, <1>3, <1>4 DEF ScopeAt

\* Proxies stand outside of blocks, rules in one.
LEMMA HeadDepth ==
    ASSUME text \in Seq(Items), WellBegun
    PROVE  /\ \A i \in At("proxy") : Depth(i) = 0 /\ text[i].arg.kind = "name"
           /\ \A i \in At("rule") : Depth(i) = 1
<1>1. ASSUME NEW i \in DOMAIN text, text[i].key \in {"proxy", "rule"}
      PROVE  /\ Depth(i) = IF text[i].key = "proxy" THEN 0 ELSE 1
             /\ text[i].key = "proxy" => text[i].arg.kind = "name"
  <2>1. ItemOK(i) /\ text[i].key # "EOF" /\ text[i].key # "END"
    BY Zenon, <1>1 DEF WellBegun
  <2>2. Depth(i) \in 0 .. 2
    BY Zenon, <2>1 DEF ItemOK
  <2>3. PICK t \in ndL_cfinfo_table : t.key = text[i].key /\ t.scope = ScopeAt(i) /\ Fits(text[i], t)
    BY Zenon, <2>1 DEF ItemOK
  <2>4. /\ t.scope = IF text[i].key = "proxy" THEN "DEFAULT" ELSE "PROXY"
        /\ text[i].key = "proxy" => t.type = "PROXY"
    BY SMTT(20), <1>1, <2>3, RowIs DEF OneOfRows
  <2>5. text[i].key = "proxy" => text[i].arg.kind = "name"
    BY Zenon, <2>3, <2>4 DEF Fits, ndL_accept_name
  <2>6. Depth(i) = IF text[i].key = "proxy" THEN 0 ELSE 1
    <3>1. <<"DEFAULT", "PROXY", "RULE">>[Depth(i) + 1] = IF text[i].key = "proxy" THEN "DEFAULT" ELSE "PROXY"
      BY Zenon, <2>3, <2>4 DEF ScopeAt
    <3> QED BY SMT, <2>2, <3>1
  <2> QED BY Zenon, <2>5, <2>6
<1> QED BY Zenon, <1>1 DEF At

\* What is read joins the proxy or the rule that the scope stands for.
LEMMA JoinsIs ==
    ASSUME NEW n, NEW x, Reads(n, x), Nested, WellBegun
    PROVE  /\ \A i \in At("proxy") : Joins(i, n) <=> scope = "PROXY" /\ Newest(i, "proxy")
           /\ \A i \in At("rule") : Joins(i, n) <=> scope = "RULE" /\ Newest(i, "rule")
<1>1. Depth(n + 1) = Level
  BY Zenon, ScopeIs
<1>2. /\ \A i \in At("proxy") : Depth(i) = 0
      /\ \A i \in At("rule") : Depth(i) = 1
  BY Zenon, HeadDepth DEF Reads
<1>3. (Level = 0 + 1 <=> scope = "PROXY") /\ (Level = 1 + 1 <=> scope = "RULE")
  BY SMT DEF Level, Nested
<1>4. \A i \in At("proxy") : Open(i) <=> scope # "DEFAULT" /\ Newest(i, "proxy")
  BY Zenon DEF Nested
<1>5. \A i \in At("rule") : Open(i) <=> scope = "RULE" /\ Newest(i, "rule")
  BY Zenon DEF Nested
<1>6. ASSUME NEW i \in At("proxy") PROVE Joins(i, n) <=> scope = "PROXY" /\ Newest(i, "proxy")
  BY Zenon, <1>1, <1>2, <1>3, <1>4 DEF Joins
<1>7. ASSUME NEW i \in At("rule") PROVE Joins(i, n) <=> scope = "RULE" /\ Newest(i, "rule")
  BY Zenon, <1>1, <1>2, <1>3, <1>5 DEF Joins
<1> QED BY Zenon, <1>6, <1>7

\* The newest block of a kind, once one more item is read.
LEMMA NewestReads ==
    ASSUME NEW n, NEW x, Reads(n, x), NEW key
    PROVE  /\ \A i \in At(key) : Newest(i, key)' <=> Newest(i, key) /\ x.key # key
           /\ x.key = key => Newest(n + 1, key)'
<1>1. n \in Nat
  BY Zenon, TextReads
<1>2. At(key) \in SUBSET (1 .. n) /\ At(key)' = IF x.key = key THEN At(key) \cup {n + 1} ELSE At(key)
  BY Zenon, AtReads
<1>3. \A i \in 1 .. n : ~(n + 1 <= i) /\ i <= n + 1
  BY <1>1
<1>4. n + 1 <= n + 1
  BY <1>1
<1> QED BY Zenon, <1>2, <1>3, <1>4 DEF Newest

\* How an item that is accepted moves the scope.
Moves(x) ==
    \/ x.key = "proxy" /\ scope = "DEFAULT" /\ scope' = "PROXY"
    \/ x.key = "rule" /\ scope = "PROXY" /\ scope' = "RULE"
    \/ x.key = "END" /\ scope = "PROXY" /\ scope' = "DEFAULT"
    \/ x.key = "END" /\ scope = "RULE" /\ scope' = "PROXY"
    \/ x.key \notin {"proxy", "rule", "END"} /\ scope' = scope

\* The scope goes on standing for the blocks that are open.
LEMMA NestedReads ==
    ASSUME NEW n, NEW x, Reads(n, x), Nested, WellBegun, Moves(x)
    PROVE  Nested'
<1>1. n \in Nat /\ Len(text) = n /\ Len(text') = n + 1
  BY Zenon, TextReads DEF Reads
<1>2. n + 1 \in 1 .. n + 1 /\ (n + 1) + 1 = n + 2 /\ \A i \in 1 .. n : i < n + 1
  BY <1>1
<1>3. scope \in {"DEFAULT", "PROXY", "RULE"} /\ scope' \in {"DEFAULT", "PROXY", "RULE"}
  BY SMT DEF Nested, Moves
<1>4. Depth(n + 2)' = Level'
  <2>1. Depth(n + 2)' = Depth(n + 1) + (IF x.key \in {"proxy", "rule"} THEN 1 ELSE IF x.key = "END" THEN -1 ELSE 0)
    BY Zenon, DepthReads
  <2>2. Depth(n + 1) = Level
    BY Zenon, ScopeIs
  <2> QED BY SMT, <1>3, <2>1, <2>2 DEF Level, Moves
<1>5. /\ Level' > 0 <=> scope' # "DEFAULT"
      /\ Level' > 1 <=> scope' = "RULE"
  BY SMT, <1>3 DEF Level
<1>6. /\ scope' # "DEFAULT" => (scope # "DEFAULT" <=> x.key # "proxy")
      /\ scope' = "RULE" => (scope = "RULE" <=> x.key # "rule")
      /\ x.key = "proxy" => scope = "DEFAULT" /\ scope' = "PROXY"
      /\ x.key = "rule" => scope = "PROXY" /\ scope' = "RULE"
      /\ scope = "RULE" => (scope' # "RULE" <=> x.key = "END")
  BY SMT DEF Moves
<1>7. /\ \A i \in At("proxy") : Depth(i) = 0
      /\ \A i \in At("rule") : Depth(i) = 1
  BY Zenon, HeadDepth DEF Reads
<1>8. /\ \A i \in 1 .. n : Open(i)' <=> Open(i) /\ Depth(n + 2)' > Depth(i)
      /\ Open(n + 1)' <=> Depth(n + 2)' > Depth(n + 1)
  BY Zenon, OpenReads
<1>9. \A key : At(key) \in SUBSET (1 .. n) /\ At(key)' = IF x.key = key THEN At(key) \cup {n + 1} ELSE At(key)
  BY Zenon, AtReads
<1>10. \A key : /\ \A i \in At(key) : Newest(i, key)' <=> Newest(i, key) /\ x.key # key
                /\ x.key = key => Newest(n + 1, key)'
  BY Zenon, NewestReads
<1>11. x.key \in {"proxy", "rule"} => Open(n + 1)'
  <2>1. Depth(n + 1) = Level
    BY Zenon, ScopeIs
  <2>2. x.key \in {"proxy", "rule"} => Level' > Level
    BY SMT, <1>3, <1>6 DEF Level
  <2> QED BY Zenon, <1>4, <1>8, <2>1, <2>2
<1>12. ASSUME NEW i \in At("proxy")' PROVE Open(i)' <=> scope' # "DEFAULT" /\ Newest(i, "proxy")'
  <2>1. CASE i \in At("proxy")
    <3>1. Open(i) <=> scope # "DEFAULT" /\ Newest(i, "proxy")
      BY Zenon, <2>1 DEF Nested
    <3>2. Open(i)' <=> Open(i) /\ scope' # "DEFAULT"
      BY Zenon, <1>4, <1>5, <1>7, <1>8, <1>9, <2>1
    <3> QED BY Zenon, <1>6, <1>10, <2>1, <3>1, <3>2
  <2>2. CASE i \notin At("proxy")
    <3>1. i = n + 1 /\ x.key = "proxy"
      BY Zenon, <1>9, <1>12, <2>2
    <3> QED BY Zenon, <1>6, <1>10, <1>11, <3>1
  <2> QED BY Zenon, <2>1, <2>2
<1>13. ASSUME NEW i \in At("rule")' PROVE Open(i)' <=> scope' = "RULE" /\ Newest(i, "rule")'
  <2>1. CASE i \in At("rule")
    <3>1. Open(i) <=> scope = "RULE" /\ Newest(i, "rule")
      BY Zenon, <2>1 DEF Nested
    <3>2. Open(i)' <=> Open(i) /\ scope' = "RULE"
      BY Zenon, <1>4, <1>5, <1>7, <1>8, <1>9, <2>1
    <3> QED BY Zenon, <1>6, <1>10, <2>1, <3>1, <3>2
  <2>2. CASE i \notin At("rule")
    <3>1. i = n + 1 /\ x.key = "rule"
      BY Zenon, <1>9, <1>13, <2>2
    <3> QED BY Zenon, <1>6, <1>10, <1>11, <3>1
  <2> QED BY Zenon, <2>1, <2>2
<1>14. ASSUME NEW i \in At("rule")' PROVE Open(i)' <=> Within(i, "END")' = {}
  <2>1. CASE i \in At("rule")
    <3>1. /\ Within(i, "END")' = IF x.key = "END" /\ Joins(i, n) THEN Within(i, "END") \cup {n + 1} ELSE Within(i, "END")
          /\ Joins(i, n) <=> scope = "RULE" /\ Newest(i, "rule")
      BY Zenon, <1>9, <2>1, WithinReads, JoinsIs
    <3>2. Open(i) <=> Within(i, "END") = {}
      BY Zenon, <2>1 DEF Nested
    <3>3. Open(i) <=> scope = "RULE" /\ Newest(i, "rule")
      BY Zenon, <2>1 DEF Nested
    <3>4. Open(i)' <=> Open(i) /\ scope' = "RULE"
      BY Zenon, <1>4, <1>5, <1>7, <1>8, <1>9, <2>1
    <3> QED BY Zenon, <1>6, <3>1, <3>2, <3>3, <3>4
  <2>2. CASE i \notin At("rule")
    <3>1. i = n + 1 /\ x.key = "rule"
      BY Zenon, <1>9, <1>14, <2>2
    <3>2. Within(n + 1, "END")' = {}
      BY Zenon, WithinReads
    <3> QED BY Zenon, <1>11, <3>1, <3>2
  <2> QED BY Zenon, <2>1, <2>2
<1>15. \A i \in At("rule")' : \E j \in At("proxy")' : j < i
  <2>1. \A i \in At("rule") : \E j \in At("proxy")' : j < i
    BY Zenon, <1>9 DEF Nested
  <2>2. x.key = "rule" => \E j \in At("proxy")' : j < n + 1
    BY Zenon, <1>2, <1>6, <1>9 DEF Nested
  <2> QED BY Zenon, <1>9, <2>1, <2>2
<1>16. scope' # "DEFAULT" => \E i \in At("proxy")' : Newest(i, "proxy")'
  BY Zenon, <1>6, <1>9, <1>10 DEF Nested
<1>17. scope' = "RULE" => \E i \in At("rule")' : Newest(i, "rule")'
  BY Zenon, <1>6, <1>9, <1>10 DEF Nested
<1>18. Depth(Len(text) + 1)' = Level'
  <2>1. (Len(text) + 1)' = n + 2
    BY <1>1
  <2> QED BY Zenon, <1>4, <2>1 DEF Depth, Before
<1> QED BY Zenon, <1>3, <1>12, <1>13, <1>14, <1>15, <1>16, <1>17, <1>18 DEF Nested

----------------------------------------------------------------------------
(* The parser accepts what can continue a well-formed file. *)

\* The item is known in the scope, and its value in range.
ItemFits(x) ==
    IF x.key = "EOF" THEN scope = "DEFAULT"
    ELSE x.ok /\ IF x.key = "END" THEN scope # "DEFAULT" ELSE \E t \in Rows(x) : Fits(x, t)

\* All items are right where they stand iff the new one fits in the scope.
LEMMA ItemsRead ==
    ASSUME NEW n, NEW x, Reads(n, x), Unfinished, Nested, WellBegun
    PROVE  (\A i \in DOMAIN text : ItemOK(i))' <=> ItemFits(x)
<1>1. /\ n \in Nat /\ Len(text) = n /\ Len(text') = n + 1 /\ text'[n + 1] = x /\ \A i \in 1 .. n : text'[i] = text[i]
      /\ DOMAIN text = 1 .. n /\ DOMAIN text' = (1 .. n) \cup {n + 1}
  BY DEF Reads
<1>2. /\ Depth(n + 1)' = Level /\ Level \in 0 .. 2
      /\ ScopeAt(n + 1)' = scope
      /\ \A i \in 1 .. n : ScopeAt(i)' = ScopeAt(i)
  BY Zenon, ScopeIs
<1>3. \A i \in 1 .. n : Depth(i)' = Depth(i)
  <2>1. \A i \in 1 .. n : i \in 1 .. n + 1
    BY <1>1
  <2> QED BY Zenon, <2>1, DepthReads
<1>4. ASSUME NEW i \in 1 .. n PROVE ItemOK(i)'
  <2>1. ItemOK(i) /\ text[i].key # "EOF" /\ text'[i] = text[i] /\ Depth(i)' = Depth(i) /\ ScopeAt(i)' = ScopeAt(i)
    BY Zenon, <1>1, <1>2, <1>3 DEF WellBegun, Unfinished
  <2> QED BY Zenon, <2>1 DEF ItemOK, Fits
<1>5. (Level = 0 <=> scope = "DEFAULT") /\ (Level > 0 <=> scope # "DEFAULT")
  BY SMT DEF Level, Nested
<1>6. ItemOK(n + 1)' <=> ItemFits(x)
  <2>1. ItemOK(n + 1)' <=>
          IF x.key = "EOF" THEN Level = 0
          ELSE /\ x.ok
               /\ IF x.key = "END" THEN Level > 0
                  ELSE \E t \in ndL_cfinfo_table : t.key = x.key /\ t.scope = scope /\ Fits(x, t)
    BY Zenon, <1>1, <1>2 DEF ItemOK, Fits
  <2> QED BY Zenon, <1>5, <2>1 DEF ItemFits, Rows
<1> QED BY Zenon, <1>1, <1>4, <1>6

\* The proxy and the rule being parsed are the last of their lists.
LEMMA LastProxyIs ==
    ASSUME text \in Seq(Items), Nested, Loaded, NEW i \in At("proxy"), Newest(i, "proxy")
    PROVE  Before(i, "proxy") + 1 = Len(proxies) /\ proxies[Len(proxies)] = ProxyAt(i)
BY Zenon, PlaceIs DEF Loaded, LoadedProxies, LoadedRules

\* Likewise the last rule.
LEMMA LastRuleIs ==
    ASSUME text \in Seq(Items), Nested, Loaded, NEW i \in At("rule"), Newest(i, "rule")
    PROVE  Before(i, "rule") + 1 = Len(rules) /\ rules[Len(rules)] = RuleSoFar(i)
BY Zenon, PlaceIs DEF Loaded, LoadedProxies, LoadedRules

\* A proxy is accepted if no other has the same header.
LEMMA DistinctRead ==
    ASSUME NEW n, NEW x, Reads(n, x), WellBegun, Loaded, proxies \in Seq(ProxyRec), ItemFits(x)
    PROVE  (\A i, j \in At("proxy") : text[i].arg = text[j].arg => i = j)' <=>
           (x.key = "proxy" => \A k \in DOMAIN proxies : proxies[k].ifname # x.arg.val)
<1>1. /\ n \in Nat /\ text'[n + 1] = x /\ (\A i \in 1 .. n : text'[i] = text[i]) /\ text \in Seq(Items) /\ x \in Items
      /\ n + 1 \notin 1 .. n /\ \A i \in 1 .. n : text[i] \in Items
  BY DEF Reads
<1>2. At("proxy") \in SUBSET (1 .. n) /\ At("proxy")' = IF x.key = "proxy" THEN At("proxy") \cup {n + 1} ELSE At("proxy")
  BY Zenon, AtReads
<1>3. ASSUME NEW i \in At("proxy")
      PROVE  Before(i, "proxy") + 1 \in DOMAIN proxies /\ proxies[Before(i, "proxy") + 1].ifname = text[i].arg.val
  <2>1. Before(i, "proxy") + 1 \in 1 .. Before(Len(text) + 1, "proxy")
    BY Zenon, <1>1, PlaceIs
  <2>2. Before(i, "proxy") + 1 \in DOMAIN proxies
    <3>1. DOMAIN proxies = 1 .. Len(proxies)
      BY SMT
    <3> QED BY Zenon, <2>1, <3>1 DEF Loaded, LoadedProxies
  <2>3. ProxyAt(i).ifname = text[i].arg.val
    BY SMT DEF ProxyAt
  <2> QED BY Zenon, <2>2, <2>3 DEF Loaded, LoadedProxies
<1>4. ASSUME NEW k \in DOMAIN proxies PROVE \E i \in At("proxy") : proxies[k].ifname = text[i].arg.val
  <2>1. k \in 1 .. Len(proxies)
    BY SMT
  <2>2. PICK i \in At("proxy") : Before(i, "proxy") + 1 = k
    BY Zenon, <2>1 DEF Loaded, LoadedProxies
  <2> QED BY Zenon, <1>3, <2>2
<1>5. \A i \in At("proxy") : text[i].arg.kind = "name"
  BY Zenon, <1>1, HeadDepth
<1>6. x.key = "proxy" => x.arg.kind = "name"
  <2>1. SUFFICES ASSUME x.key = "proxy" PROVE x.arg.kind = "name"
    OBVIOUS
  <2>2. x.key # "EOF" /\ x.key # "END"
    BY Zenon, <2>1
  <2>3. PICK t \in Rows(x) : Fits(x, t)
    BY Zenon, <2>2 DEF ItemFits
  <2>4. t \in ndL_cfinfo_table /\ t.key = "proxy"
    BY Zenon, <2>1, <2>3 DEF Rows
  <2>5. t.type = "PROXY"
    BY SMT, <2>4, RowIs DEF OneOfRows
  <2> QED BY Zenon, <2>3, <2>5 DEF Fits, ndL_accept_name
<1>7. \A y, z \in Items : y.arg.kind = z.arg.kind /\ y.arg.val = z.arg.val => y.arg = z.arg
  <2>1. \A y \in Items : y.arg = [kind |-> y.arg.kind, val |-> y.arg.val]
    BY Zenon, ConfAssumption
  <2> QED BY Zenon, <2>1
<1>8. \A i, j \in At("proxy") : text'[i].arg = text'[j].arg => i = j
  <2>1. \A i \in At("proxy") : text'[i] = text[i]
    BY Zenon, <1>1, <1>2
  <2> QED BY Zenon, <2>1 DEF WellBegun
<1>9. CASE x.key # "proxy"
  BY Zenon, <1>2, <1>8, <1>9
<1>10. CASE x.key = "proxy"
  <2>1. (\A i, j \in At("proxy") : text[i].arg = text[j].arg => i = j)' <=> \A i \in At("proxy") : text[i].arg # x.arg
    BY Zenon, <1>1, <1>2, <1>8, <1>10
  <2>2. (\A i \in At("proxy") : text[i].arg # x.arg) <=> \A i \in At("proxy") : text[i].arg.val # x.arg.val
    <3>1. ASSUME NEW i \in At("proxy"), text[i].arg.val = x.arg.val PROVE text[i].arg = x.arg
      <4>1. text[i] \in Items /\ x \in Items /\ text[i].arg.kind = x.arg.kind
        BY Zenon, <1>1, <1>2, <1>5, <1>6, <1>10
      <4> QED BY Zenon, <1>7, <3>1, <4>1
    <3> QED BY Zenon, <3>1
  <2>3. (\A i \in At("proxy") : text[i].arg.val # x.arg.val) <=> \A k \in DOMAIN proxies : proxies[k].ifname # x.arg.val
    BY Zenon, <1>3, <1>4
  <2> QED BY Zenon, <1>10, <2>1, <2>2, <2>3
<1> QED BY Zenon, <1>9, <1>10

\* Of at most one place, any two are the same; and one more leaves one only if there was none.
LEMMA AtMostOne ==
    ASSUME NEW n \in Nat, NEW S \in SUBSET (1 .. n)
    PROVE  /\ Cardinality(S) <= 1 => \A j, k \in S : j = k
           /\ Cardinality(S \cup {n + 1}) <= 1 <=> S = {}
<1>1. IsFiniteSet(S) /\ Cardinality(S) \in Nat
  <2>1. IsFiniteSet(1 .. n)
    BY FS_Interval
  <2>2. IsFiniteSet(S)
    BY Zenon, <2>1, FS_Subset
  <2> QED BY Zenon, <2>2, FS_CardinalityType
<1>2. n + 1 \notin S
  OBVIOUS
<1>3. Cardinality(S \cup {n + 1}) = Cardinality(S) + 1
  BY Zenon, <1>1, <1>2, FS_AddElement
<1>4. Cardinality(S) = 0 <=> S = {}
  BY Zenon, <1>1, FS_EmptySet
<1>5. Cardinality(S \cup {n + 1}) <= 1 <=> S = {}
  BY SMT, <1>1, <1>3, <1>4
<1>6. ASSUME NEW j \in S, NEW k \in S, j # k PROVE ~(Cardinality(S) <= 1)
  <2>1. Cardinality({j}) = 1 /\ IsFiniteSet({j})
    BY Zenon, FS_Singleton
  <2>2. k \notin {j}
    BY Zenon, <1>6
  <2>3. Cardinality({j} \cup {k}) = Cardinality({j}) + 1
    BY Zenon, <2>1, <2>2, FS_AddElement
  <2>4. {j} \cup {k} \subseteq S
    BY Zenon
  <2>5. Cardinality({j} \cup {k}) <= Cardinality(S)
    BY Zenon, <1>1, <2>4, FS_Subset
  <2> QED BY SMT, <1>1, <2>1, <2>3, <2>5
<1> QED BY Zenon, <1>5, <1>6

\* The mode of a rule with at most one is that of its entry.
LEMMA ModeIs ==
    ASSUME text \in Seq(Items), NEW i \in At("rule"), RuleOK(i)
    PROVE  /\ RuleSoFar(i).mode = "UNKNOWN" <=> ModesOf(i) = {}
           /\ RuleSoFar(i).mode = "IFACE" <=> Within(i, "iface") # {}
           /\ RuleSoFar(i).autowire = Set(Within(i, "autowire"))
<1>1. RuleSoFar(i).mode = IF ModesOf(i) = {} THEN "UNKNOWN"
                          ELSE IF Within(i, "auto") # {} THEN "AUTO" ELSE IF Within(i, "static") # {} THEN "STATIC" ELSE "IFACE"
  BY SMT DEF RuleSoFar, RuleAt
<1>2. RuleSoFar(i).autowire = Set(Within(i, "autowire"))
  BY SMT DEF RuleSoFar, RuleAt
<1>3. Len(text) \in Nat /\ ModesOf(i) \in SUBSET (1 .. Len(text)) /\ Cardinality(ModesOf(i)) <= 1
  <2>1. Len(text) \in Nat /\ i + 1 .. Len(text) \subseteq 1 .. Len(text)
    BY DEF At
  <2> QED BY Zenon, <2>1 DEF ModesOf, Within, RuleOK
<1>4. \A j, k \in ModesOf(i) : j = k
  BY Zenon, <1>3, AtMostOne
<1>5. \A key : \A j \in Within(i, key) : text[j].key = key
  BY Zenon DEF Within
<1>6. Within(i, "iface") # {} => Within(i, "auto") = {} /\ Within(i, "static") = {}
  <2>1. \A j \in Within(i, "iface") : j \notin Within(i, "auto") /\ j \notin Within(i, "static")
    BY Zenon, <1>5
  <2>2. ASSUME NEW j \in Within(i, "iface"), NEW k \in Within(i, "auto") \cup Within(i, "static") PROVE FALSE
    <3>1. j \in ModesOf(i) /\ k \in ModesOf(i)
      BY Zenon DEF ModesOf
    <3>2. j = k
      BY Zenon, <1>4, <3>1
    <3> QED BY Zenon, <2>1, <3>2
  <2> QED BY Zenon, <2>2
<1>7. ModesOf(i) = {} <=> Within(i, "auto") = {} /\ Within(i, "static") = {} /\ Within(i, "iface") = {}
  BY Zenon DEF ModesOf
<1> QED BY SMT, <1>1, <1>2, <1>6, <1>7

ModeKeys == {"auto", "static", "iface"}

\* The modes given in a block, once one more item is read.
LEMMA ModesRead ==
    ASSUME NEW n, NEW x, Reads(n, x)
    PROVE  /\ \A i \in 1 .. n :
                /\ ModesOf(i) \in SUBSET (1 .. n)
                /\ ModesOf(i)' = IF x.key \in ModeKeys /\ Joins(i, n) THEN ModesOf(i) \cup {n + 1} ELSE ModesOf(i)
           /\ ModesOf(n + 1)' = {}
<1>1. \A key : /\ \A i \in 1 .. n :
                    /\ Within(i, key) \in SUBSET (1 .. n)
                    /\ Within(i, key)' = IF x.key = key /\ Joins(i, n) THEN Within(i, key) \cup {n + 1} ELSE Within(i, key)
               /\ Within(n + 1, key)' = {}
  BY Zenon, WithinReads
<1>2. ModesOf(n + 1)' = {}
  BY Zenon, <1>1 DEF ModesOf
<1>3. ASSUME NEW i \in 1 .. n
      PROVE  /\ ModesOf(i) \in SUBSET (1 .. n)
             /\ ModesOf(i)' = IF x.key \in ModeKeys /\ Joins(i, n) THEN ModesOf(i) \cup {n + 1} ELSE ModesOf(i)
  <2>1. ModesOf(i) \in SUBSET (1 .. n)
    BY Zenon, <1>1 DEF ModesOf
  <2>2. ModesOf(i)' = Within(i, "auto")' \cup Within(i, "static")' \cup Within(i, "iface")'
    BY Zenon DEF ModesOf
  <2>3. CASE x.key \in ModeKeys /\ Joins(i, n)
    <3>1. x.key = "auto" \/ x.key = "static" \/ x.key = "iface"
      BY Zenon, <2>3 DEF ModeKeys
    <3>2. \A key : Within(i, key)' = IF x.key = key THEN Within(i, key) \cup {n + 1} ELSE Within(i, key)
      BY Zenon, <1>1, <2>3
    <3>3. ModesOf(i)' = ModesOf(i) \cup {n + 1}
      BY Zenon, <2>2, <3>1, <3>2 DEF ModesOf
    <3> QED BY Zenon, <2>1, <2>3, <3>3
  <2>4. CASE ~(x.key \in ModeKeys /\ Joins(i, n))
    <3>1. \A key \in ModeKeys : Within(i, key)' = Within(i, key)
      BY Zenon, <1>1, <2>4
    <3>2. ModesOf(i)' = ModesOf(i)
      BY Zenon, <2>2, <3>1 DEF ModesOf, ModeKeys
    <3> QED BY Zenon, <2>1, <2>4, <3>2
  <2> QED BY Zenon, <2>3, <2>4
<1> QED BY Zenon, <1>2, <1>3

\* What the parser checks of the rule it is in: a mode is the first, and a rule that ends is complete.
RuleFits(x) ==
    /\ x.key \in ModeKeys => Last(rules).mode = "UNKNOWN"
    /\ x.key = "END" /\ scope = "RULE" => RuleComplete(Last(rules))

\* A mode is known in a rule only.
LEMMA ModeInRule ==
    ASSUME NEW x, ItemFits(x), x.key \in ModeKeys
    PROVE  scope = "RULE"
<1>1. x.key # "EOF" /\ x.key # "END"
  BY Zenon DEF ModeKeys
<1>2. PICK t \in Rows(x) : Fits(x, t)
  BY Zenon, <1>1 DEF ItemFits
<1>3. t \in ndL_cfinfo_table /\ t.key = x.key /\ t.scope = scope
  BY Zenon, <1>2 DEF Rows
<1> QED BY SMT, <1>3, RowIs DEF OneOfRows, ModeKeys

\* All rules are right iff the new item fits the rule that is open.
LEMMA RulesRead ==
    ASSUME NEW n, NEW x, Reads(n, x), Nested, WellBegun, Loaded, ItemFits(x)
    PROVE  (\A i \in At("rule") : RuleOK(i))' <=> RuleFits(x)
<1>1. n \in Nat /\ text \in Seq(Items)
  BY Zenon, TextReads DEF Reads
<1>2. At("rule") \in SUBSET (1 .. n) /\ At("rule")' = IF x.key = "rule" THEN At("rule") \cup {n + 1} ELSE At("rule")
  BY Zenon, AtReads
<1>3. RuleOK(n + 1)'
  <2>1. ModesOf(n + 1)' = {} /\ Within(n + 1, "END")' = {}
    BY Zenon, ModesRead, WithinReads
  <2>2. Cardinality({}) <= 1
    BY FS_EmptySet
  <2> QED BY Zenon, <2>1, <2>2 DEF RuleOK
<1>4. ASSUME NEW i \in At("rule")
      PROVE  /\ i \in 1 .. n /\ RuleOK(i)
             /\ \A key : Within(i, key)' = IF x.key = key /\ Joins(i, n) THEN Within(i, key) \cup {n + 1} ELSE Within(i, key)
             /\ ModesOf(i) \in SUBSET (1 .. n)
             /\ ModesOf(i)' = IF x.key \in ModeKeys /\ Joins(i, n) THEN ModesOf(i) \cup {n + 1} ELSE ModesOf(i)
             /\ Joins(i, n) <=> scope = "RULE" /\ Newest(i, "rule")
             /\ ~(x.key = "autowire" /\ Joins(i, n)) => Set(Within(i, "autowire"))' = Set(Within(i, "autowire"))
             /\ scope = "RULE" /\ Newest(i, "rule") => Within(i, "END") = {}
  <2>1. i \in 1 .. n
    BY Zenon, <1>2
  <2>2. Set(Within(i, "autowire"))' = IF x.key = "autowire" /\ Joins(i, n) THEN BoolOf(x.arg) ELSE Set(Within(i, "autowire"))
    BY Zenon, <2>1, GivenReads
  <2>3. \A key : Within(i, key)' = IF x.key = key /\ Joins(i, n) THEN Within(i, key) \cup {n + 1} ELSE Within(i, key)
    BY Zenon, <2>1, WithinReads
  <2>4. /\ ModesOf(i) \in SUBSET (1 .. n)
        /\ ModesOf(i)' = IF x.key \in ModeKeys /\ Joins(i, n) THEN ModesOf(i) \cup {n + 1} ELSE ModesOf(i)
    BY Zenon, <2>1, ModesRead
  <2>5. Joins(i, n) <=> scope = "RULE" /\ Newest(i, "rule")
    BY Zenon, JoinsIs
  <2>6. RuleOK(i) /\ (scope = "RULE" /\ Newest(i, "rule") => Within(i, "END") = {})
    BY Zenon DEF WellBegun, Nested
  <2> QED BY Zenon, <2>1, <2>2, <2>3, <2>4, <2>5, <2>6
<1>5. ASSUME NEW i \in At("rule"), ~Joins(i, n) PROVE RuleOK(i)'
  <2>1. RuleOK(i) /\ ModesOf(i)' = ModesOf(i) /\ Within(i, "END")' = Within(i, "END") /\ Within(i, "iface")' = Within(i, "iface")
        /\ Set(Within(i, "autowire"))' = Set(Within(i, "autowire"))
    BY Zenon, <1>4, <1>5
  <2> QED BY Zenon, <2>1 DEF RuleOK
<1>6. ASSUME NEW i \in At("rule"), Joins(i, n) PROVE RuleOK(i)' <=> RuleFits(x)
  <2>1. scope = "RULE" /\ RuleOK(i) /\ Within(i, "END") = {} /\ Cardinality(ModesOf(i)) <= 1
    BY Zenon, <1>4, <1>6 DEF RuleOK
  <2>2. Last(rules) = RuleSoFar(i)
    BY Zenon, <1>1, <1>4, <1>6, LastRuleIs DEF Last
  <2>3. /\ Last(rules).mode = "UNKNOWN" <=> ModesOf(i) = {}
        /\ Last(rules).mode = "IFACE" <=> Within(i, "iface") # {}
        /\ Last(rules).autowire = Set(Within(i, "autowire"))
    BY Zenon, <1>1, <2>1, <2>2, ModeIs
  <2>4. CASE x.key \in ModeKeys
    <3>1. x.key # "END"
      BY Zenon, <2>4 DEF ModeKeys
    <3>2. ModesOf(i)' = ModesOf(i) \cup {n + 1} /\ Within(i, "END")' = {}
      BY Zenon, <1>4, <1>6, <2>1, <2>4, <3>1
    <3>3. Cardinality(ModesOf(i))' <= 1 <=> ModesOf(i) = {}
      BY Zenon, <1>1, <1>4, <3>2, AtMostOne
    <3>4. RuleOK(i)' <=> ModesOf(i) = {}
      BY Zenon, <3>2, <3>3 DEF RuleOK
    <3> QED BY Zenon, <2>3, <2>4, <3>1, <3>4 DEF RuleFits
  <2>5. CASE x.key = "END"
    <3>1. x.key \notin ModeKeys /\ x.key # "autowire" /\ x.key # "iface"
      BY Zenon, <2>5 DEF ModeKeys
    <3>2. /\ ModesOf(i)' = ModesOf(i) /\ Within(i, "END")' # {} /\ Within(i, "iface")' = Within(i, "iface")
          /\ Set(Within(i, "autowire"))' = Set(Within(i, "autowire"))
      BY Zenon, <1>4, <1>6, <2>5, <3>1
    <3>3. RuleOK(i)' <=> ModesOf(i) # {} /\ (Set(Within(i, "autowire")) => Within(i, "iface") # {})
      BY Zenon, <2>1, <3>2 DEF RuleOK
    <3>4. RuleComplete(Last(rules)) <=> ModesOf(i) # {} /\ (Set(Within(i, "autowire")) => Within(i, "iface") # {})
      BY Zenon, <2>3 DEF RuleComplete
    <3> QED BY Zenon, <2>1, <2>5, <3>1, <3>3, <3>4 DEF RuleFits
  <2>6. CASE x.key \notin ModeKeys /\ x.key # "END"
    <3>1. ModesOf(i)' = ModesOf(i) /\ Within(i, "END")' = {}
      BY Zenon, <1>4, <2>1, <2>6
    <3>2. RuleOK(i)'
      BY Zenon, <2>1, <3>1 DEF RuleOK
    <3> QED BY Zenon, <2>6, <3>2 DEF RuleFits
  <2> QED BY Zenon, <2>4, <2>5, <2>6
<1>7. (\A i \in At("rule") : RuleOK(i))' <=> \A i \in At("rule") : Joins(i, n) => RuleFits(x)
  BY Zenon, <1>2, <1>3, <1>5, <1>6
<1>8. scope = "RULE" => \E i \in At("rule") : Joins(i, n)
  BY Zenon, <1>4 DEF Nested
<1>9. scope # "RULE" => RuleFits(x)
  BY Zenon, ModeInRule DEF RuleFits
<1>10. scope # "RULE" => \A i \in At("rule") : ~Joins(i, n)
  BY Zenon, <1>4
<1> QED BY Zenon, <1>7, <1>8, <1>9, <1>10

\* What the parser asks of an item: that it fits, a new name, and a rule it is right for.
LEMMA AcceptedIs ==
    ASSUME NEW x
    PROVE  Accepted(x) <=>
             /\ ItemFits(x)
             /\ x.key = "proxy" => \A k \in DOMAIN proxies : proxies[k].ifname # x.arg.val
             /\ RuleFits(x)
<1>1. CASE x.key = "EOF"
  <2>1. Accepted(x) <=> scope = "DEFAULT"
    BY SMT, <1>1 DEF Accepted
  <2> QED BY Zenon, <1>1, <2>1 DEF ItemFits, RuleFits, ModeKeys
<1>2. CASE x.key = "END"
  <2>1. Accepted(x) <=> x.ok /\ scope # "DEFAULT" /\ (scope = "RULE" => RuleComplete(Last(rules)))
    BY SMT, <1>2 DEF Accepted
  <2> QED BY Zenon, <1>2, <2>1 DEF ItemFits, RuleFits, ModeKeys
<1>3. CASE x.key # "EOF" /\ x.key # "END"
  <2>1. Accepted(x) <=> x.ok /\ \E t \in Rows(x) : EntryAccepted(x, t)
    BY SMT, <1>3 DEF Accepted
  <2>2. ASSUME NEW t \in Rows(x)
        PROVE  EntryAccepted(x, t) <=>
                 /\ Fits(x, t)
                 /\ x.key = "proxy" => \A k \in DOMAIN proxies : proxies[k].ifname # x.arg.val
                 /\ x.key \in ModeKeys => Last(rules).mode = "UNKNOWN"
    <3>1. t \in ndL_cfinfo_table /\ t.key = x.key
      BY Zenon DEF Rows
    <3>2. (t.type = "PROXY" <=> x.key = "proxy") /\ (t.type = "MODE" <=> x.key \in ModeKeys)
      BY SMT, <3>1, RowIs DEF OneOfRows, ModeKeys
    <3> QED BY Zenon, <3>2 DEF EntryAccepted
  <2> QED BY Zenon, <1>3, <2>1, <2>2 DEF ItemFits, RuleFits
<1> QED BY Zenon, <1>1, <1>2, <1>3

\* The parser accepts an item if and only if a well-formed file may go on with it.
LEMMA AcceptedRead ==
    ASSUME NEW n, NEW x, Reads(n, x), Unfinished, Nested, WellBegun, Loaded, proxies \in Seq(ProxyRec)
    PROVE  WellBegun' <=> Accepted(x)
<1>1. (\A i \in DOMAIN text : ItemOK(i))' <=> ItemFits(x)
  BY Zenon, ItemsRead
<1>2. CASE ItemFits(x)
  <2>1. (\A i, j \in At("proxy") : text[i].arg = text[j].arg => i = j)' <=>
        (x.key = "proxy" => \A k \in DOMAIN proxies : proxies[k].ifname # x.arg.val)
    BY Zenon, <1>2, DistinctRead
  <2>2. (\A i \in At("rule") : RuleOK(i))' <=> RuleFits(x)
    BY Zenon, <1>2, RulesRead
  <2>3. Accepted(x) <=>
          (x.key = "proxy" => \A k \in DOMAIN proxies : proxies[k].ifname # x.arg.val) /\ RuleFits(x)
    BY Zenon, <1>2, AcceptedIs
  <2>4. WellBegun' <=>
          /\ (\A i \in DOMAIN text : ItemOK(i))'
          /\ (\A i, j \in At("proxy") : text[i].arg = text[j].arg => i = j)'
          /\ (\A i \in At("rule") : RuleOK(i))'
    BY Zenon DEF WellBegun
  <2> QED BY Zenon, <1>1, <1>2, <2>1, <2>2, <2>3, <2>4
<1>3. CASE ~ItemFits(x)
  <2>1. ~Accepted(x)
    BY Zenon, <1>3, AcceptedIs
  <2>2. ~WellBegun'
    BY Zenon, <1>1, <1>3 DEF WellBegun
  <2> QED BY Zenon, <2>1, <2>2
<1> QED BY Zenon, <1>2, <1>3

----------------------------------------------------------------------------
(* What is loaded is what is written. *)

\* BeforeReads, for the place after the last item.
LEMMA LenReads ==
    ASSUME NEW n, NEW x, Reads(n, x), NEW key
    PROVE  /\ x.key = key => Before(n + 2, key)' = Before(n + 1, key) + 1
           /\ x.key # key => Before(n + 2, key)' = Before(n + 1, key)
           /\ Before(Len(text) + 1, key)' = Before(n + 2, key)' /\ Before(Len(text) + 1, key) = Before(n + 1, key)
           /\ Before(n + 1, key) \in Nat /\ Before(n + 1, key)' = Before(n + 1, key)
           /\ \A i \in 1 .. n : Before(i, key)' = Before(i, key)
<1>1. n \in Nat /\ Len(text) = n /\ Len(text') + 1 = n + 2
  BY TextReads DEF Reads
<1>2. n + 1 \in 1 .. n + 1 /\ \A i \in 1 .. n : i \in 1 .. n + 1
  BY <1>1
<1>3. (Len(text) + 1)' = n + 2 /\ Len(text) + 1 = n + 1
  BY Zenon, <1>1
<1>4. Before(Len(text) + 1, key)' = Before(n + 2, key)'
  BY Zenon, <1>3 DEF Before
<1>5. Before(Len(text) + 1, key) = Before(n + 1, key)
  BY Zenon, <1>3
<1>6. /\ \A i \in 1 .. n + 1 : Before(i, key) \in Nat /\ Before(i, key)' = Before(i, key)
      /\ Before(n + 2, key)' = Before(n + 1, key) + (IF x.key = key THEN 1 ELSE 0)
  BY BeforeReads
<1>7. Before(n + 1, key) \in Nat /\ Before(n + 1, key)' = Before(n + 1, key)
  BY Zenon, <1>2, <1>6
<1>8. \A i \in 1 .. n : Before(i, key)' = Before(i, key)
  BY Zenon, <1>2, <1>6
<1>9. /\ x.key = key => Before(n + 2, key)' = Before(n + 1, key) + 1
      /\ x.key # key => Before(n + 2, key)' = Before(n + 1, key)
  <2>1. PICK m, l : m = Before(n + 2, key)' /\ l = Before(n + 1, key)
    BY Zenon
  <2> QED BY SMT, <1>6, <1>7, <2>1
<1> QED BY Zenon, <1>4, <1>5, <1>7, <1>8, <1>9

ProxyKeys == {"target", "router", "promiscuous"}

MadeProxy(ifname, target, router, promiscuous) ==
    [ifname |-> ifname, target |-> target, router |-> router, promiscuous |-> promiscuous]

\* What a proxy says, once one more item is read.
LEMMA ProxyAtReads ==
    ASSUME NEW n, NEW x, Reads(n, x), NEW i \in 1 .. n
    PROVE  ProxyAt(i)' = IF Joins(i, n) /\ x.key \in ProxyKeys
                         THEN [ProxyAt(i) EXCEPT ![x.key] = IF x.key = "target" THEN x.arg.val ELSE BoolOf(x.arg)]
                         ELSE ProxyAt(i)
<1>1. text'[i] = text[i]
  BY Zenon, TextReads
<1>2. \A key, d :
        /\ Given(Within(i, key), d)' = IF x.key = key /\ Joins(i, n) THEN x.arg.val ELSE Given(Within(i, key), d)
        /\ Set(Within(i, key))' = IF x.key = key /\ Joins(i, n) THEN BoolOf(x.arg) ELSE Set(Within(i, key))
  BY Zenon, GivenReads
<1>3. PICK a, t, r, p : a = text[i].arg.val /\ t = Given(Within(i, "target"), None)
                        /\ r = Set(Within(i, "router")) /\ p = Set(Within(i, "promiscuous"))
  BY Zenon
<1>4. ProxyAt(i) = MadeProxy(a, t, r, p)
  BY Zenon, <1>3 DEF ProxyAt, MadeProxy
<1>5. PICK tt, rr, pp : tt = Given(Within(i, "target"), None)' /\ rr = Set(Within(i, "router"))'
                        /\ pp = Set(Within(i, "promiscuous"))'
  BY Zenon
<1>6. ProxyAt(i)' = MadeProxy(a, tt, rr, pp)
  BY Zenon, <1>1, <1>3, <1>5 DEF ProxyAt, MadeProxy
<1>7. /\ tt = IF x.key = "target" /\ Joins(i, n) THEN x.arg.val ELSE t
      /\ rr = IF x.key = "router" /\ Joins(i, n) THEN BoolOf(x.arg) ELSE r
      /\ pp = IF x.key = "promiscuous" /\ Joins(i, n) THEN BoolOf(x.arg) ELSE p
  BY Zenon, <1>2, <1>3, <1>5
<1>8. ProxyAt(i)' = MadeProxy(a, IF x.key = "target" /\ Joins(i, n) THEN x.arg.val ELSE t,
                                 IF x.key = "router" /\ Joins(i, n) THEN BoolOf(x.arg) ELSE r,
                                 IF x.key = "promiscuous" /\ Joins(i, n) THEN BoolOf(x.arg) ELSE p)
  BY Zenon, <1>6, <1>7
<1>9. CASE ~(Joins(i, n) /\ x.key \in ProxyKeys)
  BY Zenon, <1>4, <1>8, <1>9 DEF ProxyKeys
<1>10. CASE Joins(i, n) /\ x.key \in ProxyKeys
  <2>1. CASE x.key = "target"
    <3>1. ProxyAt(i)' = MadeProxy(a, x.arg.val, r, p)
      BY SMT, <1>8, <1>10, <2>1
    <3> QED BY SMT, <1>4, <1>10, <2>1, <3>1 DEF MadeProxy
  <2>2. CASE x.key = "router"
    <3>1. ProxyAt(i)' = MadeProxy(a, t, BoolOf(x.arg), p)
      BY SMT, <1>8, <1>10, <2>2
    <3> QED BY SMT, <1>4, <1>10, <2>2, <3>1 DEF MadeProxy
  <2>3. CASE x.key = "promiscuous"
    <3>1. ProxyAt(i)' = MadeProxy(a, t, r, BoolOf(x.arg))
      BY SMT, <1>8, <1>10, <2>3
    <3> QED BY SMT, <1>4, <1>10, <2>3, <3>1 DEF MadeProxy
  <2> QED BY Zenon, <1>10, <2>1, <2>2, <2>3 DEF ProxyKeys
<1> QED BY Zenon, <1>9, <1>10

\* The proxies, after an entry that is not a proxy.
LEMMA ProxiesKept ==
    ASSUME NEW n, NEW x, Reads(n, x), Nested, WellBegun, LoadedProxies, proxies \in Seq(ProxyRec), x.key # "proxy",
           \/ proxies' = proxies /\ ~(scope = "PROXY" /\ x.key \in ProxyKeys)
           \/ ProxyField(x)
    PROVE  LoadedProxies'
<1>1. n \in Nat /\ text \in Seq(Items) /\ At("proxy") \in SUBSET (1 .. n) /\ At("proxy")' = At("proxy")
  BY Zenon, TextReads, AtReads DEF Reads
<1>2. /\ Before(Len(text) + 1, "proxy")' = Before(Len(text) + 1, "proxy")
      /\ \A i \in 1 .. n : Before(i, "proxy")' = Before(i, "proxy")
  <2>1. \A i \in 1 .. n : Before(i, "proxy")' = Before(i, "proxy")
    BY Zenon, LenReads
  <2>2. Before(Len(text) + 1, "proxy")' = Before(n + 2, "proxy")' /\ Before(Len(text) + 1, "proxy") = Before(n + 1, "proxy")
    BY Zenon, LenReads
  <2>3. x.key # "proxy" => Before(n + 2, "proxy")' = Before(n + 1, "proxy")
    BY Zenon, LenReads
  <2> QED BY Zenon, <2>1, <2>2, <2>3
<1>3. Len(proxies') = Len(proxies) /\ Len(proxies) \in Nat /\ proxies \in Seq(ProxyRec)
  <2>1. CASE ProxyField(x)
    <3>1. proxies' = [proxies EXCEPT ![Len(proxies)] = [@ EXCEPT ![x.key] = IF x.key = "target" THEN x.arg.val ELSE BoolOf(x.arg)]]
      BY Zenon, <2>1 DEF ProxyField
    <3> QED BY SMT, <3>1
  <2> QED BY SMT, <2>1
<1>4. ASSUME NEW i \in At("proxy") PROVE proxies'[Before(i, "proxy") + 1] = ProxyAt(i)'
  <2> DEFINE v == IF x.key = "target" THEN x.arg.val ELSE BoolOf(x.arg)
  <2>1. PICK b : b = Before(i, "proxy") + 1
    BY Zenon
  <2>2. b \in 1 .. Len(proxies) /\ (b = Len(proxies) <=> Newest(i, "proxy")) /\ proxies[b] = ProxyAt(i)
    BY Zenon, <1>1, <2>1, PlaceIs DEF LoadedProxies
  <2>3. Joins(i, n) <=> scope = "PROXY" /\ Newest(i, "proxy")
    BY Zenon, JoinsIs
  <2>4. i \in 1 .. n
    BY Zenon, <1>1
  <2>5. ProxyAt(i)' = IF Joins(i, n) /\ x.key \in ProxyKeys THEN [ProxyAt(i) EXCEPT ![x.key] = v] ELSE ProxyAt(i)
    BY Zenon, <2>4, ProxyAtReads
  <2>6. CASE ProxyField(x)
    <3>1. scope = "PROXY" /\ x.key \in ProxyKeys /\ proxies' = [proxies EXCEPT ![Len(proxies)] = [@ EXCEPT ![x.key] = v]]
      BY Zenon, <2>6 DEF ProxyField, ProxyKeys
    <3> HIDE DEF v
    <3>2. proxies'[b] = IF b = Len(proxies) THEN [proxies[b] EXCEPT ![x.key] = v] ELSE proxies[b]
      BY SMT, <1>3, <2>2, <3>1
    <3> QED BY Zenon, <2>1, <2>2, <2>3, <2>5, <3>1, <3>2
  <2>7. CASE proxies' = proxies /\ ~(scope = "PROXY" /\ x.key \in ProxyKeys)
    BY Zenon, <2>1, <2>2, <2>3, <2>5, <2>7
  <2> QED BY Zenon, <2>6, <2>7
<1>5. \A i \in At("proxy") : Before(i, "proxy")' = Before(i, "proxy")
  BY Zenon, <1>1, <1>2
<1>6. Len(proxies') = Before(Len(text) + 1, "proxy")'
  BY Zenon, <1>2, <1>3 DEF LoadedProxies
<1>7. \A i \in At("proxy")' : proxies'[Before(i, "proxy")' + 1] = ProxyAt(i)'
  BY Zenon, <1>1, <1>4, <1>5
<1>8. \A k \in 1 .. Len(proxies') : \E i \in At("proxy")' : Before(i, "proxy")' + 1 = k
  BY Zenon, <1>1, <1>3, <1>5 DEF LoadedProxies
<1> QED BY Zenon, <1>6, <1>7, <1>8 DEF LoadedProxies

\* The proxies, after one more.
LEMMA ProxiesMore ==
    ASSUME NEW n, NEW x, Reads(n, x), Nested, WellBegun, LoadedProxies, proxies \in Seq(ProxyRec), ProxyEntry(x)
    PROVE  LoadedProxies'
<1> DEFINE e == [ifname |-> x.arg.val, target |-> None, router |-> FALSE, promiscuous |-> FALSE]
<1>1. /\ n \in Nat /\ text \in Seq(Items) /\ text'[n + 1] = x
      /\ x.key = "proxy" /\ scope = "DEFAULT" /\ proxies' = Append(proxies, e)
  BY Zenon, TextReads DEF Reads, ProxyEntry, ndL_parse_proxy, nd_proxy_create
<1>2. At("proxy") \in SUBSET (1 .. n) /\ At("proxy")' = At("proxy") \cup {n + 1}
  BY Zenon, <1>1, AtReads
<1>3. /\ Before(Len(text) + 1, "proxy") \in Nat /\ Before(n + 1, "proxy")' = Before(Len(text) + 1, "proxy")
      /\ Before(Len(text) + 1, "proxy")' = Before(Len(text) + 1, "proxy") + 1
      /\ \A i \in 1 .. n : Before(i, "proxy")' = Before(i, "proxy")
  <2>1. Before(n + 1, "proxy") \in Nat /\ Before(n + 1, "proxy")' = Before(n + 1, "proxy")
        /\ \A i \in 1 .. n : Before(i, "proxy")' = Before(i, "proxy")
    BY Zenon, LenReads
  <2>2. Before(Len(text) + 1, "proxy")' = Before(n + 2, "proxy")' /\ Before(Len(text) + 1, "proxy") = Before(n + 1, "proxy")
    BY Zenon, LenReads
  <2>3. x.key = "proxy" => Before(n + 2, "proxy")' = Before(n + 1, "proxy") + 1
    BY Zenon, LenReads
  <2> QED BY Zenon, <1>1, <2>1, <2>2, <2>3
<1>4. ProxyAt(n + 1)' = e
  <2>1. /\ Given(Within(n + 1, "target"), None)' = None
        /\ Set(Within(n + 1, "router"))' = FALSE /\ Set(Within(n + 1, "promiscuous"))' = FALSE
    BY Zenon, GivenNew
  <2> QED BY Zenon, <1>1, <2>1 DEF ProxyAt
<1> HIDE DEF e
<1>5. /\ Len(proxies') = Len(proxies) + 1 /\ Len(proxies) \in Nat
      /\ proxies'[Len(proxies) + 1] = e /\ \A k \in 1 .. Len(proxies) : proxies'[k] = proxies[k]
  BY SMT, <1>1
<1>6. Len(proxies') = Before(Len(text) + 1, "proxy")'
  BY Zenon, <1>1, <1>3, <1>5 DEF LoadedProxies
<1>7. proxies'[Before(n + 1, "proxy")' + 1] = ProxyAt(n + 1)'
  BY Zenon, <1>3, <1>4, <1>5 DEF LoadedProxies
<1>8. ASSUME NEW i \in At("proxy") PROVE proxies'[Before(i, "proxy")' + 1] = ProxyAt(i)'
  <2>1. i \in 1 .. n /\ ~Joins(i, n) /\ Before(i, "proxy")' = Before(i, "proxy")
    BY Zenon, <1>1, <1>2, <1>3, JoinsIs
  <2>2. ProxyAt(i)' = ProxyAt(i)
    BY Zenon, <2>1, ProxyAtReads
  <2>3. Before(i, "proxy") + 1 \in 1 .. Len(proxies) /\ proxies[Before(i, "proxy") + 1] = ProxyAt(i)
    BY Zenon, <1>1, PlaceIs DEF LoadedProxies
  <2> QED BY Zenon, <1>5, <2>1, <2>2, <2>3
<1>9. ASSUME NEW k \in 1 .. Len(proxies') PROVE \E i \in At("proxy")' : Before(i, "proxy")' + 1 = k
  <2>1. k \in 1 .. Len(proxies) \/ k = Len(proxies) + 1
    BY SMT, <1>5
  <2>2. CASE k \in 1 .. Len(proxies)
    <3>1. PICK i \in At("proxy") : Before(i, "proxy") + 1 = k
      BY Zenon, <2>2 DEF LoadedProxies
    <3>2. i \in At("proxy")' /\ Before(i, "proxy")' = Before(i, "proxy")
      BY Zenon, <1>2, <1>3
    <3> QED BY Zenon, <3>1, <3>2
  <2>3. CASE k = Len(proxies) + 1
    BY Zenon, <1>2, <1>3, <2>3 DEF LoadedProxies
  <2> QED BY Zenon, <2>1, <2>2, <2>3
<1>10. \A i \in At("proxy")' : proxies'[Before(i, "proxy")' + 1] = ProxyAt(i)'
  BY Zenon, <1>2, <1>7, <1>8
<1> QED BY Zenon, <1>6, <1>9, <1>10 DEF LoadedProxies

MadeRule(proxy, addr, prefix, target, mode, ifname, autowire, table, rewrite_tgt, rewrite_pflen) ==
    [proxy |-> proxy, addr |-> addr, prefix |-> prefix, target |-> target, mode |-> mode, ifname |-> ifname,
     autowire |-> autowire, table |-> table, rewrite_tgt |-> rewrite_tgt, rewrite_pflen |-> rewrite_pflen]

ModeSoFar(i) ==
    IF ModesOf(i) = {} THEN "UNKNOWN"
    ELSE IF Within(i, "auto") # {} THEN "AUTO" ELSE IF Within(i, "static") # {} THEN "STATIC" ELSE "IFACE"

\* The fields of the rule of a block.
RuleIs(i) ==
    RuleSoFar(i) =
      MadeRule(text[Enclosing(i)].arg.val, text[i].arg.val, PrefixOf(text[i].pf),
               Given(Within(i, "target"), Inherited(i)), ModeSoFar(i), Given(Within(i, "iface"), None),
               Set(Within(i, "autowire")), Given(Within(i, "table"), 254),
               Given(Within(i, "rewrite"), None), GivenPrefix(Within(i, "rewrite")))

\* The rule of a block has the fields that the block gives it.
LEMMA RuleSoFarIs == \A i : RuleIs(i)
<1> TAKE i
<1>1. PICK m, c : m = ModeSoFar(i) /\ c = IF Within(i, "auto") # {} THEN "AUTO" ELSE IF Within(i, "static") # {} THEN "STATIC" ELSE "IFACE"
  BY Zenon
<1>2. m = IF ModesOf(i) = {} THEN "UNKNOWN" ELSE c
  BY Zenon, <1>1 DEF ModeSoFar
<1>3. PICK p, a, f, t, n, w, b, g, l :
        /\ p = text[Enclosing(i)].arg.val /\ a = text[i].arg.val /\ f = PrefixOf(text[i].pf)
        /\ t = Given(Within(i, "target"), Inherited(i)) /\ n = Given(Within(i, "iface"), None)
        /\ w = Set(Within(i, "autowire")) /\ b = Given(Within(i, "table"), 254)
        /\ g = Given(Within(i, "rewrite"), None) /\ l = GivenPrefix(Within(i, "rewrite"))
  BY Zenon
<1>4. RuleAt(i) = MadeRule(p, a, f, t, c, n, w, b, g, l)
  BY Zenon, <1>1, <1>3 DEF RuleAt, MadeRule
<1>5. RuleSoFar(i) = MadeRule(p, a, f, t, m, n, w, b, g, l)
  <2>1. RuleSoFar(i) = [MadeRule(p, a, f, t, c, n, w, b, g, l) EXCEPT !.mode = m]
    BY SMT, <1>2, <1>4 DEF RuleSoFar, MadeRule
  <2> QED BY SMT, <2>1 DEF MadeRule
<1> QED BY Zenon, <1>1, <1>3, <1>5 DEF RuleIs

\* Likewise after a step.
LEMMA RuleSoFarNext == (\A i : RuleIs(i))'
BY RuleSoFarIs, PTL

\* The mode of a rule, once one more item is read.
LEMMA ModeReads ==
    ASSUME NEW n, NEW x, Reads(n, x), NEW i \in 1 .. n
    PROVE  /\ ~(x.key \in ModeKeys /\ Joins(i, n)) => ModeSoFar(i)' = ModeSoFar(i)
           /\ x.key \in ModeKeys /\ Joins(i, n) /\ ModesOf(i) = {} =>
                ModeSoFar(i)' = IF x.key = "auto" THEN "AUTO" ELSE IF x.key = "static" THEN "STATIC" ELSE "IFACE"
<1>1. \A key : Within(i, key)' = IF x.key = key /\ Joins(i, n) THEN Within(i, key) \cup {n + 1} ELSE Within(i, key)
  BY Zenon, WithinReads
<1>2. ModesOf(i)' = IF x.key \in ModeKeys /\ Joins(i, n) THEN ModesOf(i) \cup {n + 1} ELSE ModesOf(i)
  BY Zenon, ModesRead
<1>3. CASE ~(x.key \in ModeKeys /\ Joins(i, n))
  <2>1. \A key \in ModeKeys : Within(i, key)' = Within(i, key)
    BY Zenon, <1>1, <1>3
  <2>2. Within(i, "auto")' = Within(i, "auto") /\ Within(i, "static")' = Within(i, "static") /\ ModesOf(i)' = ModesOf(i)
    BY Zenon, <1>2, <1>3, <2>1 DEF ModeKeys
  <2>3. ModeSoFar(i)' = ModeSoFar(i)
    BY Zenon, <2>2 DEF ModeSoFar
  <2> QED BY Zenon, <1>3, <2>3
<1>4. CASE x.key \in ModeKeys /\ Joins(i, n) /\ ModesOf(i) = {}
  <2>1. Within(i, "auto") = {} /\ Within(i, "static") = {}
    BY Zenon, <1>4 DEF ModesOf
  <2>2. ModesOf(i)' # {} /\ (Within(i, "auto")' # {} <=> x.key = "auto") /\ (Within(i, "static")' # {} <=> x.key = "static")
    BY Zenon, <1>1, <1>2, <1>4, <2>1
  <2>3. ModeSoFar(i)' = IF x.key = "auto" THEN "AUTO" ELSE IF x.key = "static" THEN "STATIC" ELSE "IFACE"
    BY Zenon, <2>2 DEF ModeSoFar
  <2> QED BY Zenon, <1>4, <2>3
<1> QED BY Zenon, <1>3, <1>4

RuleKeys == {"target", "table", "autowire", "rewrite"} \cup ModeKeys

\* What a rule says, once one more item is read.
RuleGrows(i, n, x, r) ==
    /\ ~(Joins(i, n) /\ x.key \in RuleKeys) => RuleSoFar(i)' = r
    /\ Joins(i, n) /\ x.key = "target" => RuleSoFar(i)' = [r EXCEPT !.target = x.arg.val]
    /\ Joins(i, n) /\ x.key = "table" => RuleSoFar(i)' = [r EXCEPT !.table = x.arg.val]
    /\ Joins(i, n) /\ x.key = "autowire" => RuleSoFar(i)' = [r EXCEPT !.autowire = BoolOf(x.arg)]
    /\ Joins(i, n) /\ x.key = "rewrite" =>
         RuleSoFar(i)' = [r EXCEPT !.rewrite_tgt = x.arg.val, !.rewrite_pflen = PrefixOf(x.pf)]
    /\ Joins(i, n) /\ x.key \in ModeKeys /\ ModesOf(i) = {} =>
         RuleSoFar(i)' =
           [r EXCEPT
              !.mode = IF x.key = "auto" THEN "AUTO" ELSE IF x.key = "static" THEN "STATIC" ELSE "IFACE",
              !.ifname = IF x.key = "iface" THEN x.arg.val ELSE r.ifname]

\* An item changes the rule it is in, and no other.
LEMMA RuleReads ==
    ASSUME NEW n, NEW x, Reads(n, x), NEW i \in 1 .. n, NEW q \in At("proxy"), q < i,
           NEW r, r = RuleSoFar(i)
    PROVE  RuleGrows(i, n, x, r)
<1>1. /\ text'[i] = text[i] /\ text[Enclosing(i)]' = text[Enclosing(i)] /\ Inherited(i)' = Inherited(i)
  BY Zenon, TextReads, EnclosingReads
<1>2. PICK h : h = Inherited(i)
  BY Zenon
<1>3. PICK p, a, f, t, m, c, w, b, g, l :
        /\ p = text[Enclosing(i)].arg.val /\ a = text[i].arg.val /\ f = PrefixOf(text[i].pf)
        /\ t = Given(Within(i, "target"), h) /\ m = ModeSoFar(i) /\ c = Given(Within(i, "iface"), None)
        /\ w = Set(Within(i, "autowire")) /\ b = Given(Within(i, "table"), 254)
        /\ g = Given(Within(i, "rewrite"), None) /\ l = GivenPrefix(Within(i, "rewrite"))
  BY Zenon
<1>4. RuleSoFar(i) = MadeRule(p, a, f, t, m, c, w, b, g, l)
  BY Zenon, <1>2, <1>3, RuleSoFarIs DEF RuleIs
<1>5. PICK tt, mm, cc, ww, bb, gg, ll :
        /\ tt = Given(Within(i, "target"), h)' /\ mm = ModeSoFar(i)' /\ cc = Given(Within(i, "iface"), None)'
        /\ ww = Set(Within(i, "autowire"))' /\ bb = Given(Within(i, "table"), 254)'
        /\ gg = Given(Within(i, "rewrite"), None)' /\ ll = GivenPrefix(Within(i, "rewrite"))'
  BY Zenon
<1>6. RuleSoFar(i)' = MadeRule(p, a, f, tt, mm, cc, ww, bb, gg, ll)
  <2>1. RuleIs(i)'
    BY Zenon, RuleSoFarNext
  <2>2. Given(Within(i, "target"), Inherited(i))' = tt
    BY Zenon, <1>1, <1>2, <1>5 DEF Given
  <2>3. PrefixOf(text[i].pf)' = f /\ (text[i].arg.val)' = a /\ (text[Enclosing(i)].arg.val)' = p
    BY Zenon, <1>1, <1>3 DEF PrefixOf
  <2> QED BY Zenon, <1>5, <2>1, <2>2, <2>3 DEF MadeRule, RuleIs
<1>7. \A key, d :
        /\ Given(Within(i, key), d)' = IF x.key = key /\ Joins(i, n) THEN x.arg.val ELSE Given(Within(i, key), d)
        /\ Set(Within(i, key))' = IF x.key = key /\ Joins(i, n) THEN BoolOf(x.arg) ELSE Set(Within(i, key))
        /\ GivenPrefix(Within(i, key))' = IF x.key = key /\ Joins(i, n) THEN PrefixOf(x.pf) ELSE GivenPrefix(Within(i, key))
  BY Zenon, GivenReads
<1>8. /\ tt = IF x.key = "target" /\ Joins(i, n) THEN x.arg.val ELSE t
      /\ cc = IF x.key = "iface" /\ Joins(i, n) THEN x.arg.val ELSE c
      /\ ww = IF x.key = "autowire" /\ Joins(i, n) THEN BoolOf(x.arg) ELSE w
      /\ bb = IF x.key = "table" /\ Joins(i, n) THEN x.arg.val ELSE b
      /\ gg = IF x.key = "rewrite" /\ Joins(i, n) THEN x.arg.val ELSE g
      /\ ll = IF x.key = "rewrite" /\ Joins(i, n) THEN PrefixOf(x.pf) ELSE l
  BY Zenon, <1>3, <1>5, <1>7
<1>9. ~(x.key \in ModeKeys /\ Joins(i, n)) => mm = m
  BY Zenon, <1>3, <1>5, ModeReads
<1>10. /\ \A v : [r EXCEPT !.target = v] = MadeRule(p, a, f, v, m, c, w, b, g, l)
       /\ \A v : [r EXCEPT !.autowire = v] = MadeRule(p, a, f, t, m, c, v, b, g, l)
       /\ \A v : [r EXCEPT !.table = v] = MadeRule(p, a, f, t, m, c, w, v, g, l)
       /\ \A u, v : [r EXCEPT !.rewrite_tgt = u, !.rewrite_pflen = v] = MadeRule(p, a, f, t, m, c, w, b, u, v)
       /\ \A u, v : [r EXCEPT !.mode = u, !.ifname = v] = MadeRule(p, a, f, t, u, v, w, b, g, l)
       /\ r.ifname = c
  <2>1. \A v : [MadeRule(p, a, f, t, m, c, w, b, g, l) EXCEPT !.target = v] = MadeRule(p, a, f, v, m, c, w, b, g, l)
    BY SMT DEF MadeRule
  <2>2. \A v : [MadeRule(p, a, f, t, m, c, w, b, g, l) EXCEPT !.autowire = v] = MadeRule(p, a, f, t, m, c, v, b, g, l)
    BY SMT DEF MadeRule
  <2>3. \A v : [MadeRule(p, a, f, t, m, c, w, b, g, l) EXCEPT !.table = v] = MadeRule(p, a, f, t, m, c, w, v, g, l)
    BY SMT DEF MadeRule
  <2>4. MadeRule(p, a, f, t, m, c, w, b, g, l).ifname = c
    BY SMT DEF MadeRule
  <2>5. ASSUME NEW u, NEW v
        PROVE  [MadeRule(p, a, f, t, m, c, w, b, g, l) EXCEPT !.rewrite_tgt = u, !.rewrite_pflen = v] = MadeRule(p, a, f, t, m, c, w, b, u, v)
    <3>1. [MadeRule(p, a, f, t, m, c, w, b, g, l) EXCEPT !.rewrite_tgt = u] = MadeRule(p, a, f, t, m, c, w, b, u, l)
      BY SMT DEF MadeRule
    <3>2. [MadeRule(p, a, f, t, m, c, w, b, u, l) EXCEPT !.rewrite_pflen = v] = MadeRule(p, a, f, t, m, c, w, b, u, v)
      BY SMT DEF MadeRule
    <3>3. \A y : [y EXCEPT !.rewrite_tgt = u, !.rewrite_pflen = v] = [[y EXCEPT !.rewrite_tgt = u] EXCEPT !.rewrite_pflen = v]
      BY Zenon
    <3> QED BY Zenon, <3>1, <3>2, <3>3
  <2>6. ASSUME NEW u, NEW v
        PROVE  [MadeRule(p, a, f, t, m, c, w, b, g, l) EXCEPT !.mode = u, !.ifname = v] = MadeRule(p, a, f, t, u, v, w, b, g, l)
    <3>1. [MadeRule(p, a, f, t, m, c, w, b, g, l) EXCEPT !.mode = u] = MadeRule(p, a, f, t, u, c, w, b, g, l)
      BY SMT DEF MadeRule
    <3>2. [MadeRule(p, a, f, t, u, c, w, b, g, l) EXCEPT !.ifname = v] = MadeRule(p, a, f, t, u, v, w, b, g, l)
      BY SMT DEF MadeRule
    <3>3. \A y : [y EXCEPT !.mode = u, !.ifname = v] = [[y EXCEPT !.mode = u] EXCEPT !.ifname = v]
      BY Zenon
    <3> QED BY Zenon, <3>1, <3>2, <3>3
  <2>7. r = MadeRule(p, a, f, t, m, c, w, b, g, l)
    BY Zenon, <1>4
  <2>8. \A v : [r EXCEPT !.target = v] = MadeRule(p, a, f, v, m, c, w, b, g, l)
    BY Zenon, <2>1, <2>7
  <2>9. \A v : [r EXCEPT !.autowire = v] = MadeRule(p, a, f, t, m, c, v, b, g, l)
    BY Zenon, <2>2, <2>7
  <2>10. \A v : [r EXCEPT !.table = v] = MadeRule(p, a, f, t, m, c, w, v, g, l)
    BY Zenon, <2>3, <2>7
  <2>11. \A u, v : [r EXCEPT !.rewrite_tgt = u, !.rewrite_pflen = v] = MadeRule(p, a, f, t, m, c, w, b, u, v)
    BY Zenon, <2>5, <2>7
  <2>12. \A u, v : [r EXCEPT !.mode = u, !.ifname = v] = MadeRule(p, a, f, t, u, v, w, b, g, l)
    BY Zenon, <2>6, <2>7
  <2>13. r.ifname = c
    BY Zenon, <2>4, <2>7
  <2> QED BY Zenon, <2>8, <2>9, <2>10, <2>11, <2>12, <2>13
<1>11. \A u, v : [r EXCEPT !.rewrite_tgt = u, !.rewrite_pflen = v] = MadeRule(p, a, f, t, m, c, w, b, u, v)
  BY Zenon, <1>10
<1>12. CASE ~(Joins(i, n) /\ x.key \in RuleKeys)
  <2>1. tt = t /\ mm = m /\ cc = c /\ ww = w /\ bb = b /\ gg = g /\ ll = l
    BY Zenon, <1>8, <1>9, <1>12 DEF RuleKeys, ModeKeys
  <2>2. RuleSoFar(i)' = r
    BY Zenon, <1>4, <1>6, <2>1
  <2> QED BY Zenon, <1>12, <2>2 DEF RuleKeys, RuleGrows
<1>13. CASE Joins(i, n) /\ x.key \in RuleKeys \ ModeKeys
  <2>1. mm = m /\ cc = c /\ x.key \notin ModeKeys
    BY Zenon, <1>8, <1>9, <1>13 DEF RuleKeys, ModeKeys
  <2>2. CASE x.key = "target"
    <3>1. RuleSoFar(i)' = MadeRule(p, a, f, x.arg.val, m, c, w, b, g, l)
      BY Zenon, <1>6, <1>8, <1>13, <2>1, <2>2
    <3> QED BY Zenon, <1>10, <1>13, <2>2, <3>1 DEF ModeKeys, RuleGrows
  <2>3. CASE x.key = "table"
    <3>1. RuleSoFar(i)' = MadeRule(p, a, f, t, m, c, w, x.arg.val, g, l)
      BY Zenon, <1>6, <1>8, <1>13, <2>1, <2>3
    <3> QED BY Zenon, <1>10, <1>13, <2>3, <3>1 DEF ModeKeys, RuleGrows
  <2>4. CASE x.key = "autowire"
    <3>1. RuleSoFar(i)' = MadeRule(p, a, f, t, m, c, BoolOf(x.arg), b, g, l)
      BY Zenon, <1>6, <1>8, <1>13, <2>1, <2>4
    <3> QED BY Zenon, <1>10, <1>13, <2>4, <3>1 DEF ModeKeys, RuleGrows
  <2>5. CASE x.key = "rewrite"
    <3>1. RuleSoFar(i)' = MadeRule(p, a, f, t, m, c, w, b, x.arg.val, PrefixOf(x.pf))
      BY Zenon, <1>6, <1>8, <1>13, <2>1, <2>5
    <3>2. PICK u, v : u = x.arg.val /\ v = PrefixOf(x.pf)
      BY Zenon
    <3>3. RuleSoFar(i)' = MadeRule(p, a, f, t, m, c, w, b, u, v)
      BY Zenon, <3>1, <3>2
    <3>4. RuleSoFar(i)' = [r EXCEPT !.rewrite_tgt = u, !.rewrite_pflen = v]
      BY Zenon, <1>11, <3>3
    <3>5. RuleSoFar(i)' = [r EXCEPT !.rewrite_tgt = x.arg.val, !.rewrite_pflen = PrefixOf(x.pf)]
      BY Zenon, <3>2, <3>4
    <3> QED BY Zenon, <1>13, <2>5, <3>5 DEF ModeKeys, RuleGrows
  <2> QED BY Zenon, <1>13, <2>2, <2>3, <2>4, <2>5 DEF RuleKeys
<1>14. CASE Joins(i, n) /\ x.key \in ModeKeys
  <2>1. PICK u, v : /\ u = IF x.key = "auto" THEN "AUTO" ELSE IF x.key = "static" THEN "STATIC" ELSE "IFACE"
                    /\ v = IF x.key = "iface" THEN x.arg.val ELSE c
    BY Zenon
  <2>2. tt = t /\ cc = v /\ ww = w /\ bb = b /\ gg = g /\ ll = l
    BY Zenon, <1>8, <1>14, <2>1 DEF ModeKeys
  <2>3. ModesOf(i) = {} => mm = u
    BY Zenon, <1>5, <1>14, <2>1, ModeReads
  <2>4. ModesOf(i) = {} => RuleSoFar(i)' = MadeRule(p, a, f, t, u, v, w, b, g, l)
    BY Zenon, <1>6, <2>2, <2>3
  <2>5. r.ifname = c
    BY Zenon, <1>10
  <2>6. ModesOf(i) = {} => RuleSoFar(i)' = [r EXCEPT !.mode = u, !.ifname = v]
    BY Zenon, <1>10, <2>4
  <2> QED BY Zenon, <1>14, <2>1, <2>5, <2>6 DEF RuleKeys, ModeKeys, RuleGrows
<1> QED BY Zenon, <1>12, <1>13, <1>14

\* The rules, when there is no new one.
LEMMA RulesKept ==
    ASSUME NEW n, NEW x, Reads(n, x), Nested, WellBegun, LoadedRules, rules \in Seq(RuleRec), x.key # "rule",
           \/ rules' = rules /\ ~(scope = "RULE" /\ x.key \in RuleKeys)
           \/ RuleField(x) \/ RewriteEntry(x) \/ ModeEntry(x)
    PROVE  LoadedRules'
<1>1. n \in Nat /\ text \in Seq(Items) /\ At("rule") \in SUBSET (1 .. n) /\ At("rule")' = At("rule")
  BY Zenon, TextReads, AtReads DEF Reads
<1>2. /\ Before(Len(text) + 1, "rule")' = Before(Len(text) + 1, "rule")
      /\ \A i \in 1 .. n : Before(i, "rule")' = Before(i, "rule")
  <2>1. \A i \in 1 .. n : Before(i, "rule")' = Before(i, "rule")
    BY Zenon, LenReads
  <2>2. Before(Len(text) + 1, "rule")' = Before(n + 2, "rule")' /\ Before(Len(text) + 1, "rule") = Before(n + 1, "rule")
    BY Zenon, LenReads
  <2>3. x.key # "rule" => Before(n + 2, "rule")' = Before(n + 1, "rule")
    BY Zenon, LenReads
  <2> QED BY Zenon, <2>1, <2>2, <2>3
<1>3. \/ rules' = rules /\ ~(scope = "RULE" /\ x.key \in RuleKeys)
      \/ scope = "RULE" /\ \E e : rules' = [rules EXCEPT ![Len(rules)] = e]
  BY Zenon DEF RuleField, RewriteEntry, ModeEntry, ndL_parse_rewrite
<1>4. Len(rules') = Len(rules) /\ Len(rules) \in Nat /\ DOMAIN rules = 1 .. Len(rules)
  BY SMT, <1>3
<1>5. ASSUME NEW i \in At("rule") PROVE rules'[Before(i, "rule") + 1] = RuleSoFar(i)'
  <2>1. PICK b, r : b = Before(i, "rule") + 1 /\ r = RuleSoFar(i)
    BY Zenon
  <2>2. b \in 1 .. Len(rules) /\ (b = Len(rules) <=> Newest(i, "rule")) /\ rules[b] = r
    BY Zenon, <1>1, <2>1, PlaceIs DEF LoadedRules
  <2>3. Joins(i, n) <=> scope = "RULE" /\ Newest(i, "rule")
    BY Zenon, JoinsIs
  <2>4. PICK q \in At("proxy") : q < i
    BY Zenon DEF Nested
  <2>5. i \in 1 .. n
    BY Zenon, <1>1
  <2>6. RuleGrows(i, n, x, r)
    BY Zenon, <2>1, <2>4, <2>5, RuleReads
  <2>7. CASE ~(Joins(i, n) /\ x.key \in RuleKeys)
    <3>1. RuleSoFar(i)' = r
      BY Zenon, <2>6, <2>7 DEF RuleGrows
    <3>2. rules' = rules \/ x.key \in RuleKeys
      BY Zenon DEF RuleField, RewriteEntry, ModeEntry, RuleKeys, ModeKeys
    <3>3. rules'[b] = rules[b]
      <4>1. CASE rules' = rules
        BY Zenon, <4>1
      <4>2. CASE rules' # rules
        <5>1. b # Len(rules)
          BY Zenon, <1>3, <2>2, <2>3, <2>7, <3>2, <4>2
        <5> QED BY SMT, <1>3, <1>4, <2>2, <5>1
      <4> QED BY Zenon, <4>1, <4>2
    <3> QED BY Zenon, <2>1, <2>2, <3>1, <3>3
  <2>8. CASE Joins(i, n) /\ x.key \in RuleKeys
    <3>1. b = Len(rules) /\ scope = "RULE" /\ Last(rules) = r
      BY Zenon, <2>2, <2>3, <2>8 DEF Last
    <3>2. \A e : rules' = [rules EXCEPT ![Len(rules)] = e] => rules'[b] = e
      BY SMT, <1>4, <2>2, <3>1
    <3>3. CASE RuleField(x)
      <4>1. rules'[b] = [r EXCEPT ![x.key] = IF x.key = "autowire" THEN BoolOf(x.arg) ELSE x.arg.val]
        BY Zenon, <2>2, <3>1, <3>2, <3>3 DEF RuleField
      <4>2. x.key = "target" \/ x.key = "table" \/ x.key = "autowire"
        BY Zenon, <3>3 DEF RuleField
      <4>3. /\ x.key = "target" => RuleSoFar(i)' = [r EXCEPT !.target = x.arg.val]
            /\ x.key = "table" => RuleSoFar(i)' = [r EXCEPT !.table = x.arg.val]
            /\ x.key = "autowire" => RuleSoFar(i)' = [r EXCEPT !.autowire = BoolOf(x.arg)]
        BY Zenon, <2>6, <2>8 DEF RuleGrows
      <4>4. rules'[b] = RuleSoFar(i)'
        BY Zenon, <4>1, <4>2, <4>3
      <4> QED BY Zenon, <2>1, <4>4
    <3>4. CASE RewriteEntry(x)
      <4>1. rules'[b] = [r EXCEPT !.rewrite_tgt = x.arg.val, !.rewrite_pflen = PrefixOf(x.pf)] /\ x.key = "rewrite"
        BY Zenon, <2>2, <3>1, <3>2, <3>4 DEF RewriteEntry, ndL_parse_rewrite
      <4>2. RuleSoFar(i)' = [r EXCEPT !.rewrite_tgt = x.arg.val, !.rewrite_pflen = PrefixOf(x.pf)]
        BY Zenon, <2>6, <2>8, <4>1 DEF RuleGrows
      <4> QED BY Zenon, <2>1, <4>1, <4>2
    <3>5. CASE ModeEntry(x)
      <4>1. PICK u, v : /\ u = IF x.key = "auto" THEN "AUTO" ELSE IF x.key = "static" THEN "STATIC" ELSE "IFACE"
                        /\ v = IF x.key = "iface" THEN x.arg.val ELSE r.ifname
        BY Zenon
      <4>2. rules'[b] = [r EXCEPT !.mode = u, !.ifname = v] /\ x.key \in ModeKeys /\ r.mode = "UNKNOWN"
        BY Zenon, <2>2, <3>1, <3>2, <3>5, <4>1 DEF ModeEntry, ModeKeys
      <4>3. ModesOf(i) = {}
        BY Zenon, <1>1, <2>1, <4>2, ModeIs DEF WellBegun
      <4>4. RuleSoFar(i)' = [r EXCEPT !.mode = u, !.ifname = v]
        BY Zenon, <2>6, <2>8, <4>1, <4>2, <4>3 DEF RuleGrows
      <4> QED BY Zenon, <2>1, <4>2, <4>4
    <3>6. RuleField(x) \/ RewriteEntry(x) \/ ModeEntry(x)
      BY Zenon, <2>8, <3>1
    <3> QED BY Zenon, <3>3, <3>4, <3>5, <3>6
  <2> QED BY Zenon, <2>7, <2>8
<1>6. \A i \in At("rule") : Before(i, "rule")' = Before(i, "rule")
  BY Zenon, <1>1, <1>2
<1>7. Len(rules') = Before(Len(text) + 1, "rule")'
  BY Zenon, <1>2, <1>4 DEF LoadedRules
<1>8. \A i \in At("rule")' : rules'[Before(i, "rule")' + 1] = RuleSoFar(i)'
  BY Zenon, <1>1, <1>5, <1>6
<1>9. \A k \in 1 .. Len(rules') : \E i \in At("rule")' : Before(i, "rule")' + 1 = k
  BY Zenon, <1>1, <1>4, <1>6 DEF LoadedRules
<1> QED BY Zenon, <1>7, <1>8, <1>9 DEF LoadedRules

\* A new rule: it has its proxy's target, and nothing else yet.
LEMMA RuleNew ==
    ASSUME NEW n, NEW x, Reads(n, x), x.key = "rule", Nested, Loaded, scope = "PROXY"
    PROVE  RuleSoFar(n + 1)' = nd_rule_create(Last(proxies), x.arg.val, PrefixOf(x.pf))
<1>1. PICK p \in At("proxy") : Newest(p, "proxy")
  BY Zenon DEF Nested
<1>2. text \in Seq(Items) /\ \A j \in At("proxy") : j <= p
  BY Zenon, <1>1 DEF Newest, Reads
<1>3. text[Enclosing(n + 1)]' = text[p] /\ Inherited(n + 1)' = Given(Within(p, "target"), None)
  BY Zenon, <1>2, EnclosingNew
<1>4. Last(proxies) = ProxyAt(p)
  BY Zenon, <1>1, <1>2, LastProxyIs DEF Last
<1>5. Last(proxies).ifname = text[p].arg.val /\ Last(proxies).target = Given(Within(p, "target"), None)
  <2>1. PICK a, g, w, m : /\ a = text[p].arg.val /\ g = Given(Within(p, "target"), None)
                          /\ w = Set(Within(p, "router")) /\ m = Set(Within(p, "promiscuous"))
    BY Zenon
  <2>2. Last(proxies) = [ifname |-> a, target |-> g, router |-> w, promiscuous |-> m]
    BY Zenon, <1>4, <2>1 DEF ProxyAt
  <2>3. Last(proxies).ifname = a /\ Last(proxies).target = g
    BY SMT, <2>2
  <2> QED BY Zenon, <2>1, <2>3
<1>6. PICK c, h, a, f : c = Last(proxies).ifname /\ h = Last(proxies).target /\ a = x.arg.val /\ f = PrefixOf(x.pf)
  BY Zenon
<1>7. (text[Enclosing(n + 1)].arg.val)' = c /\ Inherited(n + 1)' = h
  BY Zenon, <1>3, <1>5, <1>6
<1>8. text'[n + 1] = x
  BY Zenon, TextReads
<1>9. (text[n + 1].arg.val)' = a /\ PrefixOf(text[n + 1].pf)' = f
  BY Zenon, <1>6, <1>8 DEF PrefixOf
<1>10. \A key, d :
         /\ Within(n + 1, key)' = {} /\ Given(Within(n + 1, key), d)' = d
         /\ Set(Within(n + 1, key))' = FALSE /\ GivenPrefix(Within(n + 1, key))' = 0
  BY Zenon, GivenNew
<1>11. Given(Within(n + 1, "target"), Inherited(n + 1))' = h
  BY Zenon, <1>7, <1>10 DEF Given
<1>12. ModeSoFar(n + 1)' = "UNKNOWN"
  <2>1. ModesOf(n + 1)' = {}
    BY Zenon, <1>10 DEF ModesOf
  <2> QED BY Zenon, <2>1 DEF ModeSoFar
<1>13. /\ Given(Within(n + 1, "iface"), None)' = None /\ Set(Within(n + 1, "autowire"))' = FALSE
       /\ Given(Within(n + 1, "table"), 254)' = 254 /\ Given(Within(n + 1, "rewrite"), None)' = None
       /\ GivenPrefix(Within(n + 1, "rewrite"))' = 0
  <2>1. Given(Within(n + 1, "iface"), None)' = None /\ Set(Within(n + 1, "autowire"))' = FALSE
    BY Zenon, <1>10
  <2>2. Given(Within(n + 1, "table"), 254)' = 254
    BY SMT, <1>10
  <2>3. Given(Within(n + 1, "rewrite"), None)' = None
    BY Zenon, <1>10
  <2>4. GivenPrefix(Within(n + 1, "rewrite"))' = 0
    BY Zenon, <1>10
  <2> QED BY <2>1, <2>2, <2>3, <2>4
<1>14. RuleIs(n + 1)'
  BY Zenon, RuleSoFarNext
<1>15. RuleSoFar(n + 1)' = MadeRule(c, a, f, h, "UNKNOWN", None, FALSE, 254, None, 0)
  BY Zenon, <1>7, <1>9, <1>11, <1>12, <1>13, <1>14 DEF MadeRule, RuleIs
<1>16. nd_rule_create(Last(proxies), x.arg.val, PrefixOf(x.pf)) = MadeRule(c, a, f, h, "UNKNOWN", None, FALSE, 254, None, 0)
  BY Zenon, <1>6 DEF MadeRule, nd_rule_create
<1> QED BY Zenon, <1>15, <1>16

\* The rules, after one more.
LEMMA RulesMore ==
    ASSUME NEW n, NEW x, Reads(n, x), Nested, WellBegun, Loaded, rules \in Seq(RuleRec), RuleEntry(x)
    PROVE  LoadedRules'
<1>1. PICK e : e = nd_rule_create(Last(proxies), x.arg.val, PrefixOf(x.pf))
  BY Zenon
<1>2. /\ n \in Nat /\ text \in Seq(Items) /\ LoadedRules
      /\ x.key = "rule" /\ scope = "PROXY" /\ rules' = Append(rules, e)
  BY Zenon, <1>1, TextReads DEF Reads, Loaded, RuleEntry, ndL_parse_rule
<1>3. At("rule") \in SUBSET (1 .. n) /\ At("rule")' = At("rule") \cup {n + 1}
  BY Zenon, <1>2, AtReads
<1>4. /\ Before(Len(text) + 1, "rule") \in Nat /\ Before(n + 1, "rule")' = Before(Len(text) + 1, "rule")
      /\ Before(Len(text) + 1, "rule")' = Before(Len(text) + 1, "rule") + 1
      /\ \A i \in 1 .. n : Before(i, "rule")' = Before(i, "rule")
  <2>1. Before(n + 1, "rule") \in Nat /\ Before(n + 1, "rule")' = Before(n + 1, "rule")
        /\ \A i \in 1 .. n : Before(i, "rule")' = Before(i, "rule")
    BY Zenon, LenReads
  <2>2. Before(Len(text) + 1, "rule")' = Before(n + 2, "rule")' /\ Before(Len(text) + 1, "rule") = Before(n + 1, "rule")
    BY Zenon, LenReads
  <2>3. x.key = "rule" => Before(n + 2, "rule")' = Before(n + 1, "rule") + 1
    BY Zenon, LenReads
  <2> QED BY Zenon, <1>2, <2>1, <2>2, <2>3
<1>5. RuleSoFar(n + 1)' = e
  BY Zenon, <1>1, <1>2, RuleNew
<1>6. /\ Len(rules') = Len(rules) + 1 /\ Len(rules) \in Nat
      /\ rules'[Len(rules) + 1] = e /\ \A k \in 1 .. Len(rules) : rules'[k] = rules[k]
  BY SMT, <1>2
<1>7. Len(rules') = Before(Len(text) + 1, "rule")'
  BY Zenon, <1>2, <1>4, <1>6 DEF LoadedRules
<1>8. rules'[Before(n + 1, "rule")' + 1] = RuleSoFar(n + 1)'
  BY Zenon, <1>2, <1>4, <1>5, <1>6 DEF LoadedRules
<1>9. ASSUME NEW i \in At("rule") PROVE rules'[Before(i, "rule")' + 1] = RuleSoFar(i)'
  <2>1. i \in 1 .. n /\ ~Joins(i, n) /\ Before(i, "rule")' = Before(i, "rule")
    BY Zenon, <1>2, <1>3, <1>4, JoinsIs
  <2>2. PICK r : r = RuleSoFar(i)
    BY Zenon
  <2>3. PICK q \in At("proxy") : q < i
    BY Zenon DEF Nested
  <2>4. RuleGrows(i, n, x, r)
    BY Zenon, <2>1, <2>2, <2>3, RuleReads
  <2>5. RuleSoFar(i)' = RuleSoFar(i)
    BY Zenon, <2>1, <2>2, <2>4 DEF RuleGrows
  <2>6. Before(i, "rule") + 1 \in 1 .. Len(rules) /\ rules[Before(i, "rule") + 1] = RuleSoFar(i)
    BY Zenon, <1>2, PlaceIs DEF LoadedRules
  <2> QED BY Zenon, <1>6, <2>1, <2>5, <2>6
<1>10. ASSUME NEW k \in 1 .. Len(rules') PROVE \E i \in At("rule")' : Before(i, "rule")' + 1 = k
  <2>1. k \in 1 .. Len(rules) \/ k = Len(rules) + 1
    BY SMT, <1>6
  <2>2. CASE k \in 1 .. Len(rules)
    <3>1. PICK i \in At("rule") : Before(i, "rule") + 1 = k
      BY Zenon, <1>2, <2>2 DEF LoadedRules
    <3>2. i \in At("rule")' /\ Before(i, "rule")' = Before(i, "rule")
      BY Zenon, <1>3, <1>4
    <3> QED BY Zenon, <3>1, <3>2
  <2>3. CASE k = Len(rules) + 1
    BY Zenon, <1>2, <1>3, <1>4, <2>3 DEF LoadedRules
  <2> QED BY Zenon, <2>1, <2>2, <2>3
<1>11. \A i \in At("rule")' : rules'[Before(i, "rule")' + 1] = RuleSoFar(i)'
  BY Zenon, <1>3, <1>8, <1>9
<1> QED BY Zenon, <1>7, <1>10, <1>11 DEF LoadedRules

\* What is loaded stays what is written.
LEMMA LoadedReads ==
    ASSUME NEW n, NEW x, Reads(n, x), Nested, WellBegun, Loaded, Stored,
           \/ x.key \in {"END", "EOF"} /\ UNCHANGED <<proxies, rules>>
           \/ ProxyEntry(x) \/ ConfEntry(x) \/ RuleEntry(x) \/ ProxyField(x)
           \/ RuleField(x) \/ RewriteEntry(x) \/ ModeEntry(x)
    PROVE  Loaded'
<1>1. LoadedProxies /\ LoadedRules /\ proxies \in Seq(ProxyRec) /\ rules \in Seq(RuleRec)
  BY Zenon DEF Loaded, Stored
<1>2. CASE x.key \in {"END", "EOF"} /\ UNCHANGED <<proxies, rules>>
  <2>1. x.key # "proxy" /\ x.key # "rule" /\ x.key \notin ProxyKeys /\ x.key \notin RuleKeys
    BY Zenon, <1>2 DEF ProxyKeys, RuleKeys, ModeKeys
  <2>2. LoadedProxies'
    BY Zenon, <1>1, <1>2, <2>1, ProxiesKept
  <2>3. LoadedRules'
    BY Zenon, <1>1, <1>2, <2>1, RulesKept
  <2> QED BY Zenon, <2>2, <2>3 DEF Loaded
<1>3. CASE ProxyEntry(x)
  <2>1. x.key # "rule" /\ scope # "RULE" /\ rules' = rules
    BY Zenon, <1>3 DEF ProxyEntry, ndL_parse_proxy
  <2>2. LoadedProxies'
    BY Zenon, <1>1, <1>3, ProxiesMore
  <2>3. LoadedRules'
    BY Zenon, <1>1, <2>1, RulesKept
  <2> QED BY Zenon, <2>2, <2>3 DEF Loaded
<1>4. CASE ConfEntry(x)
  <2>1. /\ x.key # "proxy" /\ x.key # "rule" /\ scope # "PROXY" /\ scope # "RULE"
        /\ proxies' = proxies /\ rules' = rules
    BY Zenon, <1>4 DEF ConfEntry
  <2>2. LoadedProxies'
    BY Zenon, <1>1, <2>1, ProxiesKept
  <2>3. LoadedRules'
    BY Zenon, <1>1, <2>1, RulesKept
  <2> QED BY Zenon, <2>2, <2>3 DEF Loaded
<1>5. CASE RuleEntry(x)
  <2>1. x.key # "proxy" /\ x.key \notin ProxyKeys /\ proxies' = proxies
    BY Zenon, <1>5 DEF RuleEntry, ndL_parse_rule, ProxyKeys
  <2>2. LoadedProxies'
    BY Zenon, <1>1, <2>1, ProxiesKept
  <2>3. LoadedRules'
    BY Zenon, <1>1, <1>5, RulesMore
  <2> QED BY Zenon, <2>2, <2>3 DEF Loaded
<1>6. CASE ProxyField(x)
  <2>1. x.key # "proxy" /\ x.key # "rule" /\ scope # "RULE" /\ rules' = rules
    BY Zenon, <1>6 DEF ProxyField
  <2>2. LoadedProxies'
    BY Zenon, <1>1, <1>6, <2>1, ProxiesKept
  <2>3. LoadedRules'
    BY Zenon, <1>1, <2>1, RulesKept
  <2> QED BY Zenon, <2>2, <2>3 DEF Loaded
<1>7. CASE RuleField(x) \/ RewriteEntry(x) \/ ModeEntry(x)
  <2>1. x.key # "proxy" /\ x.key # "rule" /\ scope # "PROXY" /\ proxies' = proxies
    BY Zenon, <1>7 DEF RuleField, RewriteEntry, ModeEntry, ndL_parse_rewrite
  <2>2. LoadedProxies'
    BY Zenon, <1>1, <2>1, ProxiesKept
  <2>3. LoadedRules'
    BY Zenon, <1>1, <1>7, <2>1, RulesKept
  <2> QED BY Zenon, <2>2, <2>3 DEF Loaded
<1> QED BY Zenon, <1>2, <1>3, <1>4, <1>5, <1>6, <1>7

\* Nothing is read yet.
LEMMA IInvInit == Init => IInv
<1> SUFFICES ASSUME Init PROVE IInv
  OBVIOUS
<1>1. /\ text = <<>> /\ text \in Seq(Items) /\ Len(text) = 0 /\ DOMAIN text = {}
      /\ proxies = <<>> /\ Len(proxies) = 0 /\ rules = <<>> /\ Len(rules) = 0
      /\ scope = "DEFAULT" /\ stage = "parsing"
  BY SMT DEF Init
<1>2. \A key : At(key) = {}
  BY Zenon, <1>1 DEF At
<1>3. \A key : Before(1, key) = 0
  <2> TAKE key
  <2>1. {j \in 1 .. 1 - 1 : text[j].key = key} = {}
    BY SMT
  <2> QED BY Zenon, <2>1, FS_EmptySet DEF Before
<1>4. Len(text) + 1 = 1
  BY SMT, <1>1
<1>5. \A key : Before(Len(text) + 1, key) = 0
  BY Zenon, <1>3, <1>4
<1>6. Depth(Len(text) + 1) = 0
  BY SMT, <1>5 DEF Depth
<1>7. Nested
  BY Zenon, <1>1, <1>2, <1>6 DEF Nested, Level
<1>8. WellBegun
  BY Zenon, <1>1, <1>2 DEF WellBegun
<1>9. 1 .. 0 = {}
  BY SMT
<1>10. Loaded
  BY Zenon, <1>1, <1>2, <1>5, <1>9 DEF Loaded, LoadedProxies, LoadedRules
<1>11. Unfinished
  BY Zenon, <1>1 DEF Unfinished
<1> QED BY Zenon, <1>1, <1>7, <1>8, <1>10, <1>11 DEF IInv, Through

\* The parser reads an item: it gives up exactly when no well-formed file goes on so.
LEMMA IInvReads ==
    ASSUME Sound, IInv, NEW x \in Items, ndL_parse_block(x)
    PROVE  IInv'
<1>1. /\ stage = "parsing" /\ text \in Seq(Items) /\ text' = Append(text, x)
      /\ Unfinished /\ Nested /\ WellBegun /\ Loaded /\ Stored
  BY Zenon DEF IInv, Sound, ndL_parse_block
<1>2. PICK n : Reads(n, x)
  BY Zenon, <1>1 DEF Reads
<1>3. /\ n \in Nat /\ Len(text) = n /\ Len(text') = n + 1 /\ text' \in Seq(Items) /\ text'[n + 1] = x
      /\ \A i \in 1 .. n : text'[i] = text[i]
  BY Zenon, <1>2, TextReads DEF Reads
<1>4. WellBegun' <=> Accepted(x)
  BY Zenon, <1>1, <1>2, AcceptedRead DEF Stored
<1>5. CASE ~Accepted(x) /\ stage' = "failed"
  <2>1. ~WellBegun'
    BY Zenon, <1>4, <1>5
  <2> QED BY Zenon, <1>3, <1>5, <2>1 DEF IInv, Through
<1>6. CASE Accepted(x) /\ x.key = "EOF" /\ stage' = "loaded" /\ UNCHANGED <<scope, conf, proxies, rules>>
  <2>1. Loaded'
    BY Zenon, <1>1, <1>2, <1>6, LoadedReads
  <2>2. WellBegun' /\ (text[Len(text)].key)' = "EOF"
    BY Zenon, <1>3, <1>4, <1>6
  <2>3. WellFormed'
    BY Zenon, <2>2 DEF WellFormed
  <2> QED BY Zenon, <1>3, <1>6, <2>1, <2>3 DEF IInv
<1>7. CASE Accepted(x) /\ x.key # "EOF" /\ (IF x.key = "END" THEN ParseEnd ELSE ParseEntry(x)) /\ UNCHANGED stage
  <2>1. WellBegun'
    BY Zenon, <1>4, <1>7
  <2>2. Unfinished'
    <3>1. DOMAIN text = 1 .. n /\ DOMAIN text' = (1 .. n) \cup {n + 1}
      BY SMT, <1>1, <1>3
    <3> QED BY Zenon, <1>1, <1>3, <1>7, <3>1 DEF Unfinished
  <2>3. Nested' /\ Loaded'
    <3>1. CASE x.key = "END"
      <4>1. scope # "DEFAULT" /\ scope \in {"DEFAULT", "PROXY", "RULE"}
        BY Zenon, <1>1, <1>7, <3>1, AcceptedIs DEF ItemFits, Stored
      <4>2. ParseEnd
        BY Zenon, <1>7, <3>1
      <4>3. Moves(x)
        BY Zenon, <3>1, <4>1, <4>2 DEF Moves, ParseEnd
      <4>4. UNCHANGED <<proxies, rules>>
        BY Zenon, <4>2 DEF ParseEnd
      <4>5. Nested'
        BY Zenon, <1>1, <1>2, <4>3, NestedReads
      <4>6. Loaded'
        BY Zenon, <1>1, <1>2, <3>1, <4>4, LoadedReads
      <4> QED BY Zenon, <4>5, <4>6
    <3>2. CASE x.key # "END"
      <4>1. conf \in ConfRec /\ ParseEntry(x)
        BY Zenon, <1>1, <1>7, <3>2 DEF Stored
      <4>2. \/ ProxyEntry(x) \/ ConfEntry(x) \/ RuleEntry(x) \/ ProxyField(x)
            \/ RuleField(x) \/ RewriteEntry(x) \/ ModeEntry(x)
        BY Zenon, <1>7, <3>2, <4>1, EntryStep
      <4>3. Moves(x)
        BY Zenon, <3>2, <4>2 DEF Moves, ProxyEntry, ConfEntry, RuleEntry, ProxyField, RuleField, RewriteEntry,
           ModeEntry, ndL_parse_proxy, ndL_parse_rule, ndL_parse_rewrite
      <4>4. Nested'
        BY Zenon, <1>1, <1>2, <4>3, NestedReads
      <4>5. Loaded'
        BY Zenon, <1>1, <1>2, <4>2, LoadedReads
      <4> QED BY Zenon, <4>4, <4>5
    <3> QED BY Zenon, <3>1, <3>2
  <2>4. stage' = "parsing"
    BY Zenon, <1>1, <1>7
  <2> QED BY Zenon, <1>3, <2>1, <2>2, <2>3, <2>4 DEF IInv, Through
<1> QED BY Zenon, <1>5, <1>6, <1>7 DEF ndL_parse_block

\* The file, and what was loaded of it, do not change any more.
LEMMA IInvSame ==
    ASSUME IInv, UNCHANGED <<text, scope, conf, proxies, rules>>,
           \/ stage' = stage
           \/ stage = "parsing" /\ text = <<>> /\ stage' = "failed"
           \/ stage = "loaded" /\ stage' \in {"started", "refused"}
    PROVE  IInv'
<1>1. text' = text /\ proxies' = proxies /\ rules' = rules /\ scope' = scope
  BY Zenon
<1>2. /\ Unfinished' = Unfinished /\ WellBegun' = WellBegun /\ WellFormed' = WellFormed
      /\ Nested' = Nested /\ Loaded' = Loaded
  <2>1. \A i, key : Before(i, key)' = Before(i, key)
    BY Zenon, <1>1 DEF Before
  <2>2. \A i : Depth(i)' = Depth(i)
    BY Zenon, <2>1 DEF Depth
  <2>3. \A i, key : Within(i, key)' = Within(i, key)
    BY Zenon, <1>1, <2>2 DEF Within
  <2>4. \A key : At(key)' = At(key)
    BY Zenon, <1>1 DEF At
  <2>5. \A i : ModesOf(i)' = ModesOf(i)
    BY Zenon, <2>3 DEF ModesOf
  <2>6. \A i : ItemOK(i)' = ItemOK(i)
    BY Zenon, <1>1, <2>2 DEF ItemOK, ScopeAt
  <2>7. \A i : RuleOK(i)' = RuleOK(i)
    BY Zenon, <1>1, <2>3, <2>5 DEF RuleOK, Set, Latest
  <2>8. WellBegun' = WellBegun
    BY Zenon, <1>1, <2>4, <2>6, <2>7 DEF WellBegun
  <2>9. WellFormed' = WellFormed
    BY Zenon, <1>1, <2>8 DEF WellFormed
  <2>10. Unfinished' = Unfinished
    BY Zenon, <1>1 DEF Unfinished
  <2>11. \A i : Open(i)' = Open(i)
    BY Zenon, <1>1, <2>2 DEF Open
  <2>12. \A i, key : Newest(i, key)' = Newest(i, key)
    BY Zenon, <2>4 DEF Newest
  <2>13. Nested' = Nested
    BY Zenon, <1>1, <2>2, <2>3, <2>4, <2>11, <2>12 DEF Nested, Level
  <2>14. \A i, key, d :
           /\ Given(Within(i, key), d)' = Given(Within(i, key), d)
           /\ Set(Within(i, key))' = Set(Within(i, key))
           /\ GivenPrefix(Within(i, key))' = GivenPrefix(Within(i, key))
    <3> TAKE i, key, d
    <3>1. PICK W : W = Within(i, key)
      BY Zenon
    <3>2. Within(i, key)' = W /\ text' = text
      BY Zenon, <1>1, <2>3, <3>1
    <3>3. PICK l : l = Latest(W)
      BY Zenon
    <3>4. Latest(Within(i, key)) = l /\ Latest(Within(i, key))' = l
      BY Zenon, <3>1, <3>2, <3>3 DEF Latest
    <3>5. Given(Within(i, key), d)' = Given(Within(i, key), d)
      BY Zenon, <3>1, <3>2, <3>4 DEF Given
    <3>6. Set(Within(i, key))' = Set(Within(i, key))
      BY Zenon, <3>1, <3>2, <3>4 DEF Set, BoolOf
    <3>7. GivenPrefix(Within(i, key))' = GivenPrefix(Within(i, key))
      BY Zenon, <3>1, <3>2, <3>4 DEF GivenPrefix, PrefixOf
    <3> QED BY Zenon, <3>5, <3>6, <3>7
  <2>15. \A i : ProxyAt(i)' = ProxyAt(i)
    <3> TAKE i
    <3>1. /\ Given(Within(i, "target"), None)' = Given(Within(i, "target"), None)
          /\ Set(Within(i, "router"))' = Set(Within(i, "router"))
          /\ Set(Within(i, "promiscuous"))' = Set(Within(i, "promiscuous"))
      BY Zenon, <1>1, <2>14
    <3> QED BY Zenon, <1>1, <3>1 DEF ProxyAt
  <2>16. \A i : RuleSoFar(i)' = RuleSoFar(i)
    <3> TAKE i
    <3>1. Enclosing(i)' = Enclosing(i)
      BY Zenon, <2>4 DEF Enclosing, Latest
    <3>2. PICK e, W : e = Enclosing(i) /\ W = {j \in Within(e, "target") : j < i}
      BY Zenon
    <3>3. Enclosing(i)' = e /\ {j \in Within(Enclosing(i), "target") : j < i}' = W
      BY Zenon, <2>3, <3>1, <3>2
    <3>4. Inherited(i)' = Inherited(i)
      <4>1. PICK l : l = Latest(W)
        BY Zenon
      <4>2. /\ Latest({j \in Within(Enclosing(i), "target") : j < i}) = l
            /\ Latest({j \in Within(Enclosing(i), "target") : j < i})' = l
        BY Zenon, <3>2, <3>3, <4>1 DEF Latest
      <4> QED BY Zenon, <1>1, <3>2, <3>3, <4>2 DEF Inherited, Given
    <3>5. ModeSoFar(i)' = ModeSoFar(i)
      BY Zenon, <2>3, <2>5 DEF ModeSoFar
    <3>6. Given(Within(i, "target"), Inherited(i))' = Given(Within(i, "target"), Inherited(i))
      <4>1. PICK g : g = Inherited(i)
        BY Zenon
      <4>2. Given(Within(i, "target"), g)' = Given(Within(i, "target"), g)
        BY Zenon, <2>14
      <4> QED BY Zenon, <3>4, <4>1, <4>2 DEF Given
    <3>7. /\ Given(Within(i, "iface"), None)' = Given(Within(i, "iface"), None)
          /\ Set(Within(i, "autowire"))' = Set(Within(i, "autowire"))
          /\ Given(Within(i, "rewrite"), None)' = Given(Within(i, "rewrite"), None)
          /\ GivenPrefix(Within(i, "rewrite"))' = GivenPrefix(Within(i, "rewrite"))
      BY Zenon, <2>14
    <3>8. Given(Within(i, "table"), 254)' = Given(Within(i, "table"), 254)
      BY SMT, <2>14
    <3>9. RuleIs(i)' /\ RuleIs(i)
      BY Zenon, RuleSoFarIs, RuleSoFarNext
    <3>10. (text[Enclosing(i)].arg.val)' = text[Enclosing(i)].arg.val /\ (text[i].arg.val)' = text[i].arg.val
      BY Zenon, <1>1, <3>1
    <3>11. PrefixOf(text[i].pf)' = PrefixOf(text[i].pf)
      BY Zenon, <1>1 DEF PrefixOf
    <3> QED BY Zenon, <3>5, <3>6, <3>7, <3>8, <3>9, <3>10, <3>11 DEF RuleIs, MadeRule
  <2>17. Loaded' = Loaded
    BY Zenon, <1>1, <2>1, <2>4, <2>15, <2>16 DEF Loaded, LoadedProxies, LoadedRules
  <2> QED BY Zenon, <2>8, <2>9, <2>10, <2>13, <2>17
<1> QED BY Zenon, <1>1, <1>2 DEF IInv, Through

\* Every step keeps the invariant.
LEMMA IInvNext == Sound /\ IInv /\ [Next]_vars => IInv'
<1> SUFFICES ASSUME Sound, IInv, [Next]_vars PROVE IInv'
  OBVIOUS
<1>1. ASSUME NEW x \in Items, ndL_parse_block(x) PROVE IInv'
  BY Zenon, <1>1, IInvReads
<1>2. CASE LoadFails
  BY Zenon, <1>2, IInvSame DEF LoadFails
<1>3. ASSUME NEW opens \in BOOLEAN, nd_proxy_startup(opens) PROVE IInv'
  BY Zenon, <1>3, IInvSame DEF nd_proxy_startup
<1>4. CASE UNCHANGED vars
  BY Zenon, <1>4, IInvSame DEF vars
<1> QED BY Zenon, <1>1, <1>2, <1>3, <1>4 DEF Next

\* The invariant holds in every reachable state.
LEMMA IInvHolds == Spec => [](Sound /\ IInv)
<1>1. Init => Sound /\ IInv
  BY Zenon, SoundInit, IInvInit
<1>2. Sound /\ IInv /\ [Next]_vars => (Sound /\ IInv)'
  BY Zenon, SoundNext, IInvNext
<1> QED BY <1>1, <1>2, PTL DEF Spec

\* ndL_parse_block, which looks at one item and the scope, accepts exactly the files that
\* are well formed as a whole, of every length, and gives up at the first item with which
\* no well-formed file goes on.
THEOREM AcceptsWellFormedThm == Spec => []AcceptsWellFormed
<1>1. Sound /\ IInv => AcceptsWellFormed
  <2> SUFFICES ASSUME Sound, IInv, text # <<>>
               PROVE  (stage = "failed" <=> ~WellBegun) /\ (Through <=> WellFormed)
    BY Zenon DEF AcceptsWellFormed
  <2>1. CASE stage = "parsing"
    <3>1. WellBegun /\ Unfinished /\ ~Through
      BY Zenon, <2>1 DEF IInv, Through
    <3>2. Len(text) \in DOMAIN text
      BY SMT DEF IInv
    <3>3. ~WellFormed
      BY Zenon, <3>1, <3>2 DEF WellFormed, Unfinished
    <3> QED BY Zenon, <2>1, <3>1, <3>3
  <2>2. CASE stage = "failed"
    BY Zenon, <2>2 DEF IInv, Through, WellFormed
  <2>3. CASE Through
    BY Zenon, <2>3 DEF IInv, Through, WellFormed
  <2>4. stage = "parsing" \/ stage = "failed" \/ Through
    BY Zenon DEF Sound, Through
  <2> QED BY Zenon, <2>1, <2>2, <2>3, <2>4
<1> QED BY <1>1, IInvHolds, PTL

\* The target a rule takes over when it begins is its proxy's, unless one comes behind it.
LEMMA TargetIs ==
    ASSUME text \in Seq(Items), NEW i \in At("rule"), ~Late(i)
    PROVE  Given(Within(i, "target"), Inherited(i)) = Given(Within(i, "target"), ProxyAt(Enclosing(i)).target)
<1> DEFINE W == Within(Enclosing(i), "target")
           S == {j \in W : j < i}
<1>1. CASE Within(i, "target") # {}
  BY Zenon, <1>1 DEF Given
<1>2. CASE Within(i, "target") = {}
  <2>1. ASSUME NEW j \in W PROVE j < i
    <3>1. ~(j > i) /\ j # i
      BY Zenon, <1>2 DEF Late, At, Within
    <3>2. i \in Int
      BY SMT DEF At
    <3>3. j \in Enclosing(i) + 1 .. Len(text)
      BY Zenon DEF Within
    <3>4. j \in Int
      BY SMT, <3>3
    <3> QED BY SMT, <3>1, <3>2, <3>4
  <2>2. S = W
    BY Zenon, <2>1
  <2>3. Inherited(i) = Given(W, None)
    BY Zenon, <2>2 DEF Inherited
  <2>4. ProxyAt(Enclosing(i)).target = Given(W, None)
    BY Zenon DEF ProxyAt
  <2> QED BY Zenon, <2>3, <2>4
<1> QED BY Zenon, <1>1, <1>2

\* What ndL_parse_block has put in the lists entry by entry (Store, nd_proxy_create,
\* nd_rule_create) is what the file says read as a whole, however long it is: a proxy or
\* a rule for every block and the last value given for every key, and for a rule that
\* gives no target its proxy's, unless the proxy gives one behind the rule.
THEOREM LoadsWhatIsWrittenThm == Spec => []LoadsWhatIsWritten
<1>1. Sound /\ IInv => LoadsWhatIsWritten
  <2> SUFFICES ASSUME Sound, IInv, Through
               PROVE  /\ Len(proxies) = Cardinality(At("proxy"))
                      /\ Len(rules) = Cardinality(At("rule"))
                      /\ \A i \in At("proxy") : proxies[Before(i, "proxy") + 1] = ProxyAt(i)
                      /\ \A i \in At("rule") :
                            LET rule == rules[Before(i, "rule") + 1]
                                target == Given(Within(i, "target"), ProxyAt(Enclosing(i)).target)
                            IN  rule = [RuleAt(i) EXCEPT !.target = IF Late(i) THEN rule.target ELSE target]
    BY Zenon DEF LoadsWhatIsWritten
  <2>1. text \in Seq(Items) /\ WellBegun /\ LoadedProxies /\ LoadedRules /\ Stored /\ scope = "DEFAULT"
    BY Zenon DEF IInv, Sound, WellFormed, Loaded
  <2>2. Len(proxies) = Cardinality(At("proxy")) /\ Len(rules) = Cardinality(At("rule"))
    BY Zenon, <2>1, BeforeAll DEF LoadedProxies, LoadedRules
  <2>3. \A i \in At("proxy") : proxies[Before(i, "proxy") + 1] = ProxyAt(i)
    BY Zenon, <2>1 DEF LoadedProxies
  <2>4. ASSUME NEW i \in At("rule") PROVE rules[Before(i, "rule") + 1] = RuleAt(i)
    <3>1. Before(i, "rule") + 1 \in 1 .. Len(rules) /\ rules[Before(i, "rule") + 1] = RuleSoFar(i)
      BY Zenon, <2>1, PlaceIs DEF LoadedRules
    <3>2. RuleSoFar(i).mode # "UNKNOWN"
      BY Zenon, <2>1, <3>1 DEF Stored, RuleComplete
    <3>3. ModesOf(i) # {}
      BY Zenon, <2>1, <3>2, ModeIs DEF WellBegun
    <3>4. RuleSoFar(i) = RuleAt(i)
      BY SMT, <3>3 DEF RuleSoFar, RuleAt
    <3> QED BY Zenon, <3>1, <3>4
  <2>5. ASSUME NEW i \in At("rule")
        PROVE  LET rule == rules[Before(i, "rule") + 1]
                   target == Given(Within(i, "target"), ProxyAt(Enclosing(i)).target)
               IN  rule = [RuleAt(i) EXCEPT !.target = IF Late(i) THEN rule.target ELSE target]
    <3> DEFINE rule == rules[Before(i, "rule") + 1]
               target == Given(Within(i, "target"), ProxyAt(Enclosing(i)).target)
               t == IF Late(i) THEN rule.target ELSE target
    <3>1. rule = RuleAt(i)
      BY Zenon, <2>4
    <3>2. RuleAt(i).target = Given(Within(i, "target"), Inherited(i))
      BY Zenon DEF RuleAt
    <3>3. ~Late(i) => RuleAt(i).target = target
      BY Zenon, <2>1, <3>2, TargetIs
    <3> HIDE DEF rule, target
    <3>4. t = RuleAt(i).target
      BY Zenon, <3>1, <3>3
    <3> HIDE DEF t
    <3>5. RuleAt(i) = [RuleAt(i) EXCEPT !.target = t]
      BY SMT, <3>4 DEF RuleAt
    <3> QED BY Zenon, <3>1, <3>5 DEF rule, target, t
  <2> QED BY Zenon, <2>2, <2>3, <2>5
<1> QED BY <1>1, IInvHolds, PTL

=============================================================================
