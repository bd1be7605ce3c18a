-------------------------------- MODULE Conf --------------------------------
(***************************************************************************)
(* The configuration: conf.c, with nd_proxy_create and nd_proxy_startup    *)
(* (proxy.c) and nd_rule_create (rule.c).  The file is read one item at a  *)
(* time, an item being an entry with its value, the end of a block or the  *)
(* end of the file; which item comes next is chosen as the parser gets     *)
(* there.  The recursion of ndL_parse_block is the variable `scope'.       *)
(*                                                                         *)
(* An item is [key, arg, pf, ok]: the value after the key, the prefix      *)
(* length after a `/', and whether what follows is what the grammar wants  *)
(* there: `{' after the header of a block; a newline, `}' or the end of    *)
(* the file after everything else.  A value is [kind, val]; what no        *)
(* acceptor takes (malformed, or too long for its buffer) is of kind junk. *)
(***************************************************************************)
EXTENDS Integers, Sequences, FiniteSets

CONSTANTS
    Names,          \* interface names
    None,           \* NULL, an empty name, an all-zero address
    Items,          \* what may be written in the file
    MAXITEMS        \* bound: the items of a file

\* An acceptor of numbers yields a number, and what names an interface is a name.
ASSUME ConfAssumption ==
    /\ MAXITEMS \in Nat
    /\ None \notin Names
    /\ \A x \in Items :
          /\ x.ok \in BOOLEAN
          /\ \A v \in {x.arg, x.pf} : v = [kind |-> v.kind, val |-> v.val] /\ (v.kind = "int" => v.val \in Int)
          /\ x.key \in {"proxy", "iface"} /\ x.arg.kind = "name" => x.arg.val \in Names

VARIABLES
    text,           \* history: the items read so far
    stage,          \* "parsing", "failed", "loaded", "refused" or "started"
    scope,          \* of the block being parsed
    conf,           \* the nd_conf_ variables
    proxies,        \* ndL_proxies, in the order of the file: the list's head is the last
    rules,          \* the rules of all proxies, likewise
    refs            \* [Names -> Nat]: the references nd_proxy_startup takes

vars == <<text, stage, scope, conf, proxies, rules, refs>>

Last(s) == s[Len(s)]

Defaults ==
    [invalid_ttl |-> 10000, valid_ttl |-> 30000, renew |-> 5000, retrans_limit |-> 3,
     retrans_time |-> 1000, keepalive |-> FALSE]

\* The key, the scope it is known in, the type of its value, where it is stored, its range.
Row(key, in, type, field, min, max) ==
    [key |-> key, scope |-> in, type |-> type, field |-> field, min |-> min, max |-> max]

ndL_cfinfo_table ==
    {Row("proxy", "DEFAULT", "PROXY", "none", 0, 0),
     Row("rule", "PROXY", "RULE", "none", 0, 0),
     Row("rewrite", "RULE", "REWRITE", "none", 0, 0),
     Row("invalid-ttl", "DEFAULT", "INT", "invalid_ttl", 1000, 3600000),
     Row("valid-ttl", "DEFAULT", "INT", "valid_ttl", 10000, 3600000),
     Row("renew", "DEFAULT", "INT", "renew", 0, 0),
     Row("retrans-limit", "DEFAULT", "INT", "retrans_limit", 0, 10),
     Row("retrans-time", "DEFAULT", "INT", "retrans_time", 0, 60000),
     Row("keepalive", "DEFAULT", "BOOL", "keepalive", 0, 0),
     Row("router", "PROXY", "BOOL", "router", 0, 0),
     Row("promiscuous", "PROXY", "BOOL", "promiscuous", 0, 0),
     Row("auto", "RULE", "MODE", "AUTO", 0, 0),
     Row("static", "RULE", "MODE", "STATIC", 0, 0),
     Row("autowire", "RULE", "BOOL", "autowire", 0, 0),
     Row("iface", "RULE", "MODE", "IFACE", 0, 0),
     Row("target", "PROXY", "LLADDR", "target", 0, 0),
     Row("target", "RULE", "LLADDR", "target", 0, 0),
     Row("table", "RULE", "INT", "table", 0, 255)}

----------------------------------------------------------------------------
(* The acceptors.                                                          *)

\* Mutant: only the upper bound is checked.
AcceptIntBelow(v, min, max) == v.kind = "int" /\ v.val <= max

ndL_accept_int(v, min, max) == v.kind = "int" /\ v.val >= min /\ v.val <= max

ndL_accept_addr(v) == v.kind = "addr"

ndL_accept_lladdr(v) == v.kind = "lladdr"

ndL_accept_name(v) == v.kind = "name"

\* No value stands for yes.
ndL_accept_bool(v) == v.kind = "none" \/ (v.kind = "name" /\ v.val \in {"yes", "true", "no", "false"})

BoolOf(v) == v.kind = "none" \/ v.val \in {"yes", "true"}

AcceptPrefix(v) == v.kind = "none" \/ ndL_accept_int(v, 0, 128)

PrefixOf(v) == IF v.kind = "none" THEN 128 ELSE v.val

\* The value of an entry is one its row takes, whatever was read before it.
Fits(x, t) ==
    /\ t.type = "INT" => ndL_accept_int(x.arg, t.min, t.max)
    /\ t.type = "BOOL" => ndL_accept_bool(x.arg)
    /\ t.type = "LLADDR" => ndL_accept_lladdr(x.arg)
    /\ t.type = "PROXY" \/ t.field = "IFACE" => ndL_accept_name(x.arg)
    /\ t.type \in {"RULE", "REWRITE"} => ndL_accept_addr(x.arg) /\ AcceptPrefix(x.pf)

----------------------------------------------------------------------------
(* The entries.                                                            *)

Store(t, v) ==
    /\ conf' = IF scope = "DEFAULT" THEN [conf EXCEPT ![t.field] = v] ELSE conf
    /\ proxies' = IF scope = "PROXY" THEN [proxies EXCEPT ![Len(proxies)][t.field] = v] ELSE proxies
    /\ rules' = IF scope = "RULE" THEN [rules EXCEPT ![Len(rules)][t.field] = v] ELSE rules
    /\ UNCHANGED scope

nd_proxy_create(ifname) ==
    Append(proxies, [ifname |-> ifname, target |-> None, router |-> FALSE, promiscuous |-> FALSE])

ndL_parse_proxy(x) ==
    /\ proxies' = nd_proxy_create(x.arg.val)
    /\ scope' = "PROXY"
    /\ UNCHANGED <<conf, rules>>

\* Mutant: the rule does not take over the proxy's target.
RuleCreateBare(proxy, addr, prefix) ==
    [proxy |-> proxy.ifname, addr |-> addr, prefix |-> prefix, target |-> None, mode |-> "UNKNOWN",
     ifname |-> None, autowire |-> FALSE, table |-> 254, rewrite_tgt |-> None, rewrite_pflen |-> 0]

\* The proxy's target is copied now: a later one does not reach the rule.
nd_rule_create(proxy, addr, prefix) ==
    [proxy |-> proxy.ifname, addr |-> addr, prefix |-> prefix, target |-> proxy.target, mode |-> "UNKNOWN",
     ifname |-> None, autowire |-> FALSE, table |-> 254, rewrite_tgt |-> None, rewrite_pflen |-> 0]

ndL_parse_rule(x) ==
    /\ rules' = Append(rules, nd_rule_create(Last(proxies), x.arg.val, PrefixOf(x.pf)))
    /\ scope' = "RULE"
    /\ UNCHANGED <<conf, proxies>>

ndL_parse_rewrite(x) ==
    /\ rules' = [rules EXCEPT ![Len(rules)] =
                     [@ EXCEPT !.rewrite_tgt = x.arg.val, !.rewrite_pflen = PrefixOf(x.pf)]]
    /\ UNCHANGED <<scope, conf, proxies>>

ndL_parse_mode(x, t) ==
    /\ rules' = [rules EXCEPT ![Len(rules)] =
                     [@ EXCEPT !.mode = t.field,
                               !.ifname = IF t.field = "IFACE" THEN x.arg.val ELSE Last(rules).ifname]]
    /\ UNCHANGED <<scope, conf, proxies>>

\* The rows of the table for an entry: its key, known in this scope.
Rows(x) == {t \in ndL_cfinfo_table : t.scope = scope /\ t.key = x.key}

\* Besides its value: nd_proxy_create wants a new name, ndL_parse_mode no mode so far.
EntryAccepted(x, t) ==
    /\ Fits(x, t)
    /\ t.type = "PROXY" => \A i \in DOMAIN proxies : proxies[i].ifname # x.arg.val
    /\ t.type = "MODE" => Last(rules).mode = "UNKNOWN"

\* Mutant: a rule needs no mode.
RuleCompleteAnyMode(r) == r.autowire => r.mode = "IFACE"

\* What ndL_parse_rule checks of the block it has read.
RuleComplete(r) == r.mode # "UNKNOWN" /\ (r.autowire => r.mode = "IFACE")

Accepted(x) ==
    CASE x.key = "EOF" -> scope = "DEFAULT"
      [] x.key = "END" -> x.ok /\ scope # "DEFAULT" /\ (scope = "RULE" => RuleComplete(Last(rules)))
      [] OTHER -> x.ok /\ \E t \in Rows(x) : EntryAccepted(x, t)

ParseEntry(x) ==
    \E t \in Rows(x) :
        \/ t.type = "BOOL" /\ Store(t, BoolOf(x.arg))
        \/ t.type \in {"INT", "LLADDR"} /\ Store(t, x.arg.val)
        \/ t.type = "PROXY" /\ ndL_parse_proxy(x)
        \/ t.type = "RULE" /\ ndL_parse_rule(x)
        \/ t.type = "REWRITE" /\ ndL_parse_rewrite(x)
        \/ t.type = "MODE" /\ ndL_parse_mode(x, t)

ParseEnd ==
    /\ scope' = IF scope = "RULE" THEN "PROXY" ELSE "DEFAULT"
    /\ UNCHANGED <<conf, proxies, rules>>

----------------------------------------------------------------------------
(* The actions.                                                            *)

Init ==
    /\ text = <<>>
    /\ stage = "parsing"
    /\ scope = "DEFAULT"
    /\ conf = Defaults
    /\ proxies = <<>>
    /\ rules = <<>>
    /\ refs = [n \in Names |-> 0]

\* The parser goes on, is through, or gives up; then main exits.
ndL_parse_block(x) ==
    /\ stage = "parsing"
    /\ Len(text) < MAXITEMS
    /\ text' = Append(text, x)
    /\ UNCHANGED refs
    /\ \/ /\ ~Accepted(x)
          /\ stage' = "failed"
          /\ UNCHANGED <<scope, conf, proxies, rules>>
       \/ /\ Accepted(x)
          /\ x.key = "EOF"
          /\ stage' = "loaded"
          /\ UNCHANGED <<scope, conf, proxies, rules>>
       \/ /\ Accepted(x)
          /\ x.key # "EOF"
          /\ IF x.key = "END" THEN ParseEnd ELSE ParseEntry(x)
          /\ UNCHANGED stage

\* The file cannot be opened or read, or is empty.
LoadFails ==
    /\ stage = "parsing"
    /\ text = <<>>
    /\ stage' = "failed"
    /\ UNCHANGED <<text, scope, conf, proxies, rules, refs>>

RulesOf(p) == {i \in DOMAIN rules : rules[i].proxy = p.ifname}

Startable == proxies # <<>> /\ \A i \in DOMAIN proxies : RulesOf(proxies[i]) # {}

\* Every proxy and every rule with an interface opens it; opening may fail.
nd_proxy_startup(opens) ==
    /\ stage = "loaded"
    /\ IF Startable /\ opens
       THEN /\ stage' = "started"
            /\ refs' = [n \in Names |-> Cardinality({i \in DOMAIN proxies : proxies[i].ifname = n})
                                        + Cardinality({i \in DOMAIN rules : rules[i].ifname = n})]
       ELSE stage' = "refused" /\ UNCHANGED refs
    /\ UNCHANGED <<text, scope, conf, proxies, rules>>

Next ==
    \/ \E x \in Items : ndL_parse_block(x)
    \/ LoadFails
    \/ \E opens \in BOOLEAN : nd_proxy_startup(opens)

Spec == Init /\ [][Next]_vars

----------------------------------------------------------------------------
(* What a file means, read as a whole.                                     *)

\* How many of the items before the i-th have the given key.
Before(i, key) == Cardinality({j \in 1 .. i - 1 : text[j].key = key})

\* How many blocks the i-th item is in; an end of block is in the block it ends.
Depth(i) == Before(i, "proxy") + Before(i, "rule") - Before(i, "END")

ScopeAt(i) == <<"DEFAULT", "PROXY", "RULE">>[Depth(i) + 1]

\* The items directly in the block that the i-th item opens, with the given key.
Within(i, key) ==
    {j \in i + 1 .. Len(text) :
        /\ text[j].key = key
        /\ Depth(j) = Depth(i) + 1
        /\ \A k \in i + 1 .. j : Depth(k) > Depth(i)}

Latest(S) == CHOOSE i \in S : \A j \in S : j <= i

\* The value last given in S, or the default.
Given(S, default) == IF S = {} THEN default ELSE text[Latest(S)].arg.val

GivenPrefix(S) == IF S = {} THEN 0 ELSE PrefixOf(text[Latest(S)].pf)

Set(S) == S # {} /\ BoolOf(text[Latest(S)].arg)

ModesOf(i) == Within(i, "auto") \cup Within(i, "static") \cup Within(i, "iface")

At(key) == {i \in DOMAIN text : text[i].key = key}

\* An entry is known where it stands and its value is in range; a block ends where one is
\* open, the file where none is.
ItemOK(i) ==
    IF text[i].key = "EOF" THEN i = Len(text) /\ Depth(i) = 0
    ELSE /\ text[i].ok
         /\ Depth(i) \in 0 .. 2
         /\ IF text[i].key = "END" THEN Depth(i) > 0
            ELSE \E t \in ndL_cfinfo_table : t.key = text[i].key /\ t.scope = ScopeAt(i) /\ Fits(text[i], t)

\* A rule has one mode at most, and when its block has ended it has one, which is that of
\* an interface if the rule has autowire.
RuleOK(i) ==
    /\ Cardinality(ModesOf(i)) <= 1
    /\ Within(i, "END") # {} =>
          ModesOf(i) # {} /\ (Set(Within(i, "autowire")) => Within(i, "iface") # {})

\* What is read so far can be the beginning of a well-formed file.
WellBegun ==
    /\ \A i \in DOMAIN text : ItemOK(i)
    /\ \A i, j \in At("proxy") : text[i].arg = text[j].arg => i = j
    /\ \A i \in At("rule") : RuleOK(i)

WellFormed == WellBegun /\ text[Len(text)].key = "EOF"

\* The proxy block that the rule at i is in.
Enclosing(i) == Latest({j \in At("proxy") : j < i})

\* The target that its proxy had been given when the rule at i began.
Inherited(i) == Given({j \in Within(Enclosing(i), "target") : j < i}, None)

RuleAt(i) ==
    [proxy |-> text[Enclosing(i)].arg.val,
     addr |-> text[i].arg.val,
     prefix |-> PrefixOf(text[i].pf),
     target |-> Given(Within(i, "target"), Inherited(i)),
     mode |-> IF Within(i, "auto") # {} THEN "AUTO" ELSE IF Within(i, "static") # {} THEN "STATIC" ELSE "IFACE",
     ifname |-> Given(Within(i, "iface"), None),
     autowire |-> Set(Within(i, "autowire")),
     table |-> Given(Within(i, "table"), 254),
     rewrite_tgt |-> Given(Within(i, "rewrite"), None),
     rewrite_pflen |-> GivenPrefix(Within(i, "rewrite"))]

ProxyAt(i) ==
    [ifname |-> text[i].arg.val, target |-> Given(Within(i, "target"), None),
     router |-> Set(Within(i, "router")), promiscuous |-> Set(Within(i, "promiscuous"))]

----------------------------------------------------------------------------
(* Properties. *)

Through == stage \in {"loaded", "refused", "started"}

\* The parser of one item at a time accepts exactly the well-formed files: balanced
\* blocks, known keys in their scope with values in range, no second proxy for an
\* interface, and rules with "exactly one of auto, iface <if>, or static", autowire
\* only with the last but one.  It gives up at the first item that no well-formed file has
\* after those before it, and not earlier.
AcceptsWellFormed ==
    text # <<>> => (stage = "failed" <=> ~WellBegun) /\ (Through <=> WellFormed)

\* The rule gives no target, and its proxy gives one behind it.
Late(i) == Within(i, "target") = {} /\ \E j \in Within(Enclosing(i), "target") : j > i

\* What is loaded is what the file says: every block has become one proxy or rule, with
\* the last value given for each key, and the target a rule does not give itself is its
\* proxy's.  Left out is the target of a rule whose proxy gives one behind it, which
\* README.md:156 has reach the rule and nd_rule_create does not: see TargetForAllRules.
LoadsWhatIsWritten ==
    Through =>
        /\ Len(proxies) = Cardinality(At("proxy"))
        /\ Len(rules) = Cardinality(At("rule"))
        /\ \A i \in At("proxy") : proxies[Before(i, "proxy") + 1] = ProxyAt(i)
        /\ \A i \in At("rule") :
              LET rule == rules[Before(i, "rule") + 1]
                  target == Given(Within(i, "target"), ProxyAt(Enclosing(i)).target)
              IN  rule = [RuleAt(i) EXCEPT !.target = IF Late(i) THEN rule.target ELSE target]

\* A daemon that starts has what the session table relies on: something to do, modes
\* that agree with the interfaces, autowire with an interface only, positive ttls, a time
\* and a limit of retransmission that are not negative, a prefix length and a table in
\* range, and a reference on every interface a rule or a proxy names.
UsableBySessions ==
    stage = "started" =>
        /\ proxies # <<>>
        /\ \A i \in DOMAIN proxies : RulesOf(proxies[i]) # {} /\ refs[proxies[i].ifname] > 0
        /\ \A i, j \in DOMAIN proxies : proxies[i].ifname = proxies[j].ifname => i = j
        /\ \A i \in DOMAIN rules :
              /\ rules[i].mode \in {"STATIC", "IFACE", "AUTO"}
              /\ rules[i].mode = "IFACE" <=> rules[i].ifname # None
              /\ rules[i].ifname # None => refs[rules[i].ifname] > 0
              /\ rules[i].autowire => rules[i].mode = "IFACE"
              /\ rules[i].prefix \in 0 .. 128 /\ rules[i].rewrite_pflen \in 0 .. 128
              /\ rules[i].table \in 0 .. 255
        /\ conf.valid_ttl > 0 /\ conf.invalid_ttl > 0 /\ conf.retrans_time >= 0 /\ conf.retrans_limit >= 0

\* README.md: a proxy's target is the "advertised MAC for all rules": a rule without a
\* target of its own has its proxy's.  It does not hold: conf_target.cfg shows a proxy that
\* is given its target behind the rule.
TargetForAllRules ==
    Through => \A i \in DOMAIN rules, j \in DOMAIN proxies :
        /\ rules[i].proxy = proxies[j].ifname
        /\ \A k \in At("rule") : Within(k, "target") = {}
        => rules[i].target = proxies[j].target

=============================================================================
