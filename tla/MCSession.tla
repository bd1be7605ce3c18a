----------------------------- MODULE MCSession -----------------------------
(* Small configurations of Session for TLC. *)
EXTENDS SessionResolver

CONSTANTS
    wan, wan2,      \* interfaces the proxies listen on
    lan,            \* the downstream interface
    px, py,         \* proxies, on wan and wan2
    a, b, d, z,     \* addresses
    h1, h2          \* soliciting neighbours

MCProxyIface == [p \in Proxies |-> IF p = px THEN wan ELSE wan2]

IfaceRule == [mode |-> "IFACE", iface |-> lan, table |-> 254, autowire |-> TRUE]

AutoRule == [mode |-> "AUTO", iface |-> None, table |-> 254, autowire |-> FALSE]

StaticRule == [mode |-> "STATIC", iface |-> None, table |-> 254, autowire |-> FALSE]

IfaceRules == [k \in Keys |-> IfaceRule]

\* a is behind lan, d wherever its route says, z is answered statically, and no rule covers b.
EveryRule ==
    [k \in Keys |-> CASE k[2] = a -> IfaceRule [] k[2] = b -> None [] k[2] = d -> AutoRule [] k[2] = z -> StaticRule]

SameTarget == [k \in Keys |-> k[2]]

\* a is rewritten to b.
RewriteToB == [k \in Keys |-> IF k[2] = a THEN b ELSE k[2]]

\* Proxies and rules each hold a reference on their interface.
RuleRefs == [i \in Ifaces |-> IF i = wan2 /\ py \notin Proxies THEN 0 ELSE 1]

LanOwnsB == {<<lan, b>>}

RouteToD == {<<d, 254>>}

=============================================================================
