------------------------------ MODULE MCWiring ------------------------------
(* A small instance of Wiring: the target a, asked for through one proxy or two. *)
EXTENDS Wiring

CONSTANTS wan, wan2, lan, px, py

MCProxyIface == [p \in Proxies |-> IF p = px THEN wan ELSE wan2]

MCRuleOf == [k \in Keys |-> [mode |-> "IFACE", iface |-> lan, table |-> 254, autowire |-> TRUE]]

MCTgtR == [k \in Keys |-> k[2]]

MCBaseRefs == [i \in Ifaces |-> 1]

=============================================================================
