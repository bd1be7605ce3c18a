------------------------------- MODULE MCConf -------------------------------
(* Small files for Conf. *)
EXTENDS Conf

CONSTANTS a, b, m1, m2, wan, lan    \* addresses, link-layer addresses, interface names

None0 == [kind |-> "none", val |-> None]

V(kind, val) == [kind |-> kind, val |-> val]

Entry(key, arg) == [key |-> key, arg |-> arg, pf |-> None0, ok |-> TRUE]

\* The headers and the ends of blocks ...
Blocks ==
    {Entry("proxy", V("name", wan)), Entry("proxy", V("name", lan)),
     Entry("rule", V("addr", a)), Entry("END", None0), Entry("EOF", None0)}

\* ... what may stand inside them ...
Settings ==
    {Entry("keepalive", V("name", "no")), Entry("valid-ttl", V("int", 10000)), Entry("retrans-time", V("int", 0)),
     Entry("target", V("lladdr", m1)), Entry("target", V("lladdr", m2)),
     Entry("auto", None0), Entry("iface", V("name", lan)), Entry("autowire", None0),
     [Entry("rewrite", V("addr", b)) EXCEPT !.pf = V("int", 0)]}

\* ... and entries that are wrong wherever they stand: out of range, of the wrong kind,
\* unknown, ended wrongly.
Errors ==
    {Entry("valid-ttl", V("int", 9999)), Entry("table", V("int", 256)), Entry("stale-ttl", V("int", 30000)), Entry("autowire", V("int", 1)),
     Entry("iface", None0), [Entry("rule", V("addr", a)) EXCEPT !.pf = V("int", -1)],
     [Entry("rule", V("addr", a)) EXCEPT !.pf = V("int", 129)], [Entry("END", None0) EXCEPT !.ok = FALSE]}

MCItems == Blocks \cup Settings \cup Errors

=============================================================================
