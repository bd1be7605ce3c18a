------------------------------- MODULE Packet -------------------------------
(***************************************************************************)
(* The packet socket of iface.c on Linux: how it is opened, the filter it  *)
(* has, what becomes of a frame that arrives, and the frames the daemon    *)
(* sends.  Frames are the bytes on the wire, at their real sizes; offsets  *)
(* are those of the C structures, from 0.                                  *)
(*                                                                         *)
(* A frame is sent by a neighbour, or by this program on another host.     *)
(* What its sender put into it, "sent", travels with it as a history.      *)
(***************************************************************************)
EXTENDS Addr, FiniteSetsExt, SequencesExt

CONSTANTS
    Ifaces,         \* index -> [up, proxy, lladdr]: ndL_first_iface
    RuleLists,      \* the rules the proxy may have, in the order of its list
    Messages,       \* what neighbours send: see Frame
    Asked,          \* the targets this program solicits or advertises
    Asker,          \* [addr, lladdr]: whom it answers
    None            \* NULL

VARIABLES
    sock,           \* what nd_iface_startup has made of ndL_io
    rules,          \* proxy->rules
    queue,          \* the frame the socket holds, if any, and as a history what it was to say
    handed          \* history: [got, want, apart] of the last frame, None if none has come since

vars == <<sock, rules, queue, handed>>

At(frame, off) == frame[off + 1]

Bytes(frame, off, n) == SubSeq(frame, off + 1, off + n)

\* ntohs
u16(frame, off) == 256 * At(frame, off) + At(frame, off + 1)

htons(n) == <<n \div 256, n % 256>>

ETHER == 14                 \* sizeof(struct ether_header)
IP6_MSG == ETHER + 40       \* sizeof(ndL_ip6_msg_t)
ICMP6 == 8                  \* sizeof(struct icmp6_hdr)
ND_MSG == 24                \* sizeof(struct nd_neighbor_solicit), and of _advert

ETHERTYPE_IPV6 == 34525
IPPROTO_HOPOPTS == 0
IPPROTO_ICMPV6 == 58
ND_NEIGHBOR_SOLICIT == 135
ND_NEIGHBOR_ADVERT == 136
MLD_LISTENER_QUERY == 130
MLD_LISTENER_REPORT == 131
ND_OPT_SOURCE_LINKADDR == 1
ND_OPT_TARGET_LINKADDR == 2

-----------------------------------------------------------------------------
(* The checksum.                                                           *)

\* A last byte without a second one is added as it is.
RECURSIVE ndL_calculate_checksum(_, _)
ndL_calculate_checksum(sum, data) ==
    IF data = <<>> THEN sum
    ELSE LET s == sum + (IF Len(data) > 1 THEN u16(data, 0) ELSE At(data, 0))
         IN ndL_calculate_checksum(IF s > 65535 THEN s - 65535 ELSE s, SubSeq(data, 3, Len(data)))

\* The ICMPv6 message is the end of the frame.  Its checksum counts as 0.
ndL_calculate_icmp6_checksum(src, dst, icmp6) ==
    LET hdr == src \o dst \o <<0, 0>> \o htons(Len(icmp6)) \o <<0, 0, 0, IPPROTO_ICMPV6>>
                   \o Bytes(icmp6, 0, 2) \o <<0, 0>> \o Bytes(icmp6, 4, 4)
    IN 65535 - ndL_calculate_checksum(ndL_calculate_checksum(65535, hdr),
                                      Bytes(icmp6, ICMP6, Len(icmp6) - ICMP6))

-----------------------------------------------------------------------------
(* The filter, and the machine of the kernel that runs it.                 *)

Stmt(op, k) == [op |-> op, k |-> k, jt |-> 0, jf |-> 0]

Jeq(k, jt, jf) == [op |-> "jeq", k |-> k, jt |-> jt, jf |-> jf]

\* ndL_configure_filter
filter == <<
    Stmt("ldh", 12),
    Jeq(ETHERTYPE_IPV6, 0, 17),
    Stmt("ldx", IP6_MSG),
    Stmt("ldb", ETHER + 6),
    Jeq(IPPROTO_HOPOPTS, 0, 8),
    Stmt("ldb_x", 0),
    Stmt("st", 0),
    Stmt("ldb_x", 1),
    Stmt("mul", 8),
    Stmt("add", 8),
    Stmt("add_x", 0),
    Stmt("tax", 0),
    Stmt("ld_m", 0),
    Jeq(IPPROTO_ICMPV6, 0, 5),
    Stmt("ldb_x", 0),
    Jeq(ND_NEIGHBOR_SOLICIT, 4, 0),
    Jeq(ND_NEIGHBOR_ADVERT, 3, 0),
    Jeq(MLD_LISTENER_QUERY, 2, 0),
    Jeq(MLD_LISTENER_REPORT, 1, 0),
    Stmt("ret", 0),
    Stmt("ret", 1) >>

\* Runs from instruction pc on, with the registers A and X and the cell M[0].  A load from
\* outside the frame rejects it.
RECURSIVE Run(_, _, _, _, _)
Run(frame, pc, A, X, M) ==
    LET i == filter[pc + 1]
        Load(off, n) ==
            IF off + n > Len(frame) THEN FALSE
            ELSE Run(frame, pc + 1, IF n = 1 THEN At(frame, off) ELSE u16(frame, off), X, M)
    IN CASE i.op = "ldh" -> Load(i.k, 2)
         [] i.op = "ldb" -> Load(i.k, 1)
         [] i.op = "ldb_x" -> Load(X + i.k, 1)
         [] i.op = "ldx" -> Run(frame, pc + 1, A, i.k, M)
         [] i.op = "ld_m" -> Run(frame, pc + 1, M, X, M)
         [] i.op = "st" -> Run(frame, pc + 1, A, X, A)
         [] i.op = "mul" -> Run(frame, pc + 1, A * i.k, X, M)
         [] i.op = "add" -> Run(frame, pc + 1, A + i.k, X, M)
         [] i.op = "add_x" -> Run(frame, pc + 1, A + X, X, M)
         [] i.op = "tax" -> Run(frame, pc + 1, A, A, M)
         [] i.op = "jeq" -> Run(frame, pc + 1 + (IF A = i.k THEN i.jt ELSE i.jf), A, X, M)
         [] i.op = "ret" -> i.k = 1

Passes(frame) == Run(frame, 0, 0, 0, 0)

-----------------------------------------------------------------------------
(* What becomes of a frame.                                                *)

Drop == [kind |-> "drop"]

\* The rule of a session for the target, and the address the session asks for:
\* nd_proxy_handle_ns and nd_session_create.  Without a rule there is none.
Matching(tgt) == {r \in DOMAIN rules : nd_addr_match(rules[r].addr, tgt, rules[r].prefix)}

nd_proxy_handle_ns(src, dst, tgt, src_ll) ==
    IF Matching(tgt) = {} THEN Drop
    ELSE LET r == Min(Matching(tgt))
         IN [kind |-> "ns", src |-> src, dst |-> dst, src_ll |-> src_ll, tgt |-> tgt, rule |-> r,
             tgt_r |-> nd_addr_combine(rules[r].rewrite_tgt, tgt, rules[r].rewrite_pflen)]

\* Mutant: the source link-layer address is taken from the first option only.
FindSourceFirst(opts, src_ll) ==
    [zero |-> Len(opts) >= 8 /\ At(opts, 1) = 0,
     ll |-> IF Len(opts) >= 8 /\ At(opts, 0) = ND_OPT_SOURCE_LINKADDR /\ At(opts, 1) = 1
            THEN Bytes(opts, 2, 6) ELSE src_ll]

\* The options from opts on: whether one has length 0, and the last source link-layer
\* address before it.  One that is cut off ends the search.
RECURSIVE FindSource(_, _)
FindSource(opts, src_ll) ==
    IF Len(opts) < 8 THEN [zero |-> FALSE, ll |-> src_ll]
    ELSE IF At(opts, 1) = 0 THEN [zero |-> TRUE, ll |-> src_ll]
    ELSE IF 8 * At(opts, 1) > Len(opts) THEN [zero |-> FALSE, ll |-> src_ll]
    ELSE FindSource(SubSeq(opts, 8 * At(opts, 1) + 1, Len(opts)),
                    IF At(opts, 0) = ND_OPT_SOURCE_LINKADDR /\ At(opts, 1) = 1
                    THEN Bytes(opts, 2, 6) ELSE src_ll)

ndL_handle_ns(iface, src, dst, icmp6, eth_src) ==
    LET tgt == Bytes(icmp6, 8, 16)
        found == FindSource(Bytes(icmp6, ND_MSG, Len(icmp6) - ND_MSG), None)
    IN IF ~Ifaces[iface].proxy \/ Len(icmp6) < ND_MSG THEN Drop
       ELSE IF nd_addr_is_multicast(tgt) THEN Drop
       ELSE IF nd_addr_is_unspecified(src) THEN nd_proxy_handle_ns(src, dst, tgt, None)
       ELSE IF found.zero THEN Drop
       ELSE nd_proxy_handle_ns(src, dst, tgt, IF found.ll = None THEN eth_src ELSE found.ll)

ndL_handle_na(icmp6) ==
    IF Len(icmp6) < ND_MSG THEN Drop ELSE [kind |-> "na", tgt |-> Bytes(icmp6, 8, 16)]

Dispatch(iface, frame, icmp6) ==
    LET src == Bytes(frame, ETHER + 8, 16)
        dst == Bytes(frame, ETHER + 24, 16)
        type == At(icmp6, 0)
    IN IF ndL_calculate_icmp6_checksum(src, dst, icmp6) # u16(icmp6, 2) THEN Drop
       ELSE IF At(frame, ETHER + 7) # 255 THEN Drop
       ELSE CASE type = ND_NEIGHBOR_SOLICIT -> ndL_handle_ns(iface, src, dst, icmp6, Bytes(frame, 6, 6))
              [] type = ND_NEIGHBOR_ADVERT -> ndL_handle_na(icmp6)
              [] type = MLD_LISTENER_QUERY -> [kind |-> "mlq"]
              [] type = MLD_LISTENER_REPORT -> [kind |-> "mlr"]
              [] OTHER -> Drop

\* i: the length of the hop-by-hop header.
ndL_handle_msg(iface, frame) ==
    LET plen == u16(frame, ETHER + 4)
        hopopts == At(frame, ETHER + 6) = IPPROTO_HOPOPTS
        i == IF hopopts THEN 8 + 8 * At(frame, IP6_MSG + 1) ELSE 0
    IN IF hopopts /\ plen < 8 THEN Drop
       ELSE IF plen < i THEN Drop
       ELSE IF At(frame, IF hopopts THEN IP6_MSG ELSE ETHER + 6) # IPPROTO_ICMPV6 THEN Drop
       ELSE IF plen - i < ICMP6 THEN Drop
       ELSE Dispatch(iface, frame, Bytes(frame, IP6_MSG + i, plen - i))

-----------------------------------------------------------------------------
(* The frames the program sends.                                           *)

ndL_get_local_addr(lladdr) ==
    <<254, 128, 0, 0, 0, 0, 0, 0, lladdr[1] ^^ 2, lladdr[2], lladdr[3], 255, 254,
      lladdr[4], lladdr[5], lladdr[6]>>

\* icmp6 has a checksum of 0.
ndL_send_icmp6(iface, src, dst, icmp6, lladdr) ==
    lladdr \o Ifaces[iface].lladdr \o htons(ETHERTYPE_IPV6)
        \o <<96, 0, 0, 0>> \o htons(Len(icmp6)) \o <<IPPROTO_ICMPV6, 255>> \o src \o dst
        \o Bytes(icmp6, 0, 2) \o htons(ndL_calculate_icmp6_checksum(src, dst, icmp6))
        \o Bytes(icmp6, 4, Len(icmp6) - 4)

\* Mutant: the flag that says the advertisement was asked for is missing.
AdvertUnasked(iface, dst, dst_ll, tgt, tgt_ll, router) ==
    LET flags == 32 + (IF router THEN 128 ELSE 0)
        ll == IF tgt_ll = None THEN Ifaces[iface].lladdr ELSE tgt_ll
    IN ndL_send_icmp6(iface, tgt, dst,
                      <<ND_NEIGHBOR_ADVERT, 0, 0, 0, flags, 0, 0, 0>> \o tgt
                          \o <<ND_OPT_TARGET_LINKADDR, 1>> \o ll,
                      dst_ll)

\* ND_NA_FLAG_ROUTER, _SOLICITED and _OVERRIDE are 128, 64 and 32.
nd_iface_send_na(iface, dst, dst_ll, tgt, tgt_ll, router) ==
    LET flags == 32 + (IF nd_addr_is_multicast(dst) THEN 0 ELSE 64) + (IF router THEN 128 ELSE 0)
        ll == IF tgt_ll = None THEN Ifaces[iface].lladdr ELSE tgt_ll
    IN ndL_send_icmp6(iface, tgt, dst,
                      <<ND_NEIGHBOR_ADVERT, 0, 0, 0, flags, 0, 0, 0>> \o tgt
                          \o <<ND_OPT_TARGET_LINKADDR, 1>> \o ll,
                      dst_ll)

nd_iface_send_ns(iface, tgt) ==
    ndL_send_icmp6(iface, ndL_get_local_addr(Ifaces[iface].lladdr),
                   <<255, 2, 0, 0, 0, 0, 0, 0, 0, 0, 0, 1, 255, tgt[14], tgt[15], tgt[16]>>,
                   <<ND_NEIGHBOR_SOLICIT, 0, 0, 0, 0, 0, 0, 0>> \o tgt
                       \o <<ND_OPT_SOURCE_LINKADDR, 1>> \o Ifaces[iface].lladdr,
                   <<51, 51, 255, tgt[14], tgt[15], tgt[16]>>)

-----------------------------------------------------------------------------
(* What a neighbour's message looks like, and what is to become of it: the *)
(* reference the code above is compared with.                              *)
(*                                                                         *)
(* A message is [ether, over, hbh, nxt, hops, bad, type, src, tgt, opts,   *)
(* cut]: the ether type; the bytes by which the length of the payload is   *)
(* wrong; the length a hop-by-hop header gives for itself, if there is     *)
(* one; what follows the headers; the hop limit; whether the checksum is   *)
(* wrong; the type; source and target; the options; and the length after   *)
(* which the message is cut off.                                           *)

\* RFC 1071.
Checksum(data) ==
    LET Word(i) == 256 * data[2 * i - 1] + (IF 2 * i > Len(data) THEN 0 ELSE data[2 * i])
        sum == MapThenSumSet(Word, 1 .. (Len(data) + 1) \div 2)
    IN 65535 - (((sum - 1) % 65535) + 1)

SolicitedNode(tgt) == <<255, 2, 0, 0, 0, 0, 0, 0, 0, 0, 0, 1, 255, tgt[14], tgt[15], tgt[16]>>

Length(m) == Min({m.cut, ND_MSG + Len(FlattenSeq(m.opts))})

Icmp6(m) ==
    LET whole == <<m.type, 0, 0, 0, 0, 0, 0, 0>> \o m.tgt \o FlattenSeq(m.opts)
        icmp6 == SubSeq(whole, 1, Length(m))
        sum == Checksum(m.src \o SolicitedNode(m.tgt) \o <<0, 0>> \o htons(Len(icmp6))
                            \o <<0, 0, 0, 58>> \o icmp6)
        sent == IF m.bad THEN (sum + 1) % 65536 ELSE sum
    IN [i \in 1 .. Len(icmp6) |-> IF i \in {3, 4} THEN htons(sent)[i - 2] ELSE icmp6[i]]

Frame(m) ==
    LET hbh == IF m.hbh = <<>> THEN <<>>
               ELSE <<m.nxt, m.hbh[1], 1, 4, 0, 0, 0, 0>>
                        \o (IF m.hbh[1] = 1 THEN <<1, 6, 0, 0, 0, 0, 0, 0>> ELSE <<>>)
        payload == hbh \o Icmp6(m)
    IN <<51, 51, 255, m.tgt[14], m.tgt[15], m.tgt[16]>> \o Asker.lladdr \o htons(m.ether)
           \o <<96, 0, 0, 0>> \o htons(Len(payload) + m.over)
           \o <<IF m.hbh = <<>> THEN m.nxt ELSE 0, m.hops>> \o m.src \o SolicitedNode(m.tgt)
           \o payload

\* The options that are all there, with at least their type and length if they give no length.
Whole(m) ==
    {j \in DOMAIN m.opts : ND_MSG + Len(FlattenSeq(SubSeq(m.opts, 1, j))) <= Length(m)}

Sources(m) == {j \in Whole(m) : m.opts[j][1] = ND_OPT_SOURCE_LINKADDR /\ m.opts[j][2] = 1}

Advised(m) ==
    CASE m.src = Zero -> None
      [] m.src # Zero /\ Sources(m) = {} -> Asker.lladdr
      [] OTHER -> SubSeq(m.opts[Max(Sources(m))], 3, 8)

Headed(m) == m.ether = ETHERTYPE_IPV6 /\ m.hbh \in {<<>>, <<0>>, <<1>>} /\ m.nxt = IPPROTO_ICMPV6

Intact(m) == Headed(m) /\ m.over = 0 /\ m.hops = 255 /\ ~m.bad /\ Length(m) >= ICMP6

\* RFC 4861, 7.1.1 and 7.1.2, of a solicitation or an advertisement that is intact.
Valid(m) ==
    /\ Length(m) >= ND_MSG
    /\ m.tgt[1] # 255
    /\ \A j \in Whole(m) : m.opts[j][2] # 0
    /\ m.type = ND_NEIGHBOR_SOLICIT /\ m.src = Zero
          => \A j \in Whole(m) : m.opts[j][1] # ND_OPT_SOURCE_LINKADDR

\* Where the code is known to go its own way.  It reads no option of a solicitation from ::
\* and nothing but the target of an advertisement, so it takes some that are not valid; and
\* it adds the last byte of a message of odd length, which no message made of whole options
\* has, as if it were the second of a word.
Apart(m) ==
    \/ Length(m) % 2 = 1
    \/ /\ ~Valid(m) /\ Length(m) >= ND_MSG
       /\ \/ m.type = ND_NEIGHBOR_ADVERT
          \/ m.type = ND_NEIGHBOR_SOLICIT /\ m.src = Zero /\ m.tgt[1] # 255

FirstRule(tgt) == {r \in DOMAIN rules : SamePrefix(rules[r].addr, tgt, rules[r].prefix)}

Question(src, dst, src_ll, tgt) ==
    IF FirstRule(tgt) = {} THEN Drop
    ELSE LET r == Min(FirstRule(tgt))
         IN [kind |-> "ns", src |-> src, dst |-> dst, src_ll |-> src_ll, tgt |-> tgt, rule |-> r,
             tgt_r |-> Spliced(rules[r].rewrite_tgt, tgt, rules[r].rewrite_pflen)]

Answer(tgt) == [kind |-> "na", tgt |-> tgt]

\* What is to become of the message when it arrives on interface k.
Meant(m, k) ==
    IF ~Ifaces[k].up \/ ~Intact(m) THEN Drop
    ELSE CASE m.type = ND_NEIGHBOR_SOLICIT ->
                 IF Ifaces[k].proxy /\ Valid(m)
                 THEN Question(m.src, SolicitedNode(m.tgt), Advised(m), m.tgt) ELSE Drop
           [] m.type = ND_NEIGHBOR_ADVERT -> IF Valid(m) THEN Answer(m.tgt) ELSE Drop
           [] m.type = MLD_LISTENER_QUERY -> [kind |-> "mlq"]
           [] m.type = MLD_LISTENER_REPORT -> [kind |-> "mlr"]
           [] OTHER -> Drop

\* What the filter is for.
Relevant(m) ==
    /\ Headed(m)
    /\ Length(m) > 0
    /\ m.type \in {ND_NEIGHBOR_SOLICIT, ND_NEIGHBOR_ADVERT, MLD_LISTENER_QUERY, MLD_LISTENER_REPORT}

-----------------------------------------------------------------------------

Init ==
    /\ sock = {}
    /\ rules \in RuleLists
    /\ queue = <<>>
    /\ handed = None

\* nd_iface_startup: the socket is opened without a protocol and gets nothing ...
Open ==
    /\ sock = {}
    /\ sock' \in {{"open"}, {"failed"}}
    /\ UNCHANGED <<rules, queue, handed>>

\* ... gets the filter ...
Attach ==
    /\ sock = {"open"}
    /\ sock' \in {{"open", "filter"}, {"failed"}}
    /\ UNCHANGED <<rules, queue, handed>>

\* Mutant: the socket gets frames before it has the filter.
BindFirst ==
    /\ "open" \in sock /\ "bound" \notin sock
    /\ sock' \in {sock \cup {"bound"}, {"failed"}}
    /\ UNCHANGED <<rules, queue, handed>>

\* ... and only then the protocol.
Bind ==
    /\ sock = {"open", "filter"}
    /\ sock' \in {sock \cup {"bound"}, {"failed"}}
    /\ UNCHANGED <<rules, queue, handed>>

\* The kernel: a frame arrives on interface k.  One the filter rejects is dropped.
Receive(frame, k, sent) ==
    /\ queue = <<>>
    /\ "bound" \in sock
    /\ IF "filter" \notin sock \/ Passes(frame)
       THEN /\ queue' = <<[frame |-> frame, index |-> k, sent |-> sent]>>
            /\ handed' = None
       ELSE /\ handed' = [got |-> Drop, want |-> sent.want, apart |-> sent.apart]
            /\ UNCHANGED queue
    /\ UNCHANGED <<sock, rules>>

\* What is to become of it, whether the filter is for it, where the code goes its own way,
\* and what it advertises.
Sent(want, relevant, apart, advert) ==
    [want |-> want, relevant |-> relevant, apart |-> apart, advert |-> advert]

Arrive(m, k) == Receive(Frame(m), k, Sent(Meant(m, k), Relevant(m), Apart(m), None))

\* This program on another host asks, through an interface like i.
ArriveNs(i, tgt, k) ==
    /\ Ifaces[i].up
    /\ LET lladdr == Ifaces[i].lladdr
           eui == IF (lladdr[1] \div 2) % 2 = 1 THEN lladdr[1] - 2 ELSE lladdr[1] + 2
           local == <<254, 128, 0, 0, 0, 0, 0, 0, eui>> \o SubSeq(lladdr, 2, 3) \o <<255, 254>>
                        \o SubSeq(lladdr, 4, 6)
       IN Receive(nd_iface_send_ns(i, tgt), k,
                  Sent(IF Ifaces[k].up /\ Ifaces[k].proxy
                       THEN Question(local, SolicitedNode(tgt), lladdr, tgt) ELSE Drop,
                       TRUE, FALSE, None))

\* Whom nd_session_handle_ns answers when the source is unspecified.
AllNodes ==
    [addr |-> <<255, 2, 0, 0, 0, 0, 0, 0, 0, 0, 0, 0, 0, 0, 0, 1>>, lladdr |-> <<51, 51, 0, 0, 0, 1>>]

\* It answers, with its own link-layer address or one it was given.
ArriveNa(i, to, tgt, tgt_ll, router, k) ==
    /\ Ifaces[i].up
    /\ Receive(nd_iface_send_na(i, to.addr, to.lladdr, tgt, tgt_ll, router), k,
               Sent(IF Ifaces[k].up THEN Answer(tgt) ELSE Drop, TRUE, FALSE,
                    [to |-> to, tgt |-> tgt, lladdr |-> IF tgt_ll = None THEN Ifaces[i].lladdr ELSE tgt_ll,
                     router |-> router]))

\* ndL_io_handler, for one frame of its loop.
ndL_io_handler ==
    /\ queue # <<>>
    /\ LET frame == queue[1].frame
           k == queue[1].index
           got == IF ~Ifaces[k].up \/ Len(frame) < IP6_MSG THEN Drop
                  ELSE IF u16(frame, 12) # ETHERTYPE_IPV6 THEN Drop
                  ELSE IF u16(frame, ETHER + 4) # Len(frame) - IP6_MSG THEN Drop
                  ELSE ndL_handle_msg(k, frame)
       IN handed' = [got |-> got, want |-> queue[1].sent.want, apart |-> queue[1].sent.apart]
    /\ queue' = <<>>
    /\ UNCHANGED <<sock, rules>>

Next ==
    \/ Open \/ Attach \/ Bind
    \/ \E m \in Messages, k \in DOMAIN Ifaces : Arrive(m, k)
    \/ \E i, k \in DOMAIN Ifaces, tgt \in Asked : ArriveNs(i, tgt, k)
    \/ \E i, k \in DOMAIN Ifaces, to \in {Asker, AllNodes}, tgt \in Asked, ll \in {None, Asker.lladdr} :
        \E router \in BOOLEAN : ArriveNa(i, to, tgt, ll, router, k)
    \/ ndL_io_handler

Spec == Init /\ [][Next]_vars

-----------------------------------------------------------------------------

Said(r) ==
    IF r.kind = "ns" THEN <<r.src, r.dst, r.src_ll, r.tgt>>
    ELSE IF r.kind = "na" THEN <<r.tgt>> ELSE <<>>

AsMeant ==
    /\ handed.got.kind = handed.want.kind
    /\ Said(handed.got) = Said(handed.want)

\* A message is handed on exactly if it is intact, valid as RFC 4861 has it and meant for this
\* program, with the addresses its sender put into it; everything else is dropped.  This goes
\* from the bytes through the filter, the checks of ndL_io_handler and ndL_handle_msg, the
\* checksum and, if the source is specified, the walk through the options.  The messages
\* nd_iface_send_ns and nd_iface_send_na write are among those that are handed on.  Left out
\* are the messages of Apart: options in a solicitation from ::, an advertisement that is not
\* valid, an odd length.
Understood == handed # None /\ ~handed.apart => AsMeant

\* No message is handed on that RFC 4861 has dropped.  It does not hold: packet_rfc.cfg shows
\* a solicitation from :: that is (iface.c:96, "MUST discard if any option has length zero").
OnlyValid == handed # None /\ handed.got.kind # "drop" => AsMeant

\* Prefixes are exact to the bit: the session of a solicitation is that of the first rule of
\* the list whose prefix the target has, it asks for the target with the first bits rewritten
\* (nd_addr_match, nd_addr_combine), and the mask of that prefix has just its bits and gives
\* its length back (nd_mask_from_pflen, nd_mask_to_pflen).
PrefixesExact ==
    handed # None /\ handed.got.kind = "ns" =>
        LET pflen == rules[handed.got.rule].prefix
            netmask == nd_mask_from_pflen(pflen)
        IN /\ handed.got.rule = Min(FirstRule(handed.got.tgt))
           /\ handed.got.tgt_r = Spliced(rules[handed.got.rule].rewrite_tgt, handed.got.tgt,
                                         rules[handed.got.rule].rewrite_pflen)
           /\ nd_mask_to_pflen(netmask) = pflen
           /\ \A i \in 0 .. 127 : Bit(netmask, i) = (IF i < pflen THEN 1 ELSE 0)

\* The socket never holds a frame that the filter would have rejected, from the start on
\* (iface.c:1013, "Only after SO_ATTACH_FILTER is applied do we bind to ETH_P_IPV6").
QueueFiltered == queue # <<>> => queue[1].sent.relevant

\* What a host reads in an advertisement that nd_iface_send_na wrote: who is advertised, the
\* link-layer address, that it overrides, whether it was asked for by the host that gets it or
\* goes to all nodes (duplicate address detection), whether it is a router; with the
\* right length, hop limit and checksum, or it would not read it at all.
AdvertComplete ==
    queue # <<>> /\ queue[1].sent.advert # None =>
        LET frame == queue[1].frame
            advert == queue[1].sent.advert
            icmp6 == Bytes(frame, IP6_MSG, Len(frame) - IP6_MSG)
        IN /\ Bytes(frame, 0, 6) = advert.to.lladdr
           /\ u16(frame, ETHER + 4) = 32 /\ Len(icmp6) = 32
           /\ At(frame, ETHER + 7) = 255
           /\ Bytes(frame, ETHER + 24, 16) = advert.to.addr
           /\ Checksum(Bytes(frame, ETHER + 8, 32) \o <<0, 0, 0, 32, 0, 0, 0, 58>> \o icmp6) = 0
           /\ Bytes(icmp6, 8, 16) = advert.tgt
           /\ Bytes(icmp6, 24, 8) = <<2, 1>> \o advert.lladdr
           /\ At(icmp6, 4) = (IF advert.router THEN 128 ELSE 0) + (IF advert.to = Asker THEN 64 ELSE 0) + 32
=============================================================================
