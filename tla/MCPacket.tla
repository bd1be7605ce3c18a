------------------------------ MODULE MCPacket ------------------------------
(* Packet with three interfaces, rules whose prefixes end on and around the *)
(* borders of words and bytes, and messages that are right or wrong in at   *)
(* most DEVIATIONS ways.                                                    *)
EXTENDS Packet

CONSTANT DEVIATIONS

MCAsker == [addr |-> <<254, 128, 0, 0, 0, 0, 0, 0, 0, 0, 0, 0, 0, 0, 0, 9>>,
            lladdr |-> <<2, 17, 34, 51, 68, 85>>]

\* A proxy; an interface without one; one that is absent from the kernel.
MCIfaces ==
    <<[up |-> TRUE, proxy |-> TRUE, lladdr |-> <<2, 0, 0, 255, 255, 1>>],
      [up |-> TRUE, proxy |-> FALSE, lladdr |-> <<0, 94, 255, 255, 0, 2>>],
      [up |-> FALSE, proxy |-> TRUE, lladdr |-> <<2, 0, 0, 0, 0, 3>>]>>

Prefix == <<32, 1, 13, 184, 171, 205, 0, 127, 128, 0, 85, 170, 255, 254, 18, 52>>

Other == <<253, 0, 255, 1, 0, 0, 170, 85, 1, 2, 3, 4, 5, 6, 7, 8>>

\* An address that differs in bit i.
Flip(addr, i) ==
    LET j == (i \div 8) + 1
    IN [addr EXCEPT ![j] = @ ^^ (2^(7 - (i % 8)))]

Lengths == {0, 1, 31, 32, 33, 64, 127, 128}

Flips == {0, 30, 31, 32, 33, 63, 64, 126, 127}

\* The prefix is rewritten by one of another length; behind the rule stands one for all.
MCRuleLists ==
    {<<[addr |-> Prefix, prefix |-> n, rewrite_tgt |-> Other, rewrite_pflen |-> 128 - n],
       [addr |-> Other, prefix |-> IF n % 2 = 0 THEN 0 ELSE 129 - n, rewrite_tgt |-> Zero, rewrite_pflen |-> 0]>> :
        n \in Lengths}

MCAsked == {Prefix}

Sllao == <<1, 1, 2, 3, 4, 5, 6, 7>>

Nonce == <<14, 1, 1, 2, 3, 4, 5, 6>>

Good ==
    [ether |-> 34525, over |-> 0, hbh |-> <<>>, nxt |-> 58, hops |-> 255, bad |-> FALSE, type |-> 135,
     src |-> Other, tgt |-> Prefix, opts |-> <<Sllao>>, cut |-> 99]

\* The values of the field, other than the good one.
Values(field) ==
    CASE field = "ether" -> {2048}
      [] field = "over" -> {1}
      [] field = "hbh" -> {<<0>>, <<1>>, <<9>>}
      [] field = "nxt" -> {17}
      [] field = "hops" -> {64}
      [] field = "bad" -> {TRUE}
      [] field = "type" -> {136, 130, 131, 133}
      [] field = "src" -> {Zero}
      [] field = "tgt" -> {Flip(Prefix, i) : i \in Flips}
                              \cup {<<255, 2, 0, 0, 0, 0, 0, 0, 0, 0, 0, 0, 0, 0, 0, 1>>}
      [] field = "opts" -> {<<>>, <<Nonce, Sllao>>, <<Sllao, [Sllao EXCEPT ![8] = 9]>>,
                            <<Sllao, [Nonce EXCEPT ![2] = 0]>>, <<[Sllao EXCEPT ![2] = 2] \o Nonce>>,
                            <<Nonce, [Sllao EXCEPT ![2] = 3]>>}
      [] field = "cut" -> {1, 7, 8, 23, 24, 25, 31}

Deviate(ms) == ms \cup UNION {{[m EXCEPT ![f] = v] : v \in Values(f)} : m \in ms, f \in DOMAIN Good}

RECURSIVE Deviated(_)
Deviated(n) == IF n = 0 THEN {Good} ELSE Deviate(Deviated(n - 1))

MCMessages == Deviated(DEVIATIONS)
=============================================================================
