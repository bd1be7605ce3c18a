------------------------------ MODULE MCIface ------------------------------
(***************************************************************************)
(* Small instances of Iface.                                               *)
(***************************************************************************)
EXTENDS Iface

CONSTANTS wan, lan

\* A proxy on wan with a rule for lan, and a proxy on lan whose rule names no interface.
TwoProxies ==
    << [name |-> wan, promiscuous |-> TRUE, proxy |-> TRUE],
       [name |-> lan, promiscuous |-> FALSE, proxy |-> FALSE],
       [name |-> lan, promiscuous |-> FALSE, proxy |-> TRUE] >>

\* A proxy on wan alone, in auto mode.
AutoProxy == << [name |-> wan, promiscuous |-> FALSE, proxy |-> TRUE] >>

=============================================================================
