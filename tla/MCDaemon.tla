------------------------------ MODULE MCDaemon ------------------------------
(***************************************************************************)
(* A small instance of Daemon: two interfaces, ids of three bits.          *)
(***************************************************************************)
EXTENDS Daemon, TLC

CONSTANTS wan, lan, nobody, daemon

TwoInterfaces == <<wan, lan>>

Caps == {"NET_RAW", "NET_ADMIN", "SETUID", "SETGID", "SYS_ADMIN"}

Root == [uid |-> 0, gid |-> 0, groups |-> {0, 1}, permitted |-> Caps, effective |-> Caps, keepcaps |-> FALSE]

\* A user that the service manager gave the two capabilities, and one with none.
Service == [Root EXCEPT !.uid = 5, !.gid = 5, !.groups = {5}, !.permitted = KeptCaps, !.effective = KeptCaps]
Plain == [Service EXCEPT !.permitted = {}, !.effective = {}]

MCPasswd == (nobody :> [uid |-> 3, gid |-> 4]) @@ (daemon :> [uid |-> 0, gid |-> 0])

MCGroups == daemon :> 2

Number(n) == [kind |-> "number", id |-> n]
Name(x) == [kind |-> "name", name |-> x]
Empty == [kind |-> "empty"]

Specs ==
    { <<Number(3)>>, <<Number(3), Number(1)>>, <<Name(nobody)>>, <<Name(nobody), Name(daemon)>>,
      <<Name(nobody), Number(1)>>, <<Number(3), Name(daemon)>>,
      <<Number(7)>>, <<Number(0)>>, <<Name(daemon)>>, <<Empty, Number(1)>>, <<Number(3), Empty>>,
      <<Number(3), Name(nobody)>>, <<Number(3), Number(1), Number(1)>> }

Plainly == [pidfile |-> FALSE, daemonize |-> FALSE, user |-> <<>>, netns |-> 0]

Launch(b, opts, creds) == [build : {b}, opt : opts, cred : creds]

\* Every specification in the foreground, the other options with one of them.
MCLaunches ==
    Launch("linux", {[Plainly EXCEPT !.user = spec] : spec \in Specs}, {Root}) \cup
    Launch("linux", [pidfile : BOOLEAN, daemonize : {TRUE}, user : {<<Name(nobody)>>}, netns : {0}], {Root}) \cup
    Launch("linux", {[Plainly EXCEPT !.netns = n] : n \in 1 .. 2}, {Root, Service}) \cup
    Launch("linux", {[Plainly EXCEPT !.pidfile = TRUE, !.user = spec] : spec \in {<<>>, <<Name(nobody)>>}}, {Service, Plain}) \cup
    Launch("bsd", {Plainly, [Plainly EXCEPT !.user = <<Number(3)>>]}, {Root})

=============================================================================
