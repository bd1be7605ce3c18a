------------------------------- MODULE Iface -------------------------------
(***************************************************************************)
(* The list of interfaces of iface.c (Linux): nd_iface_open by name and by *)
(* index, nd_iface_close, the pass of nd_iface_rebind_all, the delivery of *)
(* packets, and the start-up of the proxies that opens the configured      *)
(* interfaces, while the kernel's interfaces come, go and change.          *)
(*                                                                         *)
(* A pass visits the objects one by one; for each of them it asks for the  *)
(* index of the name and then, with further system calls, acts on it.  The *)
(* kernel may change between the two.  Packet-socket memberships count per *)
(* index and kind, and die with the interface that has the index.          *)
(***************************************************************************)
EXTENDS Integers, Sequences, FiniteSetsExt

CONSTANTS
    Names,          \* interface names
    LLs,            \* link-layer addresses
    MAXINDEX,       \* the kernel hands out indexes 1 .. MAXINDEX
    Config,         \* what nd_proxy_startup opens, in order: name, promiscuous, proxy or not
    MAXSESSIONS,    \* references that sessions may hold
    REUSE,          \* whether the index of a deleted interface may be given out again
    MAXRENAMES,     \* how many times an interface may be renamed
    FAILS           \* whether if_nametoindex may fail for lack of a descriptor

Indexes == 1 .. MAXINDEX

Opening == [name : Names, promiscuous : BOOLEAN, proxy : BOOLEAN]

ASSUME IfaceAssumption ==
    /\ MAXINDEX \in Nat /\ MAXSESSIONS \in Nat
    /\ LLs # {}
    /\ Config \in Seq(Opening)
    /\ REUSE \in BOOLEAN /\ FAILS \in BOOLEAN /\ MAXRENAMES \in Nat
    \* nd_proxy_create refuses a second proxy of a name.
    /\ \A i, j \in 1 .. Len(Config) : Config[i].proxy /\ Config[j].proxy /\ Config[i].name = Config[j].name => i = j

VARIABLES
    link,           \* the kernel's interfaces by name, index 0 when there is none
    used,           \* indexes the kernel has given out
    renames,        \* how many times an interface was renamed
    failed,         \* history: a lookup has failed for lack of a descriptor
    overtaken,      \* history: names created anew before start-up was done with them
    member,         \* <<index, promiscuous>> -> memberships of the packet socket
    ifaces,         \* ndL_first_iface
    todo,           \* what is left of Config to open
    visit,          \* the object the pass is at, 0 outside a pass
    cur,            \* what if_nametoindex said, -1 before the call
    fresh,          \* indexes whose arrival no pass has followed yet
    heard           \* the same, as of the start of the pass

vars == <<link, used, renames, failed, overtaken, member, ifaces, todo, visit, cur, fresh, heard>>

nd_iface ==
    [name : Names, index : 0 .. MAXINDEX, up : BOOLEAN, admin_up : BOOLEAN, lladdr : LLs,
     promiscuous : BOOLEAN, refcount : Nat, proxy : BOOLEAN, sessions : Nat]

Absent == [index |-> 0, lladdr |-> CHOOSE l \in LLs : TRUE, admin |-> FALSE]

Present(n) == link[n].index # 0

Alive(i) == \E n \in Names : link[n].index = i /\ i # 0

\* The place of the first object that passes the test, 0 if none does.
First(Test(_)) ==
    LET found == {o \in 1 .. Len(ifaces) : Test(ifaces[o])}
    IN  IF found = {} THEN 0 ELSE Min(found)

----------------------------------------------------------------------------
(* The kernel. *)

\* Start-up is still to open the name, and an object is bound to what had it before.
Overtakes(n) ==
    /\ \E j \in 1 .. Len(todo) : todo[j].name = n
    /\ \E o \in 1 .. Len(ifaces) : ifaces[o].name = n /\ ifaces[o].up

KernelCreate(n, i, l, admin) ==
    /\ ~Present(n)
    /\ ~Alive(i)
    /\ i \in used => REUSE
    /\ \A j \in Indexes \ used : i \in used \/ i <= j
    /\ link' = [link EXCEPT ![n] = [index |-> i, lladdr |-> l, admin |-> admin]]
    /\ used' = used \cup {i}
    /\ fresh' = fresh \cup {i}
    /\ overtaken' = IF Overtakes(n) THEN overtaken \cup {n} ELSE overtaken
    /\ UNCHANGED <<renames, failed, member, ifaces, todo, visit, cur, heard>>

KernelDelete(n) ==
    /\ Present(n)
    /\ link' = [link EXCEPT ![n] = Absent]
    /\ member' = [x \in Indexes \X BOOLEAN |-> IF x[1] = link[n].index THEN 0 ELSE member[x]]
    /\ UNCHANGED <<used, renames, failed, overtaken, ifaces, todo, visit, cur, fresh, heard>>

KernelRename(n, m) ==
    /\ renames < MAXRENAMES
    /\ renames' = renames + 1
    /\ Present(n) /\ ~Present(m)
    /\ link' = [link EXCEPT ![n] = Absent, ![m] = link[n]]
    /\ UNCHANGED <<used, failed, overtaken, member, ifaces, todo, visit, cur, fresh, heard>>

KernelChange(n, l, admin) ==
    /\ Present(n)
    /\ <<l, admin>> # <<link[n].lladdr, link[n].admin>>
    /\ link' = [link EXCEPT ![n].lladdr = l, ![n].admin = admin]
    /\ UNCHANGED <<used, renames, failed, overtaken, member, ifaces, todo, visit, cur, fresh, heard>>

----------------------------------------------------------------------------
(* Opening and closing. *)

\* Adding a reference to the object at i.
Shared(i, asproxy, bysession) ==
    [ifaces EXCEPT ![i].refcount = @ + 1, ![i].proxy = @ \/ asproxy,
                   ![i].sessions = IF bysession THEN @ + 1 ELSE @]

NewObject(n, promiscuous, asproxy, bysession) ==
    [name |-> n, index |-> link[n].index, up |-> Present(n), admin_up |-> FALSE,
     lladdr |-> link[n].lladdr, promiscuous |-> promiscuous, refcount |-> 1,
     proxy |-> asproxy, sessions |-> IF bysession THEN 1 ELSE 0]

Joined(i, promiscuous) == [member EXCEPT ![<<i, promiscuous>>] = @ + 1]

Dropped(i, promiscuous) == [member EXCEPT ![<<i, promiscuous>>] = IF @ = 0 THEN 0 ELSE @ - 1]

\* Mutant: an interface that exists is not looked up among the bound objects.
ShareableWaitingOnly(n) == First(LAMBDA o : (~Present(n) \/ ~o.up) /\ o.name = n)

\* The object nd_iface_open shares, 0 if there is none: for a name that does not exist
\* any object of that name; else one bound to the index, or one waiting for the name.
Shareable(n) ==
    LET bound == First(LAMBDA o : o.index = link[n].index /\ o.up)
        waiting == First(LAMBDA o : ~o.up /\ o.name = n)
    IN  IF ~Present(n) THEN First(LAMBDA o : o.name = n)
        ELSE IF bound # 0 THEN bound ELSE waiting

nd_iface_open(n, promiscuous, asproxy, bysession) ==
    IF Shareable(n) # 0
    THEN /\ ifaces' = Shared(Shareable(n), asproxy, bysession)
         /\ UNCHANGED member
    ELSE /\ ifaces' = <<NewObject(n, promiscuous, asproxy, bysession)>> \o ifaces
         /\ member' = IF Present(n) THEN Joined(link[n].index, promiscuous) ELSE member

\* One interface of the configuration is opened.
nd_proxy_startup ==
    /\ todo # <<>>
    /\ nd_iface_open(Head(todo).name, Head(todo).promiscuous, Head(todo).proxy, FALSE)
    /\ todo' = Tail(todo)
    /\ UNCHANGED <<link, used, renames, failed, overtaken, visit, cur, fresh, heard>>

Idle == todo = <<>> /\ visit = 0

SessionRefs == MapThenSumSet(LAMBDA o : ifaces[o].sessions, 1 .. Len(ifaces))

\* A session in auto mode opens the interface its route names.  The event of a route
\* follows, in the same socket, the event of the interface it goes through.
SessionOpen(n) ==
    /\ Idle
    /\ Present(n)
    /\ link[n].index \notin fresh
    /\ SessionRefs < MAXSESSIONS
    /\ nd_iface_open(n, FALSE, FALSE, TRUE)
    /\ UNCHANGED <<link, used, renames, failed, overtaken, todo, visit, cur, fresh, heard>>

nd_iface_close(i) ==
    /\ Idle
    /\ ifaces[i].sessions > 0
    /\ IF ifaces[i].refcount > 1
       THEN /\ ifaces' = [ifaces EXCEPT ![i].refcount = @ - 1, ![i].sessions = @ - 1]
            /\ UNCHANGED member
       ELSE /\ ifaces' = SubSeq(ifaces, 1, i - 1) \o SubSeq(ifaces, i + 1, Len(ifaces))
            /\ member' = IF ifaces[i].up THEN Dropped(ifaces[i].index, ifaces[i].promiscuous) ELSE member
    /\ UNCHANGED <<link, used, renames, failed, overtaken, todo, visit, cur, fresh, heard>>

----------------------------------------------------------------------------
(* The pass of nd_iface_rebind_all, after a link event or every 5 s. *)

StartPass ==
    /\ Idle
    /\ ifaces # <<>>
    /\ visit' = 1
    /\ cur' = -1
    /\ heard' = fresh
    /\ UNCHANGED <<link, used, renames, failed, overtaken, member, ifaces, todo, fresh>>

\* if_nametoindex.
Lookup ==
    /\ visit # 0 /\ cur = -1
    /\ cur' = link[ifaces[visit].name].index
    /\ UNCHANGED <<link, used, renames, failed, overtaken, member, ifaces, todo, visit, fresh, heard>>

Here == ifaces[visit]

\* The visit ends and the pass goes on, or ends too.
Onwards ==
    /\ visit' = IF visit < Len(ifaces) THEN visit + 1 ELSE 0
    /\ fresh' = IF visit < Len(ifaces) THEN fresh ELSE fresh \ heard
    /\ heard' = IF visit < Len(ifaces) THEN heard ELSE {}
    /\ cur' = -1
    /\ UNCHANGED <<link, used, renames, overtaken, todo>>

\* if_nametoindex fails for lack of a descriptor: nothing is known, nothing changes.
LookupFails ==
    /\ FAILS
    /\ visit # 0 /\ cur = -1
    /\ failed' = TRUE
    /\ UNCHANGED <<ifaces, member>>
    /\ Onwards

Gone ==
    /\ visit # 0 /\ cur = 0
    /\ ifaces' = [ifaces EXCEPT ![visit].up = FALSE, ![visit].admin_up = FALSE]
    /\ UNCHANGED member
    /\ UNCHANGED failed
    /\ Onwards

\* Mutant: the link-layer address is not refreshed.
LladdrKept == Here.lladdr

\* SIOCGIFHWADDR and SIOCGIFFLAGS go by name and fail when it is gone.
Lladdr == IF Present(Here.name) THEN link[Here.name].lladdr ELSE Here.lladdr

AdminUp == Present(Here.name) /\ link[Here.name].admin

SameIndex ==
    /\ visit # 0 /\ cur > 0
    /\ cur = Here.index /\ Here.up
    /\ ifaces' = [ifaces EXCEPT ![visit].lladdr = Lladdr, ![visit].admin_up = AdminUp]
    /\ UNCHANGED member
    /\ UNCHANGED failed
    /\ Onwards

\* Mutant: no membership on the new index.
MembersAfterNoAdd ==
    IF Here.index \notin {0, cur} THEN Dropped(Here.index, Here.promiscuous) ELSE member

\* PACKET_ADD_MEMBERSHIP on the new index, then PACKET_DROP_MEMBERSHIP on the old one.
MembersAfter ==
    IF Here.index \notin {0, cur}
    THEN [Joined(cur, Here.promiscuous) EXCEPT ![<<Here.index, Here.promiscuous>>] = IF @ = 0 THEN 0 ELSE @ - 1]
    ELSE Joined(cur, Here.promiscuous)

\* The index is new, or the object was waiting.  Nothing but the link-layer address
\* changes if the membership cannot be had because the index is gone again.
Rebind ==
    /\ visit # 0 /\ cur > 0
    /\ ~(cur = Here.index /\ Here.up)
    /\ IF Alive(cur)
       THEN /\ ifaces' = [ifaces EXCEPT ![visit].lladdr = Lladdr, ![visit].admin_up = AdminUp,
                                        ![visit].index = cur, ![visit].up = TRUE]
            /\ member' = MembersAfter
       ELSE /\ ifaces' = [ifaces EXCEPT ![visit].lladdr = Lladdr]
            /\ UNCHANGED member
    /\ UNCHANGED failed
    /\ Onwards

Kernel ==
    \/ \E n \in Names, i \in Indexes, l \in LLs, admin \in BOOLEAN : KernelCreate(n, i, l, admin)
    \/ \E n \in Names : KernelDelete(n)
    \/ \E n, m \in Names : KernelRename(n, m)
    \/ \E n \in Names, l \in LLs, admin \in BOOLEAN : KernelChange(n, l, admin)

nd_iface_rebind_all == StartPass \/ Lookup \/ Gone \/ SameIndex \/ Rebind

Init ==
    /\ \E n \in 0 .. MAXINDEX : \E s \in SUBSET Names : \E index \in Bijection(s, 1 .. n) :
          /\ link = [m \in Names |-> IF m \in s THEN [Absent EXCEPT !.index = index[m], !.admin = TRUE] ELSE Absent]
          /\ used = 1 .. n
    /\ renames = 0
    /\ failed = FALSE
    /\ overtaken = {}
    /\ member = [x \in Indexes \X BOOLEAN |-> 0]
    /\ ifaces = <<>>
    /\ todo = Config
    /\ visit = 0
    /\ cur = -1
    /\ fresh = {}
    /\ heard = {}

Next ==
    \/ Kernel
    \/ nd_proxy_startup
    \/ \E n \in Names : SessionOpen(n)
    \/ \E i \in 1 .. Len(ifaces) : nd_iface_close(i)
    \/ nd_iface_rebind_all
    \/ LookupFails

Spec == Init /\ [][Next]_vars

\* Start-up goes on, and a pass is made at least every 5 s and comes to its end.
FairSpec == Spec /\ WF_vars(nd_proxy_startup) /\ WF_vars(nd_iface_rebind_all)

----------------------------------------------------------------------------
(* Properties. *)

\* Every variable has its type.
TypeOK ==
    /\ link \in [Names -> [index : 0 .. MAXINDEX, lladdr : LLs, admin : BOOLEAN]]
    /\ used \subseteq Indexes
    /\ renames \in 0 .. MAXRENAMES /\ failed \in BOOLEAN /\ overtaken \subseteq Names
    /\ member \in [Indexes \X BOOLEAN -> Nat]
    /\ ifaces \in Seq(nd_iface)
    /\ todo \in Seq(Opening)
    /\ visit \in 0 .. Len(ifaces)
    /\ cur \in -1 .. MAXINDEX
    /\ fresh \subseteq Indexes
    /\ heard \subseteq Indexes

Objects == 1 .. Len(ifaces)

\* A bound interface hears its multicast: whatever was renamed, deleted and created,
\* and whichever passes were overtaken by the kernel, an object bound to an index that
\* exists has a membership there.  No index is given out twice.
BoundHears ==
    \A o \in Objects : ifaces[o].up /\ Alive(ifaces[o].index)
        => member[<<ifaces[o].index, ifaces[o].promiscuous>>] > 0

Unduplicated == \A o, p \in Objects : ifaces[o].name = ifaces[p].name => o = p

\* One object stands for an interface: iface.c means to "share it instead of creating a
\* duplicate" when a proxy, a rule or a session opens what another has opened, and does
\* as long as nothing is renamed and no lookup fails, but for a name whose interface is
\* deleted and created again between two openings of it by start-up, which makes no pass.
OneObjectPerName ==
    renames = 0 /\ ~failed =>
        \A o, p \in Objects : ifaces[o].name = ifaces[p].name => o = p \/ ifaces[o].name \in overtaken

\* The first bound object of the index: the one that gets its packets.
ndL_io_handler(i) == First(LAMBDA o : o.up /\ o.index = i)

\* The list agrees with the kernel: each object is bound if and only if its interface
\* exists, to the right index, with the right address and flags and a membership, and
\* the solicitations on a proxy's interface get to the proxy.
Agrees ==
    /\ todo = <<>>
    /\ \A o \in Objects :
          LET i == ifaces[o]
              l == link[i.name]
          IN  IF l.index = 0
              THEN ~i.up
              ELSE /\ i.up /\ i.index = l.index
                   /\ i.lladdr = l.lladdr /\ i.admin_up = l.admin
                   /\ member[<<i.index, i.promiscuous>>] > 0
                   /\ i.proxy => ifaces[ndL_io_handler(i.index)].proxy

\* The daemon "reconverges to reality" (ndppd.c): once the kernel's interfaces stop
\* changing, and lookups stop failing, the list agrees with the kernel before long and
\* from then on, unless an interface is renamed or two objects come to stand for one.
Reconverges ==
    [](renames = 0 /\ Unduplicated) /\ <>[][~Kernel /\ ~LookupFails]_vars => <>[]Agrees

=============================================================================
