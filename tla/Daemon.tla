------------------------------- MODULE Daemon -------------------------------
(***************************************************************************)
(* The life of the process, from ndppd.c: the stages of main, each of      *)
(* which may fail; the change of user; the fork of ndL_daemonize, after    *)
(* which two processes share the packet socket; the main loop with its     *)
(* timers, over the event loop of Io; and the clean-up of ndL_exit.        *)
(*                                                                         *)
(* The clock is that of gettimeofday, read once per round of the loop, and *)
(* may be set back.                                                        *)
(* The locking of the pidfile is the subject of Pidfile, the content of    *)
(* the passes that of Session, Iface and Routes.                           *)
(***************************************************************************)
EXTENDS Io

CONSTANTS
    Interfaces,     \* the configured interfaces, in the order of the list: a sequence
    Packet, Rt,     \* the owners of the packet socket and of the routing socket
    Launches,       \* how the program is started: build, command line, credentials
    Passwd,         \* [names -> [uid, gid]]: /etc/passwd
    Groups,         \* [names -> gid]: /etc/group
    ID_MAX,         \* 0xFFFFFFFE
    AllCaps,        \* the capabilities of root
    SESSION_PERIOD, \* 100 ms
    IFACE_PERIOD,   \* 5000 ms
    DUMP_TIMEOUT,   \* 5000 ms
    MAXSETBACKS,    \* how often the clock may be set back
    MAXRECREATIONS  \* how often an interface may be recreated (BSD)

Ifaces == Range(Interfaces)

\* What the daemon keeps when it changes user.
KeptCaps == {"NET_RAW", "NET_ADMIN"}

Credentials ==
    [uid : Nat, gid : Nat, groups : SUBSET Nat, permitted : SUBSET AllCaps, effective : SUBSET AllCaps, keepcaps : BOOLEAN]

ASSUME DaemonAssumption ==
    /\ Interfaces \in Seq(Owners)
    /\ Owners = Ifaces \cup {Packet, Rt} /\ Packet \notin Ifaces /\ Rt \notin Ifaces
    /\ POLLFDS_SIZE \in Nat
    /\ \A l \in Launches : l.cred \in Credentials
    /\ \A n \in DOMAIN Passwd : Passwd[n] \in [uid : Nat, gid : Nat]
    /\ KeptCaps \cup {"SETUID", "SETGID", "SYS_ADMIN"} \subseteq AllCaps
    /\ SESSION_PERIOD \in Nat /\ IFACE_PERIOD \in Nat /\ DUMP_TIMEOUT \in Nat \ {0}
    /\ MAXSETBACKS \in Nat /\ MAXRECREATIONS \in Nat

VARIABLES
    build,          \* "linux" or "bsd"
    opt,            \* the command line
    cred,           \* uid, gid, groups, capabilities of the process
    stage,          \* where main is
    code,           \* the exit code
    stop,           \* ndL_stop
    parent,         \* the process that forked: "none", "forked", "exiting" or "gone"
    kept,           \* nd_iface_no_restore_flags in the parent
    bound,          \* interfaces that are up
    member,         \* interfaces on which the packet socket has a membership
    changed,        \* interfaces recreated since their bpf handle was opened (BSD)
    recreations,    \* how often an interface has been recreated
    at,             \* the point of the loop: "top", "poll" or "handlers"
    querying,       \* querying_routes
    dumping,        \* nd_rt_dump_timeout # 0
    left,           \* nd_rt_dump_timeout - nd_current_time
    session_age,    \* nd_current_time - last_session_update
    iface_age,      \* nd_current_time - last_iface_check
    setbacks        \* how often the clock has been set back

procVars == <<build, opt, cred, stage, code, stop, parent, kept, bound, member, changed, recreations>>
loopVars == <<at, querying, dumping, left, session_age, iface_age, setbacks>>
vars == <<ioVars, procVars, loopVars>>

----------------------------------------------------------------------------
(* Who to run as.  A user specification is the sequence of the parts       *)
(* between its colons, each of a kind: empty, long, number or name.        *)

Refused == [ok |-> FALSE, uid |-> 0, gid |-> 0]

Granted(uid, gid) == [ok |-> TRUE, uid |-> uid, gid |-> gid]

\* A number is its own group; a name has the group of its line in /etc/passwd.
UserPart(part) ==
    CASE part.kind = "number" -> IF part.id <= ID_MAX THEN Granted(part.id, part.id) ELSE Refused
      [] part.kind = "name" /\ part.name \in DOMAIN Passwd -> Granted(Passwd[part.name].uid, Passwd[part.name].gid)
      [] OTHER -> Refused

GroupPart(part, uid) ==
    CASE part.kind = "number" -> IF part.id <= ID_MAX THEN Granted(uid, part.id) ELSE Refused
      [] part.kind = "name" /\ part.name \in DOMAIN Groups -> Granted(uid, Groups[part.name])
      [] OTHER -> Refused

\* A second colon is a typo, not a fallback.
ndL_parse_userspec(spec) ==
    IF Len(spec) > 2 \/ ~UserPart(spec[1]).ok THEN Refused
    ELSE IF Len(spec) = 1 THEN UserPart(spec[1])
    ELSE GroupPart(spec[2], UserPart(spec[1]).uid)

\* What the kernel asks of the caller of each system call ...
Allowed(call, c) ==
    CASE call = "prctl" -> TRUE
      [] call \in {"setgroups", "setresgid"} -> "SETGID" \in c.effective
      [] call = "setresuid" -> "SETUID" \in c.effective
      [] call = "capset" -> KeptCaps \subseteq c.permitted

\* ... and what the call does to the credentials.
After(call, c, id) ==
    CASE call = "prctl" -> [c EXCEPT !.keepcaps = TRUE]
      [] call = "setgroups" -> [c EXCEPT !.groups = {id.gid}]
      [] call = "setresgid" -> [c EXCEPT !.gid = id.gid]
      [] call = "setresuid" ->
            IF c.uid = 0 /\ id.uid # 0
            THEN [c EXCEPT !.uid = id.uid, !.effective = {}, !.permitted = IF c.keepcaps THEN @ ELSE {}]
            ELSE [c EXCEPT !.uid = id.uid]
      [] call = "capset" -> [c EXCEPT !.permitted = KeptCaps, !.effective = KeptCaps]

\* Mutant: the supplementary groups are left alone.
CallsKeepGroups == <<"prctl", "setresgid", "setresuid", "capset">>

Calls == <<"prctl", "setgroups", "setresgid", "setresuid", "capset">>

\* The credentials after the first n calls.
CredAfter(n, id) ==
    LET after[i \in 0 .. Len(Calls)] == IF i = 0 THEN cred ELSE After(Calls[i], after[i - 1], id)
    IN  after[n]

----------------------------------------------------------------------------
(* The stages of main.  A stage that fails leads to ndL_exit. *)

Fail ==
    /\ stage' = "exiting"
    /\ code' = 1
    /\ UNCHANGED <<parent>>

Proceed(to) ==
    /\ stage' = to
    /\ UNCHANGED <<code, parent>>

NoIo == UNCHANGED ioVars

Has(cap) == cap \in cred.effective

\* `--netns' may be given once.
ParseOptions ==
    /\ stage = "options"
    /\ IF opt.netns > 1 THEN Fail ELSE Proceed("pidfile")
    /\ NoIo
    /\ UNCHANGED <<cred, bound, member, kept, changed>>

\* The pidfile is locked by another process, or cannot be opened.
CheckPidfile ==
    /\ stage = "pidfile"
    /\ \/ Proceed("conf")
       \/ opt.pidfile /\ Fail
    /\ NoIo
    /\ UNCHANGED <<cred, bound, member, kept, changed>>

nd_conf_load ==
    /\ stage = "conf"
    /\ Proceed("netns") \/ Fail
    /\ NoIo
    /\ UNCHANGED <<cred, bound, member, kept, changed>>

ndL_netns ==
    /\ stage = "netns"
    /\ \/ (build = "linux" /\ opt.netns = 1 => Has("SYS_ADMIN")) /\ Proceed("iface")
       \/ build = "linux" /\ opt.netns = 1 /\ Fail
    /\ NoIo
    /\ UNCHANGED <<cred, bound, member, kept, changed>>

Opened(list) == ListBecomes(list) /\ UNCHANGED <<waiting, batch, handling>>

\* Linux has one packet socket; a socket that cannot be set up is closed again.
nd_iface_startup ==
    /\ stage = "iface"
    /\ \/ build = "linux" /\ Has("NET_RAW") /\ Opened(ndL_create(fds, Packet)) /\ Proceed("proxy")
       \/ build = "linux" /\ NoIo /\ Fail
       \/ build = "bsd" /\ NoIo /\ Proceed("proxy")
    /\ UNCHANGED <<cred, bound, member, kept, changed>>

\* The handle of i is closed, if it is open, and opened again, unless that fails.
Reopen(list, i, bad) == IF i \in bad THEN nd_io_close(list, i) ELSE ndL_create(nd_io_close(list, i), i)

\* The same for the interfaces of `due', in the order of the list.
Reopened(list, due, bad) ==
    LET after[k \in 0 .. Len(Interfaces)] ==
            IF k = 0 THEN list
            ELSE IF Interfaces[k] \in due THEN Reopen(after[k - 1], Interfaces[k], bad)
            ELSE after[k - 1]
    IN  after[Len(Interfaces)]

\* The first n interfaces are opened.  On Linux one that does not exist is left waiting;
\* on BSD each gets a bpf handle.
nd_proxy_startup ==
    /\ stage = "proxy"
    /\ \E n \in 0 .. Len(Interfaces) :
          /\ IF n = Len(Interfaces) THEN Proceed("rt") ELSE Fail
          /\ IF build = "linux"
             THEN NoIo /\ bound' \in SUBSET {Interfaces[i] : i \in 1 .. n} /\ member' = bound'
             ELSE /\ Opened(Reopened(fds, {Interfaces[i] : i \in 1 .. n}, {}))
                  /\ UNCHANGED <<bound, member>>
    /\ UNCHANGED <<cred, kept, changed>>

nd_rt_open ==
    /\ stage = "rt"
    /\ \/ Opened(ndL_create(fds, Rt)) /\ Proceed("user")
       \/ NoIo /\ Fail
    /\ UNCHANGED <<cred, bound, member, kept, changed>>

\* Somebody else than root.
Acceptable(id) == id.ok /\ id.uid # 0

\* The first n calls succeed; one that is not allowed, or fails otherwise, ends it.
ndL_drop_privileges ==
    /\ stage = "user"
    /\ IF opt.user = <<>>
       THEN Proceed("daemonize") /\ UNCHANGED cred
       ELSE IF build = "bsd" \/ ~Acceptable(ndL_parse_userspec(opt.user))
       THEN Fail /\ UNCHANGED cred
       ELSE \E n \in 0 .. Len(Calls) :
               /\ \A i \in 1 .. n : Allowed(Calls[i], CredAfter(i - 1, ndL_parse_userspec(opt.user)))
               /\ cred' = CredAfter(n, ndL_parse_userspec(opt.user))
               /\ IF n = Len(Calls) THEN Proceed("daemonize") ELSE Fail
    /\ NoIo
    /\ UNCHANGED <<bound, member, kept, changed>>

\* The pidfile must be given, open and be locked; then the process forks and this one
\* goes on as the child.
ndL_daemonize ==
    /\ stage = "daemonize"
    /\ \/ ~opt.daemonize /\ Proceed("query")
       \/ opt.daemonize /\ opt.pidfile /\ stage' = "child" /\ parent' = "forked" /\ UNCHANGED code
       \/ opt.daemonize /\ Fail
    /\ NoIo
    /\ UNCHANGED <<cred, bound, member, kept, changed>>

\* setsid or chdir may fail.
ChildDetaches ==
    /\ stage = "child"
    /\ Proceed("query") \/ Fail
    /\ NoIo
    /\ UNCHANGED <<cred, bound, member, kept, changed>>

\* Mutant: the parent exits without setting nd_iface_no_restore_flags.
ParentExitsPlainly ==
    /\ parent = "forked"
    /\ parent' = "exiting"
    /\ NoIo
    /\ UNCHANGED <<build, opt, cred, stage, code, stop, kept, bound, member, changed, recreations, loopVars>>

ParentExits ==
    /\ parent = "forked"
    /\ parent' = "exiting"
    /\ kept' = TRUE
    /\ NoIo
    /\ UNCHANGED <<build, opt, cred, stage, code, stop, bound, member, changed, recreations, loopVars>>

\* ndL_exit in the parent: its ios are closed, which closes nothing in the child, but a
\* membership that is dropped is dropped for both.
ParentCleansUp ==
    /\ parent = "exiting"
    /\ parent' = "gone"
    /\ member' = IF kept THEN member ELSE member \ bound
    /\ NoIo
    /\ UNCHANGED <<build, opt, cred, stage, code, stop, kept, bound, changed, recreations, loopVars>>

Startup ==
    /\ \/ ParseOptions \/ CheckPidfile \/ nd_conf_load \/ ndL_netns
       \/ nd_iface_startup \/ nd_proxy_startup \/ nd_rt_open
       \/ ndL_drop_privileges \/ ndL_daemonize \/ ChildDetaches
    /\ UNCHANGED <<build, opt, stop, recreations, loopVars>>

----------------------------------------------------------------------------
(* The main loop. *)

\* On BSD the dump is a system call, over when it returns.
nd_rt_query_routes ==
    /\ stage = "query"
    /\ stage' = "loop"
    /\ dumping' = (build = "linux")
    /\ left' = DUMP_TIMEOUT
    /\ querying' = TRUE
    /\ NoIo
    /\ UNCHANGED <<build, opt, cred, code, stop, parent, kept, bound, member, changed, recreations>>
    /\ UNCHANGED <<at, session_age, iface_age, setbacks>>

\* The handles that must be opened: their interface was recreated, or they could not be had.
Stale == {i \in Ifaces : i \in changed \/ fds[i] = CLOSED}

\* On BSD the stale handles of the interfaces of `due', which exist and whose link-layer
\* address can be read, are closed and opened again, but for those of `bad', where that
\* fails.  `unread' is what waits in the sockets.
nd_iface_rebind_all(unread, due, bad) ==
    IF build = "bsd"
    THEN /\ \E list \in {Reopened(fds, due, bad)} : ListBecomes(list)
         /\ waiting' = [o \in Owners |-> IF o \in due THEN 0 ELSE unread[o]]
         /\ changed' = changed \ (due \ bad)
    ELSE /\ waiting' = unread
         /\ UNCHANGED <<epoll, fds, pollfds, size, dirty, changed>>

\* A pass over the interfaces, whatever can be read and opened.
RebindPass(unread) == \E due \in SUBSET Stale : \E bad \in SUBSET due : nd_iface_rebind_all(unread, due, bad)

\* Mutant: the time-out of the dump is never looked at.
DumpOverDone == ~dumping

\* The dump has been answered in full, or has taken too long.
DumpOver == ~dumping \/ left <= 0

SessionsDue == session_age > SESSION_PERIOD

IfacesDue == iface_age > IFACE_PERIOD

\* A round up to the poll.  The owned routes are removed, and the addresses asked for,
\* once.
Round ==
    /\ stage = "loop" /\ at = "top"
    /\ ~stop
    /\ at' = "poll"
    /\ querying' = (querying /\ ~DumpOver)
    /\ dumping' = ((querying /\ DumpOver /\ build = "linux") \/ ~DumpOver)
    /\ left' = IF querying /\ DumpOver THEN DUMP_TIMEOUT ELSE left
    /\ session_age' = IF SessionsDue THEN 0 ELSE session_age
    /\ IF IfacesDue
       THEN iface_age' = 0 /\ RebindPass(waiting)
       ELSE UNCHANGED <<iface_age, epoll, fds, pollfds, size, dirty, waiting, changed>>
    /\ UNCHANGED <<batch, handling, build, opt, cred, stage, code, stop, parent, kept, bound, member, recreations>>
    /\ UNCHANGED setbacks

Stops ==
    /\ stage = "loop" /\ at = "top"
    /\ stop
    /\ stage' = "exiting"
    /\ NoIo
    /\ UNCHANGED <<build, opt, cred, code, stop, parent, kept, bound, member, changed, recreations, loopVars>>

Polls ==
    /\ stage = "loop" /\ at = "poll"
    /\ at' = "handlers"
    /\ nd_io_poll
    /\ UNCHANGED <<procVars, querying, dumping, left, session_age, iface_age, setbacks>>

PollFails ==
    /\ stage = "loop" /\ at = "poll"
    /\ Fail
    /\ NoIo
    /\ UNCHANGED <<build, opt, cred, stop, kept, bound, member, changed, recreations, loopVars>>

Handlers == stage = "loop" /\ at = "handlers"

Dispatches ==
    /\ Handlers
    /\ Dispatch
    /\ UNCHANGED <<procVars, loopVars>>

\* One message of a handler.  The routing socket tells the end of a dump and of changes
\* of interfaces.
Handle ==
    /\ Handlers
    /\ handling # Nothing
    /\ waiting[handling.owner] > 0
    /\ LET unread == [waiting EXCEPT ![handling.owner] = @ - 1]
       IN  \/ waiting' = unread /\ UNCHANGED <<dumping, epoll, fds, pollfds, size, dirty, changed>>
           \/ /\ handling.owner = Rt
              /\ dumping' = FALSE /\ dumping
              /\ waiting' = unread /\ UNCHANGED <<epoll, fds, pollfds, size, dirty, changed>>
           \/ /\ handling.owner = Rt
              /\ RebindPass(unread)
              /\ UNCHANGED dumping
    /\ UNCHANGED <<batch, handling, build, opt, cred, stage, code, stop, parent, kept, bound, member, recreations>>
    /\ UNCHANGED <<at, querying, left, session_age, iface_age, setbacks>>

Returns ==
    /\ Handlers
    /\ HandlerReturns
    /\ UNCHANGED <<procVars, loopVars>>

\* nd_alloc finds no memory and exits from within a handler.
Fatal ==
    /\ Handlers
    /\ handling # Nothing
    /\ Fail
    /\ NoIo
    /\ UNCHANGED <<build, opt, cred, stop, kept, bound, member, changed, recreations, loopVars>>

\* Mutant: nd_current_time is not refreshed.
AgedNever(age, d, period) == age

\* An age stops growing once it is beyond the period it is compared with.
Aged(age, d, period) == IF age + d > period THEN period + 1 ELSE age + d

\* The batch is done and the clock is read; it has advanced by d.
ReadClock(d) ==
    /\ Handlers
    /\ handling = Nothing /\ batch = {}
    /\ at' = "top"
    /\ session_age' = Aged(session_age, d, SESSION_PERIOD)
    /\ iface_age' = Aged(iface_age, d, IFACE_PERIOD)
    /\ left' = IF dumping THEN Max({left - d, 0}) ELSE left
    /\ IF d < 0 THEN setbacks < MAXSETBACKS /\ setbacks' = setbacks + 1 ELSE UNCHANGED setbacks
    /\ NoIo
    /\ UNCHANGED <<procVars, querying, dumping>>

\* ndL_exit: the memberships are dropped and the ios closed.
Exits ==
    /\ stage = "exiting"
    /\ stage' = "ended"
    /\ member' = member \ bound
    /\ ListBecomes([o \in Owners |-> CLOSED])
    /\ waiting' = [o \in Owners |-> 0]
    /\ UNCHANGED <<batch, handling, build, opt, cred, code, stop, parent, kept, bound, changed, recreations, loopVars>>

----------------------------------------------------------------------------
(* The world around the daemon. *)

Running == stage \notin {"exiting", "ended"}

\* SIGINT or SIGTERM.
Signal ==
    /\ Running /\ ~stop
    /\ stop' = TRUE
    /\ NoIo
    /\ UNCHANGED <<build, opt, cred, stage, code, parent, kept, bound, member, changed, recreations, loopVars>>

\* A handle whose interface was recreated hears nothing.
Incoming(o) ==
    /\ Running
    /\ o \notin changed
    /\ Arrive(o)
    /\ UNCHANGED <<procVars, loopVars>>

\* Interfaces are deleted and created again, all at once when they are a bridge's.
LinksChange(recreated) ==
    /\ Running /\ build = "bsd"
    /\ recreations < MAXRECREATIONS
    /\ recreations' = recreations + 1
    /\ changed' = changed \cup {i \in recreated : fds[i] # CLOSED}
    /\ NoIo
    /\ UNCHANGED <<build, opt, cred, stage, code, stop, parent, kept, bound, member, loopVars>>

Init ==
    /\ IoInit
    /\ \E l \in Launches : build = l.build /\ opt = l.opt /\ cred = l.cred
    /\ epoll = (build = "linux")
    /\ stage = "options"
    /\ code = 0
    /\ stop = FALSE
    /\ parent = "none"
    /\ kept = FALSE
    /\ bound = {}
    /\ member = {}
    /\ changed = {}
    /\ recreations = 0
    /\ at = "top"
    /\ querying = FALSE
    /\ dumping = FALSE
    /\ left = 0
    /\ session_age = SESSION_PERIOD + 1
    /\ iface_age = IFACE_PERIOD + 1
    /\ setbacks = 0

\* What main does next.
Main ==
    \/ Startup \/ nd_rt_query_routes
    \/ Round \/ Stops \/ Polls \/ Dispatches \/ Handle \/ Returns
    \/ \E d \in -1 .. 1 : ReadClock(d)
    \/ Exits

Next ==
    \/ Main
    \/ PollFails \/ Fatal
    \/ ParentExits \/ ParentCleansUp
    \/ Signal
    \/ \E o \in Owners : Incoming(o)
    \/ \E recreated \in SUBSET Ifaces : LinksChange(recreated)

Spec == Init /\ [][Next]_vars

\* The processes are scheduled and time goes by.
FairSpec == Spec /\ WF_vars(Main) /\ WF_vars(ParentExits \/ ParentCleansUp) /\ SF_vars(ReadClock(1))

----------------------------------------------------------------------------
(* Properties. *)

\* Every variable has its type.
TypeOK ==
    /\ Ios \subseteq nd_io /\ batch \subseteq nd_io
    /\ handling \in nd_io \cup {Nothing}
    /\ waiting \in [Owners -> 0 .. MAXWAITING]
    /\ parent \in {"none", "forked", "exiting", "gone"}
    /\ bound \subseteq Ifaces /\ member \subseteq Ifaces /\ changed \subseteq Ifaces
    /\ session_age <= SESSION_PERIOD + 1 /\ iface_age <= IFACE_PERIOD + 1
    /\ left >= 0 /\ recreations <= MAXRECREATIONS

\* The user whom `--user' names, as the comment on ndL_parse_userspec has it.
Named(spec) ==
    LET first == spec[1]
        own == IF first.kind = "number" THEN [uid |-> first.id, gid |-> first.id] ELSE Passwd[first.name]
    IN  IF Len(spec) = 1 THEN own
        ELSE [own EXCEPT !.gid = IF spec[2].kind = "number" THEN spec[2].id ELSE Groups[spec[2].name]]

\* With `--user' no packet and no route message is handled, and no pidfile written,
\* before the process has become that user: its uid, its gid and no other group, with
\* CAP_NET_RAW and CAP_NET_ADMIN, which the daemon goes on needing, and nothing else.
RunsAsUser ==
    opt.user # <<>> /\ (stage \in {"child", "query", "loop"} \/ parent # "none" \/ handling # Nothing) =>
        /\ cred.uid = Named(opt.user).uid /\ cred.uid # 0
        /\ cred.gid = Named(opt.user).gid /\ cred.groups = {cred.gid}
        /\ cred.effective = KeptCaps /\ cred.permitted = KeptCaps

\* The exit of the parent takes nothing from the child: while the daemon runs, the packet
\* socket that both processes share has its memberships on every interface that is up,
\* whenever the parent gets to clean up.
MembershipsKept == stage \in {"child", "query", "loop"} => bound \subseteq member

\* No handler runs on an io that has been closed: neither one that an earlier handler of
\* the same batch closed, nor one whose descriptor was given out again.
HandlesOpenIo ==
    Running => /\ handling # Nothing => handling \in Ios
               /\ epoll => batch \subseteq Ios

\* The array of poll() has room for what is in it, whatever handles a pass has opened since
\* it was allocated (io.c:65).
PollfdsFit == Cardinality(pollfds) <= size

\* A sender keeps pace with a handler for ever: its loop never finds the socket empty, and
\* main never gets further.  No property below says anything of such a behaviour.
Flooded == <>[](Handlers /\ handling # Nothing)

\* A signal ends the daemon, at whatever stage it comes, unless a handler is flooded.
SignalEnds == Flooded \/ (stop ~> stage = "ended")

Waits(o) == stage = "loop" /\ waiting[o] > 0

\* No input is forgotten: whatever is closed, reopened and renumbered, a message that
\* waits in an io is read, or its io closed, or the daemon ends, unless a handler is
\* flooded.
InputHandled == Flooded \/ \A o \in Owners : Waits(o) ~> ~Waits(o)

\* The periodic passes go on for as long as the daemon runs, even if the clock is set
\* back: then they are late, but not given up.  A handler that is flooded stops them.
PassesGoOn ==
    <>[](stage = "loop") => \/ Flooded
                            \/ /\ []<>SessionsDue /\ []<>~SessionsDue
                               /\ []<>IfacesDue /\ []<>~IfacesDue

\* Start-up is completed: the routes of an earlier process are removed and the addresses
\* asked for, even if the end of the dump of routes is never seen, as when the request
\* is not answered, and the clock is set back while it is awaited, unless a handler is
\* flooded.
StartupCompletes == Flooded \/ (stage = "loop" /\ querying ~> ~querying \/ stage = "ended")

=============================================================================
