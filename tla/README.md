# Verification of unidoc-ndppd

TLA+ modules, TLC configurations and TLAPS proofs for unidoc-ndppd, a daemon that answers
IPv6 neighbor solicitations (NS) on one interface on behalf of targets that live behind
another one. The reference is the C code under `src/`.

## The system

| part | state | operations |
|---|---|---|
| sessions (`session.c`) | one session per (proxy, target): state, timers, interface, queue of soliciting neighbours, `autowired`; two hash tables; a counter | create, handle NS, handle NA, timed update, interface changed |
| proxies and rules (`proxy.c`, `rule.c`) | lists built from the configuration | find or create the session of an NS; startup opens the interfaces |
| interfaces (`iface.c`) | list of `nd_iface_t`: name, index, up, admin_up, refcount; the packet socket and its memberships | open, close, rebind, receive, parse, send NA and NS |
| routes and addresses (`rt.c`) | caches of the kernel's routes and addresses, dump timeout | netlink events, dumps, look-ups, add and remove routes |
| main loop (`ndppd.c`) | clock, stamps of the last passes, pidfile | start-up, poll, periodic passes, daemonize, drop privileges |
| event loop (`io.c`) | list of descriptors | create, close, poll |
| configuration (`conf.c`) | parser state | parse proxies, rules, values |
| allocator (`alloc.c`) | chunks and free lists | allocate, free |
| addresses (`addr.c`), log (`log.c`) | none that matters | prefixes and masks; output |

The daemon is single threaded. Concurrency comes from outside: packets of several hosts on
several interfaces, netlink messages, the clock, and the kernel, whose interfaces, routes
and addresses change between any two system calls.


### How the parts interact

- A frame arrives on the packet socket. `ndL_io_handler` of `iface.c` gives it to the first
  bound interface object with its index. An NS goes to the object's proxy, which finds or
  creates the session; an NA goes to the first session that waits for the address on that
  interface.
- A session in `auto` mode asks `rt.c` for the longest matching route and opens the route's
  interface by index. A session of an `iface` rule shares the interface of its rule and may
  install a /128 route (`autowire`).
- A link event in the netlink socket, or 5 s without a pass, starts `nd_iface_rebind_all`,
  which tells the sessions when their interface goes or comes.
- `main` dumps the routes, removes what an earlier process left, dumps the addresses, and
  updates all sessions every 100 ms.
- With `--user` the process gives up root after its sockets are open; with `-d` it forks, and
  parent and child share the packet socket until the parent has exited.

### What is hard here

Timers that several paths write; a table and queues at their limits; reference counts kept in
four places; events and dump replies in one queue, any of which may be lost; system calls on
an interface that has changed since the last one; routes of a killed process, and routes the
kernel flushes behind the sessions' backs; handles closed under the event loop; several
invocations that start at once; a clock that is set back. `PROJECT.json` lists these hazards
with their lines and the properties that watch them.

## The modules

| module | models |
|---|---|
| `Session` | `session.c` in full, `nd_proxy_handle_ns`, the main loop as far as it drives sessions |
| `Resolver` | what a soliciting neighbour is promised, without sessions, timers or interfaces |
| `SessionResolver` | the refinement mapping from `Session` to `Resolver` |
| `Wiring` | `Session` composed with the kernel's links and routes and with the rebind pass |
| `Routes` | `rt.c` (Linux) and the start-up sequence of `main` |
| `Iface` | open, close, rebind and delivery of `iface.c` (Linux), `nd_proxy_startup` |
| `Addr`, `Packet` | `addr.c` on words; the packet socket, its filter, parsing, checksum, sending (Linux) |
| `Conf` | `conf.c`, `nd_proxy_create`, `nd_rule_create`, `nd_proxy_startup` |
| `Alloc` | `alloc.c` |
| `Io` | the event loop of `io.c`, with epoll and with `poll()` |
| `Daemon` | `main` of `ndppd.c` over `Io`: start-up, change of user, fork, loop, exit |
| `Pidfile` | `ndL_check_pidfile` and `ndL_daemonize` of several processes |
| `MCSession`, `MCWiring`, `MCRoutes`, `MCIface`, `MCPacket`, `MCConf`, `MCAlloc`, `MCDaemon`, `MCPidfile` | small instances of the above for TLC |
| `SessionProofs` | proofs about `Session`, and that it implements `Resolver` |
| `WiringProofs` | proofs about `Wiring` |
| `RoutesProofs`, `IfaceProofs`, `ConfProofs`, `AllocProofs`, `DaemonProofs`, `PidfileProofs` | proofs about the module each is named after |

Definitions keep the names of the C functions they translate; `map` in `PROJECT.json` gives
the lines. A definition whose comment starts with "Mutant:" is a deliberately wrong variant of
the one after it and is used by nothing. Modules that proofs are about write out a few sequence
operators that `SequencesExt` has too, because the provers know sequences by index and not the
library's definitions.

### Session

State: `sess` (the records `nd_session_t`), `live` (which are in the lists), `ahead` (the
order of `ndL_sessions_r`, which decides who gets an NA), `count`, and what a session sees of
its surroundings: `up`, `admin_up`, `refs`, `route`, `local`. `pending` is the part of
`nd_session_update_all` that is still to come. `sent` is what the last step sent. `probed` and
`vouched` are histories that only properties read.

An operation on one session is an operator that returns an outcome (new record, what is sent,
interface opened), which `Commit` applies: creation followed by `nd_session_handle_ns` in one
NS is thus one step, as in the code.

Time is kept as ages. The code only compares `nd_current_time - stamp` with thresholds, so an
age that stops at `AGE_CAP`, above all of them, loses nothing. The clock never goes back in
this module; `Daemon` has a clock that does.

Routes, addresses and interfaces change by actions of their own here; what those changes
depend on is the matter of `Routes`, `Iface` and `Wiring`.

### Resolver

For each question (a target asked of a proxy) the proxy is idle, looking, or answering.
`SessionResolver` maps a key without a session to idle, a VALID session to answering, and the
three other states to looking; the queue is what is owed; the NAs of a step are its answers.
The promise: an NA goes only to one who asks now or is owed an answer, the whole queue is
answered when the target is found and at no other time, and it is given up only together with
the session.

### Wiring

Adds to `Session` the kernel's link of each name (index, IFF_UP) and the routes of this
process in the kernel. The kernel flushes the routes of a link that goes down or is deleted
and refuses new ones. Asked to remove a route it removes one of those to the destination in
the table, any of them, since the request names no interface. `Pass` is `nd_iface_rebind_all` on one interface; it chooses
between the actions of `Session` by comparing what it finds with `index`, `up` and `admin_up`. A visit
that fails changes nothing and is left out. `flushed`, `renamed` and `missed` are histories.

### Routes

State: the kernel's routes and addresses, the walk of the dump in progress, the netlink queue,
the two lists, the stage of `main`, the dump timer, and the routes that sessions have asked
for. Addresses have `W` bits, and `nd_addr_match` compares their first `pflen`. The kernel is
external: a dump reports what is still there when its turn comes; an event that does not fit
in the buffer is lost; a replaced route gives one event. It holds any number of routes to one
destination, told apart by interface or metric, and refuses only what it has already; asked to
remove one of this program's routes it removes one, any of them, as in `Wiring`. The list has one
entry per destination, prefix length and table, as `ndL_new_route` has it. `left`, `doubled` and
`replaced` are histories: the earlier process's routes that are still there, and the keys of
which the kernel has had two routes at a time or a route was replaced in place. `Worlds` says which routes
and addresses there can be, what was left behind, and whether events are lost and routes replaced;
a behaviour is in one of them. The list of routes is a sequence because its order matters,
that of addresses is a set because it does not.

### Iface

State: the kernel's interfaces by name, the memberships of the packet socket by index and
kind, the list of `nd_iface_t`, the openings of the configuration still to be done, and the
place of the pass. A pass visits an object in two steps, the look-up of the name and the rest,
and the kernel may move between them and between objects. `nd_iface_open` is one step.
A session opens an interface by index after the link event of that interface was handled: its
route is announced later in the same socket (`fresh`). `overtaken` is a history: the names of which
an interface was created while an object was bound to the one before it and start-up was yet to open
the name again.

### Addr and Packet

Frames are sequences of bytes at their real offsets. `filter` is the program of
`ndL_configure_filter`, run by a model of the kernel's machine. `ndL_io_handler` is one frame of
the handler's loop, down to what is handed to the proxy or the session. The second half of the
module builds frames from a description of what the sender meant and says what is to become
of them, from the RFCs' point of view and bit by bit; the properties compare the two. `Apart`
names the messages on which the code is known not to follow the RFCs, and `Understood` says
nothing of those: advertisements, and solicitations from `::`, that are not valid in their options
or (advertisements) their target, and messages of odd length. The frames the program sends itself,
to a neighbour or to all nodes, are fed back as those of another host.

### Conf

A file is a sequence of items: an entry with its value, the end of a block (`END`), the end of
the file (`EOF`). The parser consumes one per step; the stack of `ndL_parse_block` is `scope`.
`text` is a history from which `WellBegun`, `WellFormed`, `ProxyAt` and `RuleAt` say, looking at
the file as a whole, whether it is right and what it means. `AcceptsWellFormed` has both
directions: what is not right is refused, and nothing is refused before it is wrong.
`LoadsWhatIsWritten` has one exception (`Late`): it does not say what target a rule without one of
its own has when its proxy's is given after it, because there the code does not do what the
documentation says (`conf_target.cfg`).

### Alloc

A pointer is a chunk and an offset. `live` is what callers hold. Every pointer the program
frees was allocated by `ND_NEW` of the same type, so `nd_free` is called with what is in
`live`. `peak` is a history.

### Io and Daemon

An io is identified by its owner, an event by the io that was ready; with `poll()` an event
finds its io by descriptor when its turn comes. Descriptors are handed out lowest first.

`Daemon` goes through the stages of `main`, each of which can fail at any of its calls. The
credentials are uid, gid, groups, and the two capability sets, and each call of
`ndL_drop_privileges` is allowed and acts as the kernel has it. After the fork, `parent` is the
other process. A round of the loop is one step up to the poll, then the poll, one step per
event and message, and the reading of the clock, which may have been set back. On BSD
interfaces are recreated, and a pass closes and reopens their handles between two events of a
batch.

### Pidfile

One action per system call of `ndL_check_pidfile` and `ndL_daemonize`, for any number of
invocations, with and without `-d` and `-p`. The lock belongs to the open file, which parent
and child share. Any process may be killed at any step.

## What is checked

Each run has a `.cfg` of its name. The runs below find no error.

| run | checks | shows |
|---|---|---|
| `session` | `TypeOK`, `NoStrandedSubs`, `ProbesHaveIface`, `RefsExact`, `TableBounded`, `FreshReply`, `KeepsPromise`, `WaitersServed`, `SilentTargetForgotten`, `StaleProbesSpaced` | targets of an `iface` rule with `autowire` and rewriting, of an `auto` rule, static, and of no rule, in a table of one session |
| `wiring` | `NoOrphans`, `RouteMissingOnlyIfMissed` | no route outlives its session (unless its interface was renamed, or the rules of two proxies send the target through different interfaces); a session lacks its route only if the interface flapped between two passes, the kernel refused the route, or another session of the target expired |
| `routes` | `FindLongest`, `ListsKnown`, `EarlierRemoved` | the first match is the longest; events and dump replies interleave and the lists end up right, and routes of an earlier process are gone after start-up, except for destinations of which the kernel has had two routes |
| `iface` | `BoundHears`, `OneObjectPerName`, `Reconverges` | a bound object has its membership, whatever overtakes a pass; sessions that open by index, and openings of a name that is open already, share the object, unless the interface was created again between two openings at start-up; when the kernel stops changing the list agrees with it |
| `packet` | `Understood`, `PrefixesExact`, `QueueFiltered`, `AdvertComplete` | a frame is handed on exactly if it is valid by RFC 4861, with its sender's addresses, to the first rule that matches bit by bit, but for three kinds of message named below; what is sent is complete |
| `conf_load` | `AcceptsWellFormed`, `LoadsWhatIsWritten`, `UsableBySessions` | the parser accepts the well-formed files and loads what they say, a proxy's `target` that stands after a rule left aside; a daemon that starts has what `Session` assumes of rules and timers |
| `alloc` | `NoOverlap`, `PeakIsFloor`, `ChunksFilled` | objects are disjoint; memory is used again before more is taken; chunks are filled and stop growing at the cap |
| `daemon` | `RunsAsUser`, `MembershipsKept`, `HandlesOpenIo`, `PollfdsFit`, `SignalEnds`, `InputHandled`, `PassesGoOn`, `StartupCompletes` | nothing runs before the change of user is complete; the parent takes nothing from the child; no handler runs on a closed io; the array of `poll()` is large enough; signals, input and passes get their turn unless a sender keeps pace with a handler for ever |
| `pidfile_daemon` | `OneDaemon`, `PidfileNames`, `SomeoneStarts` | one daemon, named by the file; not all give way |

The following runs check what the documentation or a comment says, and find a behaviour of the
code that contradicts it. `findings` in `PROJECT.json` quotes the lines.

| run | what happens |
|---|---|
| `session_incomplete_spacing` | the timer of an INCOMPLETE session is not restarted by a retransmission: later probes are one pass apart, not `retrans-time` |
| `session_na_shared` | two proxies forward to one interface: an NA reaches the newest session only |
| `routes_replace` | a route replaced in place keeps its old interface in the list (`rt.c:45` calls it all routes of the system) |

### Other disagreements met

Five more configurations can be run by hand and end in a counterexample:

- `wiring_flap.cfg` (`MCWiring`): an interface goes down and up between two passes. The kernel
  has flushed its routes, the pass finds index and flag unchanged, and a VALID session goes
  without its route until it expires (`iface.c:714`). `session.c:352` speaks of re-adding the
  routes "for sessions that are still VALID once it reappears".
- `iface_reuse.cfg` (`MCIface`): an interface created again with its old index between two
  passes gets no membership (`iface.c:706`). `ndppd.c:588`: "Polling every 5 s guarantees the
  daemon reconverges to reality within one interval".
- `conf_target.cfg` (`MCConf`): a proxy's `target` that stands after a rule does not reach it
  (`rule.c:25`). README.md:156: "override advertised MAC for all rules", and
  `contrib/unidoc-ndppd.conf-dist:33` "for NAs generated by this proxy".
- `routes_twice.cfg` (`MCRoutes`): the kernel has two routes to one destination through two
  interfaces, as it has of `fe80::/64` and `ff00::/8` on every host with two interfaces. The
  list has one of them, or none when the other was deleted (`rt.c:58`, `rt.c:94`).
  `rt.c:45`: "All IPV6 routes on the system."
- `packet_rfc.cfg` (`MCPacket`): a solicitation from `::` with an option of length zero, or with
  a source link-layer address, is handed on, since its options are not looked at
  (`iface.c:95`). `iface.c:96`: "MUST discard if any option has length zero", and README.md:25
  claims compliance with RFC 4861. The options and the target of an advertisement are not
  checked either (`iface.c:130`).

The models also have the following behaviours, on which no configuration is spent.

- The interval of a STALE session grows every 3 probes and only at multiples of
  `retrans-limit` (`session.c:317`); the README says every `retrans-limit` probes.
- With a full queue an INVALID `auto` session does not look at the routing table again
  (`session.c:95`); the README says it does on each NS.
- Static sessions are renewed for ever and can fill the table (`session.c:162`).
- After an overrun of the netlink socket the list of routes is not read anew (`rt.c:270`).
- The clean-up after the dump removes the routes that sessions of this process have installed
  in the meantime as well (`rt.c:717`); they come back only with the next session.
- Of two routes that an earlier process left to one address (two proxies, two interfaces), and
  of one beside another program's route, the list has one entry, so the clean-up sends one
  request, or none, and a route stays (`rt.c:58`, `rt.c:716`).
- A dump of routes that does not end in 5 s makes the kernel refuse the dump of addresses, which
  is not asked for again (`ndppd.c:571`).
- A handler reads until its socket is empty (`rt.c:267`, `iface.c:277`). A sender that keeps pace
  with it keeps `main` from the other sockets, the passes and a signal.
- Every NA has the Override flag (`iface.c:957`). RFC 4861, 7.2.8, has a proxy's without it;
  README.md:25 claims compliance, while the comment at `session.c:78` intends the flag.
- Where the rules of two proxies send one target through different interfaces there are two
  routes to it, and the session that expires first may have the other's removed and its own
  left behind, because `nd_rt_remove_route` names no interface (`rt.c:660`).
- An autowired route is refused while the interface is down, and the session believes in it
  all the same (`session.c:44`).
- An interface that is deleted and created between two openings of its name at start-up, or
  opened by a session after a look-up failed, gets two objects, of which the one without the
  proxy may take the packets (`iface.c:500`).
- A proxy that shares an object opened by an earlier rule does not get promiscuous mode
  (`iface.c:500`); a renamed interface keeps its membership and its routes (`iface.c:674`).
- A message of odd length, which no message of whole options has, passes the checksum only if
  its last byte is 0 (`iface.c:161`).
- Without `-d` the pidfile is not kept locked (`ndppd.c:73`); `-d` without `-p` never starts,
  because `open` gets a null path (`ndppd.c:79`).

One is below the level of the models: README.md:142 promises comments between `/*` and `*/`, and
`ndL_skip` knows `#` only (`conf.c:139`).

### Bounds

- Session: four targets of one proxy, a table of one, two neighbours, a queue of one. Sessions
  follow each other in the one place, so creation meets a full table and every leftover of
  the one before; two neighbours fill a queue of one. Thresholds are 1 or 2 ticks and `AGE_CAP`
  is one more than the greatest, so every comparison goes both ways. The clock advances by 1
  or 2, so a threshold can be met exactly or jumped over. Two sessions at once are in `wiring`
  and `session_na_shared`, and the safety properties are proved for any number.
- Wiring: two proxies, one target, one interface that changes, two indexes: enough for two
  sessions to share a route and for an interface to be replaced by another of its name. The
  solicitations have no link-layer address to answer to: who waits in a queue does not matter
  to the routes, and the theorems about `Wiring` have any neighbours.
- Routes: two-bit addresses with prefix lengths 0, 1 and 2 give nesting and disjointness. A
  buffer of three messages holds events before, among and after dump replies, and
  overflows. Seven hosts with up to three routes each have the cases apart: events lost, two
  tables and addresses, a replaced route, two routes to one destination by interface and by
  metric, two left-over routes of one address, a left-over route beside another program's.
- Iface: two names, two indexes, two link-layer addresses, one rename, one session; three
  openings at start-up, two of them of one name, a rule's and a proxy's.
  `MAXRENAMES` keeps the space finite, since each rename may leave a membership behind. Indexes
  are not reused unless a configuration says so (`REUSE`); Linux hands them out in ascending
  order, and reuse needs an explicit index. Three indexes were checked once, too.
- Packet: three interfaces (a proxy's, another, an absent one); prefix lengths 0, 1, 31, 32,
  33, 64, 127 and 128, targets that differ in a bit on either side of each border; messages with
  up to two deviations from a good one. The socket holds one frame: frames do not influence
  each other.
- Conf: eight items are a proxy with a rule of three entries and the end of the file, or two
  proxies, or a rule with a mode and a `target` of its proxy after it. The vocabulary has a right
  and a wrong representative of every kind of value. Longer files are the matter of the theorems.
- Alloc: two buckets, chunks of 48 and 64 bytes, of which two can be had; a size on each side
  of a multiple of 8, and one that is too large.
- Daemon: two interfaces, one message waiting per socket, an array for two descriptors (so that
  it grows), periods of 0 and 1 ticks, one setback of the clock, one recreation, which may
  take both interfaces. Thirteen user specifications, three sets of credentials.
- Pidfile: three invocations with `-d` and `-p`, which are symmetric, one without `-d` and one
  without `-p`.

Deadlock is checked except where the system really may stop: all processes of `Pidfile` and
`Daemon` may end, the allocator's process too, the parser of `Conf` gets to its last item, and
the socket of `Packet` may fail to open.

### Fairness

`Session!FairSpec` has weak fairness of the main loop and of the visits of
`nd_session_update_all`; `Iface!FairSpec` has it for the openings at start-up and the steps of
a pass. The poll of `io.c` returns after 250 ms at the latest and the passes are plain loops,
so both go on as long as the process lives, provided that no handler is kept reading for ever:
the handlers read until their socket is empty.

`Daemon` has the handlers' loops and does not assume that they end: `Daemon!FairSpec` has weak
fairness of `main` and of the parent, and strong fairness of `ReadClock(1)` (time goes by: the
clock may be set back, but not always). Its four liveness properties say of themselves that they
hold unless a handler never gets out of its loop (`Flooded`), which happens when a message arrives
each time one was read. Without that exception TLC finds such a behaviour.

Nothing is assumed of packets, of the kernel's changes, or of look-ups, which may fail for ever
except where `Reconverges` says otherwise. `Reconverges` also excludes renames and behaviours
in which a name has got two objects.

## What is proved

TLAPS proves every safety property of the passing runs except the four of `packet`, for all
values of the constants that satisfy the assumptions named below. The assumptions are the
ASSUMEs of the modules, which TLC evaluates in the runs, and in `IfaceProofs` a hypothesis of the
theorems themselves.

| module | theorem | statement |
|---|---|---|
| `SessionProofs` | `TypeCorrect` | `TypeOK` |
| | `ProbesHaveIfaceThm` | a probing session has an interface |
| | `NoStrandedSubsThm` | a VALID session has an empty queue |
| | `FreshReplyThm` | no NA for a target that has been silent for `valid-ttl` and a pass interval |
| | `TableBoundedThm` | the count is exact, and both caps hold |
| | `RefsExactThm` | reference counts are the references held |
| | `StaleProbesSpacedThm` | probes of a STALE session are `retrans-time` apart or more |
| | `RouteRemovedOnExpiryThm` | a session that is deleted with its route installed removes it |
| | `KeepsPromiseThm` | `Session` implements `Resolver` |
| `WiringProofs` | `NoOrphansThm` | no route outlives its session |
| | `RoutesAreHad` | a session lacks its route only in one of the three known ways |
| `RoutesProofs` | `FindsLongest` | the first match in the list is the longest |
| | `ListsAreKnown` | when all messages are handled the lists are what the kernel reports, except for keys of which it has had two routes or one was replaced |
| | `EarlierAreRemoved` | start-up removes what an earlier process left, except for keys of which the kernel has had two routes |
| `IfaceProofs` | `BoundAlwaysHears` | a bound object has its membership |
| | `OneObjectStands` | a name has one object, unless its interface was created between two openings of start-up |
| `ConfProofs` | `AcceptsWellFormedThm` | the parser accepts exactly the well-formed files, and fails at the item that is wrong |
| | `LoadsWhatIsWrittenThm` | what is loaded is what the file says as a whole, late targets aside |
| | `UsableBySessionsThm` | a daemon that starts has what the session table relies on |
| `AllocProofs` | `NoOverlapThm` | objects are aligned, inside their chunks and disjoint |
| | `ChunksFilledThm` | all chunks but the last are filled, and none exceeds the cap |
| | `PeakIsFloorThm` | nothing is cut from a chunk while a freed object could be used |
| `DaemonProofs` | `ArrayFits` | the array of `poll()` has room |
| | `MembershipsAreKept` | the parent takes no membership from the child |
| | `ItRunsAsUser` | nothing runs before the change of user is complete |
| | `ItHandlesOpenIo` | no handler is called on a closed io |
| `PidfileProofs` | `OneDaemonThm`, `PidfileNamesThm`, `SomeoneStartsThm` | one daemon, named by the file; not all give way |

### Session

Assumed: `None` is none of the others; a rule has an interface exactly if its mode is `iface`, and
`autowire` only then, as `conf.c` demands; proxies and rules hold references on their
interfaces; `AGE_CAP` exceeds the thresholds; `VALID_TTL` is not zero; addresses, proxies and
neighbours are finitely many.

All rests on the theorem `Invariant`. `FreshReply`, on its own, says nothing about the state
that leads to a reply, so `IInv` adds the chain behind it. A VALID session was vouched for no
earlier than its `state_time` (`Vouched`). Unless the pass in progress has yet to visit it,
its `state_time` is at most `valid-ttl` plus the time since the last pass ago (`InTime`). The
properties of one session (`SessionOK`) need that a VALID session without an interface is not
an `auto` one, for `nd_session_update` turns VALID into STALE when there is an interface. Keys
without a session are blank (`DeadBlank`), which makes the count of references change by the
one that an operation takes or gives back.

The argument has three layers: what each operator on one session guarantees (`OutcomeOK`,
`UpdateOK`); that committing such an outcome, or deleting the session, keeps `IInv`; the passing
of time, the interfaces, the routes and the addresses, and the conclusions. `StaleProbesSpaced`
follows from `Stamped` (`ons_time` is not before the last probe of a STALE session) and from the
interval being `retrans-time` times a power of two whose exponent is capped, so that the powers
are finitely many and are computed one by one.

For the refinement, every initial state maps to one of `Resolver` and every step to a step of
it. It uses `IInv` twice: a VALID session has an empty queue, so lapsing owes nobody an answer
that `Resolver` has forgotten, and a key without a session is blank, so a new session starts
with nobody waiting. Each operator of `Session` is shown to be one of the actions of `Resolver`
on its own key; a frame lemma says that the other keys, and with them their phase and queue,
stay.

### Wiring

Assumed: what `Session` assumes; any interfaces move. The invariant is `WiringInvariant`.

`NoOrphans` is not inductive. A pass that finds an interface down, gone or replaced makes its
sessions forget their routes, so the invariant adds that a route (on an interface that was not
renamed) is on the interface the daemon knows by that name, under the index of the last pass,
and that it is up (`Current`): then there is nothing left to forget. A session that expires must
have its own route removed, not another to the same destination: a session is on the interface
of its rule (`RulesFollowed`) and every route comes from a rule (`Installs`), so where the rules
agree (`OneWay`) two routes to one destination in one table are on one interface, under one
index, and are the same route.

`RouteMissingOnlyIfMissed` needs its counterpart while an interface is in doubt (`RoutesHad`): a
session that believes in its route is on an interface that the daemon takes to be up, and has
the route, is known to miss it, or the interface was flushed or has another index since the
last pass, which will then tell the session.

The step lemmas go through what an operation does to the `autowired` flag and to the interface
of one session (`Unwired`, `Believes`, `AsksOnly`). That the sessions keep `IInv` is taken from
`SessionProofs`: each step of `Wiring` is one of `Session`, or leaves the sessions alone.

### Routes

Assumed (`RoutesAssumption`): addresses have at least one bit, the buffer holds at least one
message, and what an earlier process left are full-length routes with the mark of this program
and an interface, which is what `nd_rt_add_route` installs. The kernel may hold any routes.

The list is sorted by prefix length (`ListOK`); insertion and removal keep it so, and the first
match of a sorted list is the longest. `ListsKnown` speaks of the moment when nothing waits, so
the invariant says what the lists will be once everything that waits is handled (`Becomes`), and
that this is in the kernel, and has what the kernel reports less what the dump in progress is
still to report and the keys that were doubled or replaced (`Follows`, `Agrees`).
An event is appended to the queue as the kernel changes, a reply as the walk gets there, and
both sides move together. `EarlierRemoved` needs another chain (`Awaited`): a route left behind
that is still in the kernel is yet to be reported, or its report waits before the end of the
dump, or it is in the list; and nothing else of its key is known, as long as the kernel has had no
other route of the key. So it is in the list when the clean-up runs, and it is the one route that
the request for its key can remove. Lost events do not matter to it: they are of later changes.

### Iface

Assumed: `nd_proxy_create` refuses a second proxy of a name; there is a link-layer address. Both
theorems have the hypothesis that no index is given out twice (`~REUSE`); `iface_reuse.cfg` shows
what becomes of the daemon otherwise.

`BoundHears` follows from counting: an index that exists has at least as many memberships as
there are objects that have the index, or had it last (`HearsOK`).

For `OneObjectStands` the configuration is arbitrary and may open a name any number of times. The
invariant has two halves. For sessions (`SettledOK`): the interface of an object, unless it is news
the daemon has not heard, is the one the object is bound to. A session opens by index only what is
not news, and finds the object. For start-up (`StartOK`): an object whose name is to be opened again
waits for its interface or is bound to the one that exists, so the next opening finds it by its
index or by its name. Start-up makes no pass, so only an interface created in between breaks this, and
then the name is in `overtaken`.

### Conf

Assumed (`ConfAssumption`): a number is an integer, and what names an interface is a name. The
vocabulary and the length of the file are arbitrary.

The properties look at a file as a whole, by counting the blocks that began and ended before each
item; the parser has one item and a scope. The invariant says which block the scope stands for
(`Nested`): the blocks that are open are a proxy and a rule at most, and each is the last of its
kind. An item that is read is thus directly in the last block, and changes what the file says of
that one only; the rest of the proof says so for every kind of item and every field of a proxy
or a rule, with one lemma for "the value last given" when an item is added. A rule that is being
read is what the file says so far (`RuleSoFar`). `UsableBySessions` needs nothing of the file; it
follows from what is stored (`Stored`).

`UsableBySessions` has the conditions that `ConfigAssumption` and `TimeAssumption` of `Session` put
on rules and timers: the two are stated in the terms of each module, and the correspondence
between them is by reading.

### Alloc

Assumed (`AllocAssumption`): a chunk of the first size has room for its header and the largest
object; the limit is a multiple of 8. `NoOverlap` alone is not inductive, since it says nothing of
what was freed: the invariant has the free objects, too, inside their chunks and apart from each
other and from the live ones, each with the room of its bucket. `PeakIsFloor` is inductive with the
finiteness of what is held.

### Daemon

Assumed (`DaemonAssumption`): the interfaces, the packet socket and the netlink socket are
different owners; `/etc/passwd` gives numbers; the capabilities kept are among those there are.

For the change of user the invariant follows the credentials through the stages (`UserOK`): a stage
after `ndL_drop_privileges` is reached only with every identifier and both capability sets as
named, whichever call fails. For the event loop (`LoopOK`): events are dispatched only between the
poll and the next reading of the clock, and with epoll no io of the batch is closed in between. The
array of `poll()` grows with each open, and a pass over any number of interfaces is followed handle
by handle.

### Pidfile

Assumed: nothing but that the sets are what their names say. The invariant says that the lock is
held by exactly the invocation that is between a successful `flock` and the end of the last process
that shares its open file (`LockExact`). Two daemons would both hold it. Whoever writes the file
holds it while no other daemon lives. Whoever gave way saw a holder, which was past its check and
either goes on or gives way to the next (`GaveWay`). An invocation with `-d` and without `-p` never
gets as far as the lock (`NoPathNoLock`).

### What is only model-checked

- Liveness: `SilentTargetForgotten`, `WaitersServed`, `Reconverges`, `SignalEnds`, `InputHandled`,
  `PassesGoOn`, `StartupCompletes`. Fairness and ENABLED are out of the prover's reach.
- `PrefixesExact`, `Understood`, `QueueFiltered` and `AdvertComplete` of `Packet`, which is built
  on recursive and bitwise operators: checksums, masks and the filter's machine.

`RouteRemovedOnExpiry` is proved and in no run; `wiring` checks what becomes of the routes.

The provers cannot use induction over an operator. Where a proof needs induction over numbers (the
least position of a list that matches, the descriptors after each visit of a pass, the last item
with a key), it takes the set of the numbers that fail and the least of them, from the
well-foundedness of `<` in the library.

## What is not modelled

- Setting the clock back under the timers of sessions: a session then outlives its time-outs by
  the size of the step. The passes that drive them are in `Daemon`, with such a clock.
- A failure of a system call other than those named in the modules.
- The two look-ups inside `nd_iface_open`, which the model takes for one.
- The characters of the configuration, of `/etc/passwd` and of addresses in text form; the hash
  of the session table, on which only the speed of a lookup depends.
- The BSD back end apart from its handles: AF_ROUTE messages, sysctl dumps, several frames in
  one bpf buffer.
- Logging; `mld.c`, a stub that nothing calls.
- The modules are not all composed: `Wiring` joins sessions, interfaces and routes in the
  kernel, `Daemon` the process and its event loop. `Routes` and `Iface` meet the sessions only
  through what they ask for.
