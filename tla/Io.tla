--------------------------------- MODULE Io ---------------------------------
(***************************************************************************)
(* The event loop of io.c: the list of open ios, the array given to poll() *)
(* or the set registered with epoll, and the dispatch of what is ready.    *)
(*                                                                         *)
(* With epoll an event carries the pointer to its nd_io_t; with poll it    *)
(* carries a descriptor, which is looked up in the list when its turn      *)
(* comes.  A handler may close and reopen other ios in between.            *)
(***************************************************************************)
EXTENDS Integers, Sequences, FiniteSetsExt

CONSTANTS
    Owners,         \* what an io is opened for
    MAXWAITING,     \* messages that can wait in a socket
    POLLFDS_SIZE,   \* NDPPD_STATIC_POLLFDS_SIZE
    Nothing         \* NULL

VARIABLES
    epoll,          \* built to use epoll
    fds,            \* ndL_first_io: the descriptor of each owner's io, CLOSED if it has none
    pollfds,        \* the descriptors in ndL_pollfds
    size,           \* ndL_pollfds_size
    dirty,          \* ndL_dirty
    waiting,        \* the messages waiting for each owner
    batch,          \* events returned by the poll and not dispatched yet
    handling        \* the io whose handler is running

ioVars == <<epoll, fds, pollfds, size, dirty, waiting, batch, handling>>

CLOSED == -1

\* An nd_io_t; the owner stands for its address.
nd_io == [owner : Owners, fd : Nat]

\* The list of ios, whose order only decides the order of events.
Ios == {[owner |-> o, fd |-> fds[o]] : o \in {p \in Owners : fds[p] # CLOSED}}

\* open() and socket() return the lowest descriptor that is free.
LowestFd(list) == Min({n \in 0 .. Cardinality(Owners) : \A o \in Owners : list[o] # n})

ndL_create(list, o) == [list EXCEPT ![o] = LowestFd(list)]

nd_io_close(list, o) == [list EXCEPT ![o] = CLOSED]

\* Mutant: a change of the list does not mark the array of poll().
ListBecomesClean(list) ==
    /\ fds' = list
    /\ UNCHANGED <<epoll, pollfds, size, dirty>>

\* The list becomes `list'; the array of poll() is refreshed before the next poll.
ListBecomes(list) ==
    /\ fds' = list
    /\ dirty' = (dirty \/ (~epoll /\ list # fds))
    /\ UNCHANGED <<epoll, pollfds, size>>

\* Mutant: the array is filled without being enlarged.
RefreshUngrown ==
    /\ pollfds' = {io.fd : io \in Ios}
    /\ UNCHANGED size

ndL_refresh_pollfds ==
    /\ pollfds' = {io.fd : io \in Ios}
    /\ size' = IF Cardinality(Ios) > size THEN 2 * Cardinality(Ios) ELSE size

\* Mutant: the poll waits for as long as nothing is ready.
PollForever ==
    /\ IF dirty THEN ndL_refresh_pollfds ELSE UNCHANGED <<pollfds, size>>
    /\ dirty' = FALSE
    /\ batch' = {io \in Ios : waiting[io.owner] > 0}
    /\ batch' # {}
    /\ UNCHANGED <<epoll, fds, waiting, handling>>

\* Eight events are more than there are ios with epoll.  A time-out reports none.  An
\* event is shown as the io that was ready.
nd_io_poll ==
    /\ IF dirty THEN ndL_refresh_pollfds ELSE UNCHANGED <<pollfds, size>>
    /\ dirty' = FALSE
    /\ batch' = {io \in Ios : waiting[io.owner] > 0 /\ (epoll \/ io.fd \in pollfds')}
    /\ UNCHANGED <<epoll, fds, waiting, handling>>

\* Mutant: the event of poll() points to the io that was ready, closed since or not.
FoundByPointer(e) == e

\* The io that an event is for: epoll hands back the pointer, poll() the descriptor.
Found(e) ==
    IF epoll THEN e
    ELSE IF \E io \in Ios : io.fd = e.fd THEN CHOOSE io \in Ios : io.fd = e.fd ELSE Nothing

\* An event of the batch is dispatched, or skipped if no io has its descriptor.
Dispatch ==
    /\ handling = Nothing
    /\ \E e \in batch : batch' = batch \ {e} /\ handling' = Found(e)
    /\ UNCHANGED <<epoll, fds, pollfds, size, dirty, waiting>>

\* A message comes in for an io that is open.
Arrive(o) ==
    /\ fds[o] # CLOSED
    /\ waiting[o] < MAXWAITING
    /\ waiting' = [waiting EXCEPT ![o] = @ + 1]
    /\ UNCHANGED <<epoll, fds, pollfds, size, dirty, batch, handling>>

\* recvmsg returns EAGAIN, or any other error, and the handler is done.
HandlerReturns ==
    /\ handling # Nothing
    /\ waiting[handling.owner] = 0
    /\ handling' = Nothing
    /\ UNCHANGED <<epoll, fds, pollfds, size, dirty, waiting, batch>>

IoInit ==
    /\ fds = [o \in Owners |-> CLOSED]
    /\ pollfds = {}
    /\ size = POLLFDS_SIZE
    /\ dirty = FALSE
    /\ waiting = [o \in Owners |-> 0]
    /\ batch = {}
    /\ handling = Nothing

=============================================================================
