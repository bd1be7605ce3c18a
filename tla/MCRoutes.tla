------------------------------ MODULE MCRoutes ------------------------------
(***************************************************************************)
(* Small instances of Routes: two-bit addresses.                           *)
(***************************************************************************)
EXTENDS Routes

R(dst, pflen, table, oif, owned) ==
    [dst |-> dst, pflen |-> pflen, table |-> table, oif |-> oif, owned |-> owned, metric |-> 1]

Half == R(0, 1, 254, 1, FALSE)      \* covers addresses 0 and 1
HalfVia2 == R(0, 1, 254, 2, FALSE)  \* the same through another interface
HalfAside == R(0, 1, 100, 1, FALSE) \* the same in another table
HalfLater == [Half EXCEPT !.metric = 2]
Default == R(0, 0, 254, 2, FALSE)   \* reported without a destination
Left3 == R(3, 2, 254, 1, TRUE)      \* left by an earlier process
Left3Via2 == R(3, 2, 254, 2, TRUE)
Other3 == R(3, 2, 254, 2, FALSE)    \* another program's, to the same destination
Wire1 == R(1, 2, 254, 1, TRUE)      \* added by a session

Two == {[iif |-> 1, addr |-> 1, pflen |-> 2], [iif |-> 1, addr |-> 2, pflen |-> 2]}

Host(routes, earlier) ==
    [routes |-> routes, earlier |-> earlier, addresses |-> {}, lossy |-> FALSE, replace |-> FALSE]

\* Routes left and added by this program, and others; events may be lost.
Owning == [Host({Half, Left3, Wire1}, {Left3}) EXCEPT !.lossy = TRUE]

\* Routes of two tables, and addresses.
Knowing == [Host({Half, HalfAside, Default}, {}) EXCEPT !.addresses = Two]

\* A route moved to another interface.
Moving == [Host({Half, HalfVia2}, {}) EXCEPT !.replace = TRUE]

\* Two routes to one destination, as of fe80::/64, or told apart by the metric only.
Linked == Host({Half, HalfVia2}, {})
Ranked == Host({Half, HalfLater}, {})

\* Two proxies of the earlier process shared a target; another program has a route to it.
Shared == Host({Half, Left3, Left3Via2}, {Left3, Left3Via2})
Crowded == [Host({Left3, Other3, Wire1}, {Left3}) EXCEPT !.replace = TRUE]

EveryWorld == {Owning, Knowing, Moving, Linked, Ranked, Shared, Crowded}

MovingWorld == {Moving}

LinkedWorld == {Linked}

OneStep == {1}

=============================================================================
