------------------------------ MODULE MCTrips ------------------------------
(***************************************************************************)
(* A small instance of Trips: two phones, stores that close and wishlist   *)
(* items that come and go.                                                 *)
(***************************************************************************)
EXTENDS Trips

CONSTANTS t1, t2, s1, s2, p1, p2, n1, n2, r1, r2, r3, r4, r5

MCTime == 1 .. 3

MCCarries == [s \in Store |-> IF s = s1 THEN {p1} ELSE {p1, p2}]

\* t1 runs from 2 to 3; t2 is not there yet.
Planned == [t \in Trip |-> IF t = t1 THEN [starts |-> 2, ends |-> 3] ELSE None]

NoHotels == [t \in Trip |-> None]

Starts(x) == [f \in {"starts"} |-> x]
Ends(x)   == [f \in {"ends"} |-> x]
Both(x, y) == [starts |-> x, ends |-> y]

Patches(C) == [op : {"patch"}, trip : {t1}, changes : C]
Put(n, x, y) ==
    [op |-> "hotel", trip |-> t1,
     hotel |-> [name |-> n, checkIn |-> x, checkOut |-> y]]
Reserve(s, P) == [op |-> "reserve", trip |-> t1, store |-> s, products |-> P]
Cancels(r) == [op : {"cancel"}, reservation : {r}]
Seeds(O) == [op : {"seed"}, open : O]
Stocks(P) == [op |-> "stock", carries |-> [s \in Store |-> P]]
Adds(P) == [op : {"wish"}, product : P]
Removes(P) == [op : {"unwish"}, product : P]

-----------------------------------------------------------------------------
(* One phone edits the trip and its hotel (r1, r2) and reserves (r1, r4);  *)
(* another one, the seed script and the wishlist overlap it.               *)

Follows ==
    [r \in Req |-> CASE r = r2 -> {r1}
                     [] r = r4 -> {r3}
                     [] OTHER -> {}]

Calls ==
    [r \in Req |->
        CASE r = r1 -> Patches({Starts(3), Ends(2)})
                         \cup {Put(n1, 1, 2), Reserve(s1, {p1}), Reserve(s2, {})}
                         \cup [op : {"trip"}, row : {Both(1, Null)}]
          [] r = r2 -> Patches({Starts(3), Ends(1), Both(Null, 1)})
                         \cup {Put(n2, 2, 3), Put(n2, 3, Null)} \cup Cancels(r1)
          [] r = r3 -> Seeds({{s2}, {}}) \cup Removes({p1}) \cup {Put(n2, 1, 1)}
                         \cup Patches({Ends(2), Ends(Null)}) \cup Cancels(r1)
                         \cup {Stocks({p2})}
          [] r = r4 -> {Reserve(s1, {p1}), Reserve(s2, {p1}), Reserve(s1, {p2}),
                        Reserve(s1, {Unlisted})}
                         \cup Patches({Both(1, 1)}) \cup {Put(n1, 1, 3)}
          [] r = r5 -> Cancels(r4) \cup Cancels(r1) \cup Seeds({{s1}}) \cup Adds({p1})
                         \cup {Stocks({p1})}]
=============================================================================
