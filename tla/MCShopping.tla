----------------------------- MODULE MCShopping -----------------------------
(***************************************************************************)
(* Small instances of Shopping. The glasses send frames, the phone sends   *)
(* its calls one after another; where a second client is at work the       *)
(* reviews and wishlist calls overlap.                                     *)
(***************************************************************************)
EXTENDS Shopping

CONSTANTS s1, s2, p1, p2, p3, st1, st2, g1, g2, g3, a1, a2, a3

MCTrigger == {"OCCUPANCY", "DWELL"}
MCMaxDwell == 3

\* Two observations no column of which agrees, one that is the earlier but
\* the longer, and one whose dwell overflows.
Early == [at |-> 1, occupancy |-> 2, dwell |-> 1, trigger |-> "OCCUPANCY"]
Late  == [at |-> 3, occupancy |-> 1, dwell |-> 3, trigger |-> "DWELL"]
Mid   == [at |-> 2, occupancy |-> 3, dwell |-> 2, trigger |-> "DWELL"]
Huge  == [at |-> 4, occupancy |-> 1, dwell |-> 4, trigger |-> "DWELL"]

Frames(S, O) == [op : {"recognize"}, session : S, seen : O]
Completes(S) == [op : {"complete"}, session : S]
Creates == [op : {"create"}, store : {st1, st2}]
Review(s, bought, liked) ==
    [op |-> "review", session |-> s, purchased |-> bought, interested |-> liked]
Adds(P)    == [op : {"wish"}, product : P]
Removes(P) == [op : {"unwish"}, product : P]

OneWorker == [r \in Req |-> "w1"]

NothingBefore == [r \in Req |-> {}]

EmptyWishlist == [p \in Product |-> NoReq]

\* s1 is active, every other UUID unused.
OneActive == [s \in Session |-> IF s = s1 THEN "ACTIVE" ELSE NoSession]

Shown(bought) ==
    [FirstSighting(Mid) EXCEPT !.count = 2,
        !.purchase = IF bought THEN "PURCHASED" ELSE "UNSET"]

-----------------------------------------------------------------------------
(* One worker: two frames at once, a phone that opens a session, reviews   *)
(* and completes in sequence, and a frame sent after its first call. p1 is *)
(* in the session already and marked purchased, p2 is new.                 *)

GlassesReq == {g1, g2, g3, a1, a2, a3}
GlassesBefore ==
    [r \in Req |-> CASE r \in {a2, g3} -> {a1}
                     [] r = a3 -> {a1, a2}
                     [] OTHER -> {}]
GlassesCalls ==
    [r \in Req |->
        CASE r = g1 -> Frames({s1}, {Early, Huge})
          [] r = g2 -> Frames({s1}, {Late})
          [] r = g3 -> Frames({s1, s2}, {Mid})
          [] r = a1 -> Completes({s1}) \cup {Review(s1, {p1}, {p1, p2})}
                         \cup Creates
          [] r = a2 -> Completes({s1}) \cup {Review(s1, {}, {p1})}
          [] r = a3 -> Completes({s1, s2}) \cup {Review(s1, {p2}, {p1})}]
P1Purchased ==
    [s \in Session |-> [p \in Product |->
        IF s = s1 /\ p = p1 THEN Shown(TRUE) ELSE NoRow]]

-----------------------------------------------------------------------------
(* Two worker processes and two phones: reviews that want the same         *)
(* products in any order, a wishlist call and frames. p1 and p2 are in the *)
(* session, p3 is not. Frames of g1 and a2 share a worker, and with it an  *)
(* event loop; frames of g1 and a3 do not.                                 *)

ReviewsReq == {a1, a2, a3, g1}
TwoWorkers == [r \in Req |-> IF r = a3 THEN "w2" ELSE "w1"]
ReviewsCalls ==
    [r \in Req |->
        CASE r = a1 -> {Review(s1, {}, {p1, p2})} \cup Creates
          [] r = a2 -> {Review(s1, {p1}, {p1, p2}), Review(s1, {}, {p1, p2}),
                        Review(s2, {}, {}), Review(s1, {p3}, {})}
                         \cup Frames({s1}, {Mid})
          [] r = a3 -> Adds({p1, NoProduct}) \cup Removes({p1, NoProduct})
                         \cup Frames({s1}, {Late})
          [] r = g1 -> Frames({s1}, {Early}) \cup Frames({s2}, {Huge})]
BothShown ==
    [s \in Session |-> [p \in Product |->
        IF s = s1 /\ p \in {p1, p2} THEN Shown(FALSE) ELSE NoRow]]
=============================================================================
