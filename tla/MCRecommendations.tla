------------------------- MODULE MCRecommendations -------------------------
(***************************************************************************)
(* Small instances of Recommendations: four stores, one of them of no type *)
(* for feeds, and four products, one of no category for feeds. Three stores *)
(* sell product 2, store 3 another one, and store 4 is at an airport.      *)
(***************************************************************************)
EXTENDS Recommendations, TLC

CONSTANTS r1, r2, r3, r4, r5, t1, t2, icn, city, shore

Shelves == (1 :> {1, 2, 3} @@ 2 :> {2} @@ 3 :> {4} @@ 4 :> {1, 2, 3})
Restocked == (1 :> {1, 3} @@ 2 :> {2, 4} @@ 3 :> {4} @@ 4 :> {2})
Airports  == [s \in Store |-> IF s = 4 THEN icn ELSE Null]
Terminals == [s \in Store |-> IF s = 4 THEN t1 ELSE Null]
Distances ==
    (city :> (1 :> 1 @@ 2 :> 9 @@ 3 :> 2 @@ 4 :> Null)
       @@ shore :> (1 :> Null @@ 2 :> 3 @@ 3 :> 8 @@ 4 :> 1))

Entries == [store : {1, 2}, products : {{2}, {1, 3}}]
              \cup [store : {3, 9}, products : {{}, {2, 4}}]
              \cup [store : {4}, products : {{1, 3}}]
Answers == {<<>>} \cup {<<e>> : e \in Entries}
              \cup {<<[store |-> 3, products |-> {1}], e>> : e \in Entries}

One(op, P) == [op : {op}, product : P]
Stocked(shelves) == [op : {"stock"}, carries : shelves]
Seeded(opens) == [op : {"seed"}, open : opens]
Feeds(places) == [op : {"feed"}, trip : {TRUE}, here : places]

-----------------------------------------------------------------------------
(* Wishes, purchases, views, stores, the flight and the hotel change before *)
(* and while r5 recommends or builds a feed; a second feed overlaps it.     *)

Follows == [r \in Req |-> IF r = r5 THEN {r1, r2} ELSE {}]

Calls ==
    [r \in Req |->
        CASE r = r1 -> One("view", {1, 3}) \cup One("buy", {2, 3})
                         \cup [op : {"flight"},
                               flight : [airport : {icn}, terminal : {t1, Null}]]
          [] r = r2 -> One("wish", {1, 3, 4}) \cup One("buy", {1})
                         \cup Seeded({{1, 2}, {3}, {2, 3, 4}}) \cup Feeds({city})
                         \cup Stocked({Restocked})
          [] r = r3 -> One("view", {1}) \cup One("unwish", {2, 3})
                         \cup One("buy", {4})
                         \cup [op : {"leave"}, products : {{1}}]
                         \cup [op : {"hotel"}, place : {city, Null}]
          [] r = r4 -> One("buy", {2}) \cup Seeded({{}, {1, 4}, {1, 2, 3}})
                         \cup One("unwish", {4}) \cup Stocked({Shelves, Restocked})
                         \cup [op : {"feed"}, trip : {FALSE}, here : {Null}]
                         \cup [op : {"nearby"}, here : {city, shore}, limit : {1, 2}]
          [] r = r5 -> [op : {"recommend"}] \cup Feeds({Null, city, shore})]
=============================================================================
