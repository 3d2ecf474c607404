----------------------------- MODULE TripsProofs -----------------------------
(***************************************************************************)
(* Proofs about Trips, for every set of requests, trips, stores, products  *)
(* and times, and every database the requests start from.                  *)
(***************************************************************************)
EXTENDS Trips, TLAPS

-----------------------------------------------------------------------------
(* Type correctness. A handler's step tells which call it serves; a row it *)
(* has found is still there when it writes.                                *)

Begun(r) ==
    LET c == call[r]
    IN  /\ IF pc[r] = "idle" THEN c = NoCall ELSE c \in Call
        /\ pc[r] # "done" => answer[r] = "" /\ reservations[r] = None
        /\ pc[r] = "patch" => /\ c.op = "patch"
                              /\ seen[r] \in TripRow /\ trips[c.trip] # None
        /\ pc[r] = "hotel" => /\ c.op = "hotel"
                              /\ seen[r] \in Hotel \cup {None}
                              /\ seen[r] # None => hotels[c.trip] # None
        /\ pc[r] \in {"choose", "book"} =>
              /\ c.op = "reserve" /\ Unlisted \notin c.products
              /\ seen[r] \in Shelf
        /\ pc[r] = "cancel" => /\ c.op = "cancel"
                               /\ reservations[c.reservation] # None

TypeInv == TypeOK /\ \A r \in Req : Begun(r)

\* The first step of a handler, which sends its call, and a later one.
Arrive(r) ==
    \/ CreateTrip(r) \/ PatchRead(r) \/ HotelRead(r) \/ ReserveRead(r)
    \/ CancelRead(r) \/ SeedStores(r) \/ SeedProducts(r) \/ Wish(r) \/ Unwish(r)

Acts(r) == Arrive(r) \/ Proceed(r)

\* The fields of a call, by its operation.
LEMMA CallFields ==
    ASSUME NEW c \in Call
    PROVE  /\ c.op = "trip" => /\ c.row \in TripRow
                               /\ InOrder(c.row.starts, c.row.ends)
           /\ c.op = "patch" => c.trip \in Trip /\ c.changes \in Changes
           /\ c.op = "hotel" => c.trip \in Trip /\ c.hotel \in Hotel
           /\ c.op = "reserve" => /\ c.trip \in Trip /\ c.store \in Store
                                  /\ c.products \subseteq Product \cup {Unlisted}
           /\ c.op = "cancel" => c.reservation \in Req
           /\ c.op = "seed" => c.open \subseteq Store
           /\ c.op = "stock" => c.carries \in [Store -> SUBSET Product]
           /\ c.op \in {"wish", "unwish"} => c.product \in Product
           /\ c # NoCall
  BY DEF Call, NoCall

\* What a request sends is one of its calls.
LEMMA SendType ==
    ASSUME TypeInv, NEW r \in Req, NEW c \in CallsOf[r], Send(r, c)
    PROVE  /\ c \in Call /\ pc[r] = "idle"
           /\ call' \in [Req -> Call \cup {NoCall}]
           /\ call'[r] = c
           /\ \A q \in Req \ {r} : call'[q] = call[q]
           /\ \A q \in Before[r] : pc[q] = "done"
  BY CallAssumption DEF TypeInv, TypeOK, Send

\* A request that goes on.
LEMMA GotoType ==
    ASSUME TypeInv, NEW r \in Req,
           NEW step \in {"patch", "hotel", "choose", "book", "cancel"},
           Goto(r, step)
    PROVE  /\ pc' \in [Req -> {"idle", "patch", "hotel", "choose", "book",
                               "cancel", "done"}]
           /\ UNCHANGED answer /\ pc'[r] = step
           /\ \A q \in Req \ {r} : pc'[q] = pc[q]
  BY DEF TypeInv, TypeOK, Goto

\* One that answers.
LEMMA ReplyType ==
    ASSUME TypeInv, NEW r \in Req,
           NEW code \in {"200", "201", "204", "400", "404", "422", "500"},
           Reply(r, code)
    PROVE  /\ pc' \in [Req -> {"idle", "patch", "hotel", "choose", "book",
                               "cancel", "done"}]
           /\ answer' \in [Req -> {"", "200", "201", "204", "400", "404",
                                   "422", "500"}]
           /\ pc'[r] = "done" /\ answer'[r] = code
           /\ \A q \in Req \ {r} : pc'[q] = pc[q] /\ answer'[q] = answer[q]
  BY DEF TypeInv, TypeOK, Reply

\* What the steps of r leave alone.
LEMMA OneMoves ==
    ASSUME TypeInv, NEW r \in Req, Acts(r)
    PROVE  /\ pc[r] # "done" /\ answer[r] = ""
           /\ IF Arrive(r) THEN /\ pc[r] = "idle"
                                /\ \E c \in CallsOf[r] : Send(r, c)
              ELSE pc[r] # "idle" /\ UNCHANGED <<call, seen>>
           /\ \A q \in Req \ {r} : /\ pc'[q] = pc[q] /\ call'[q] = call[q]
                                   /\ answer'[q] = answer[q] /\ seen'[q] = seen[q]
<1>1. ASSUME Arrive(r)
      PROVE  /\ pc[r] = "idle"
             /\ \E c \in CallsOf[r] : Send(r, c)
             /\ \A q \in Req \ {r} : /\ call'[q] = call[q] /\ seen'[q] = seen[q]
  <2>1. PICK c \in CallsOf[r] : Send(r, c)
    BY <1>1 DEF Arrive, CreateTrip, PatchRead, HotelRead, ReserveRead, CancelRead,
       SeedStores, SeedProducts, Wish, Unwish, Asked
  <2>2. UNCHANGED seen \/ \E row : seen' = [seen EXCEPT ![r] = row]
    BY <1>1 DEF Arrive, CreateTrip, PatchRead, HotelRead, ReserveRead, CancelRead,
       SeedStores, SeedProducts, Wish, Unwish
  <2> QED
    BY <2>1, <2>2, SendType DEF TypeInv, TypeOK
<1>2. ASSUME Proceed(r)
      PROVE  pc[r] \notin {"idle", "done"} /\ UNCHANGED <<call, seen>>
  BY <1>2 DEF Proceed, PatchCommit, HotelCommit, ReserveChoose, ReserveCommit,
     CancelCommit
<1>3. \/ \E step \in {"patch", "hotel", "choose", "book", "cancel"} : Goto(r, step)
      \/ \E code \in {"200", "201", "204", "400", "404", "422", "500"} : Reply(r, code)
  BY DEF Acts, Arrive, CreateTrip, PatchRead, HotelRead, ReserveRead, CancelRead,
     SeedStores, SeedProducts, Wish, Unwish, Proceed, PatchCommit, HotelCommit,
     ReserveChoose, ReserveCommit, CancelCommit
<1>4. \A q \in Req \ {r} : pc'[q] = pc[q] /\ answer'[q] = answer[q]
  BY <1>3, GotoType, ReplyType
<1>5. pc[r] # "done" => answer[r] = ""
  BY DEF TypeInv, Begun
<1> QED
  BY <1>1, <1>2, <1>4, <1>5 DEF Acts

\* An UPDATE of some columns of a row leaves a row.
LEMMA PatchTripType ==
    ASSUME NEW stored \in TripRow, NEW before \in TripRow, NEW new \in TripRow
    PROVE  PatchRow(stored, before, new) \in TripRow
  BY DEF PatchRow, Column, TripRow

\* Of a hotel stay too.
LEMMA PatchHotelType ==
    ASSUME NEW stored \in Hotel, NEW before \in Hotel, NEW new \in Hotel
    PROVE  PatchRow(stored, before, new) \in Hotel
  BY DEF PatchRow, Column, Hotel

\* A row with some columns of a PATCH is a row.
LEMMA MergedType ==
    ASSUME NEW row \in TripRow, NEW changes \in Changes
    PROVE  Merged(row, changes) \in TripRow
<1>1. \A f \in DOMAIN changes : changes[f] \in MaybeTime
  BY DEF Changes
<1> QED
  BY <1>1 DEF Merged, TripRow

\* No step deletes a row, and nobody but r brings a reservation of r about.
KeepsRows(r) ==
    /\ \A t \in Trip : /\ trips[t] # None => trips'[t] # None
                       /\ hotels[t] # None => hotels'[t] # None
    /\ \A q \in Req : /\ reservations[q] # None => reservations'[q] # None
                      /\ q # r => (reservations[q] = None <=> reservations'[q] = None)

\* The tables after a step are of their types.
TablesOK ==
    /\ trips \in [Trip -> TripRow \cup {None}]
    /\ hotels \in [Trip -> Hotel \cup {None}]
    /\ reservations \in [Req -> Reservation \cup {None}]
    /\ open \subseteq Store
    /\ carries \in [Store -> SUBSET Product]
    /\ wishlist \subseteq Product
    /\ seen \in [Req -> TripRow \cup Hotel \cup Shelf \cup {None}]

\* What holds of the other requests still holds after a step of r.
LEMMA StepFrame ==
    ASSUME TypeInv, NEW r \in Req, Acts(r), TablesOK', KeepsRows(r), Begun(r)'
    PROVE  TypeInv'
<1>1. TypeOK'
  <2>1. call' \in [Req -> Call \cup {NoCall}]
    BY OneMoves, SendType DEF TypeInv, TypeOK
  <2>2. \/ \E step \in {"patch", "hotel", "choose", "book", "cancel"} : Goto(r, step)
        \/ \E code \in {"200", "201", "204", "400", "404", "422", "500"} : Reply(r, code)
    BY DEF Acts, Arrive, CreateTrip, PatchRead, HotelRead, ReserveRead, CancelRead,
       SeedStores, SeedProducts, Wish, Unwish, Proceed, PatchCommit, HotelCommit,
       ReserveChoose, ReserveCommit, CancelCommit
  <2>3. /\ pc' \in [Req -> {"idle", "patch", "hotel", "choose", "book", "cancel",
                            "done"}]
        /\ answer' \in [Req -> {"", "200", "201", "204", "400", "404", "422", "500"}]
    BY <2>2, GotoType, ReplyType DEF TypeInv, TypeOK
  <2> QED
    BY <2>1, <2>3 DEF TablesOK, TypeOK
<1>2. ASSUME NEW q \in Req \ {r} PROVE Begun(q)'
  <2>1. /\ pc'[q] = pc[q] /\ call'[q] = call[q] /\ answer'[q] = answer[q]
        /\ seen'[q] = seen[q]
    BY OneMoves
  <2>2. Begun(q)
    BY DEF TypeInv
  <2>3. /\ pc[q] = "patch" => call[q].trip \in Trip
        /\ pc[q] = "hotel" => call[q].trip \in Trip
        /\ pc[q] = "cancel" => call[q].reservation \in Req
    BY <2>2, CallFields DEF Begun
  <2> QED
    BY <2>1, <2>2, <2>3 DEF Begun, KeepsRows
<1> QED
  BY <1>1, <1>2 DEF TypeInv

\* What is stored before the first request is of its type.
LEMMA InitTypeInv == Init => TypeInv
<1> SUFFICES ASSUME Init PROVE TypeInv
  OBVIOUS
<1>1. TypeOK
  BY StoredAssumption DEF Init, RequestInit, TypeOK
<1>2. \A r \in Req : Begun(r)
  BY DEF Init, RequestInit, Begun
<1> QED
  BY <1>1, <1>2 DEF TypeInv

\* The first step of a handler finds the rows it will write to.
LEMMA ArriveTypeInv ==
    ASSUME TypeInv, NEW r \in Req, Arrive(r)
    PROVE  TypeInv'
<1>0. TablesOK /\ answer[r] = "" /\ reservations[r] = None /\ Acts(r)
  BY OneMoves DEF TypeInv, TypeOK, TablesOK, Begun, Acts
<1>1. CASE CreateTrip(r)
  <2>1. PICK c \in CallsOf[r], t \in Trip :
          /\ Asked(r, c, "trip") /\ trips' = [trips EXCEPT ![t] = c.row]
    BY <1>1 DEF CreateTrip
  <2>2. c \in Call /\ call'[r] = c /\ c.row \in TripRow
    BY <2>1, SendType, CallFields DEF Asked
  <2>3. UNCHANGED <<hotels, reservations, open, carries, wishlist, seen>>
        /\ Reply(r, "201")
    BY <1>1 DEF CreateTrip
  <2>4. TablesOK' /\ KeepsRows(r)
    BY <1>0, <2>1, <2>2, <2>3, StoredAssumption DEF TablesOK, KeepsRows
  <2>5. Begun(r)'
    BY <2>2, <2>3, ReplyType, CallFields DEF Begun
  <2> QED
    BY <1>0, <2>4, <2>5, StepFrame
<1>2. CASE PatchRead(r)
  <2>1. PICK c \in CallsOf[r] :
          /\ Asked(r, c, "patch")
          /\ \/ UNCHANGED seen /\ \E code \in {"404", "422"} : Reply(r, code)
             \/ /\ trips[c.trip] # None
                /\ seen' = [seen EXCEPT ![r] = trips[c.trip]]
                /\ Goto(r, "patch")
    BY <1>2 DEF PatchRead
  <2>2. c \in Call /\ call'[r] = c /\ c.op = "patch" /\ c.trip \in Trip
    BY <2>1, SendType, CallFields DEF Asked
  <2>3. UNCHANGED database
    BY <1>2 DEF PatchRead
  <2>4. trips[c.trip] \in TripRow \cup {None}
    BY <1>0, <2>2 DEF TablesOK
  <2>5. TablesOK' /\ KeepsRows(r)
    BY <1>0, <2>1, <2>3, <2>4 DEF TablesOK, KeepsRows, database
  <2>6. Begun(r)'
    <3>1. CASE \E code \in {"404", "422"} : Reply(r, code)
      BY <2>2, <3>1, ReplyType, CallFields DEF Begun
    <3>2. CASE /\ trips[c.trip] # None
               /\ seen' = [seen EXCEPT ![r] = trips[c.trip]]
               /\ Goto(r, "patch")
      <4>1. seen'[r] = trips[c.trip] /\ pc'[r] = "patch" /\ answer'[r] = ""
        BY <1>0, <3>2, GotoType DEF TablesOK
      <4> QED
        BY <1>0, <2>2, <2>3, <2>4, <3>2, <4>1, CallFields DEF Begun, database
    <3> QED
      BY <2>1, <3>1, <3>2
  <2> QED
    BY <1>0, <2>5, <2>6, StepFrame
<1>3. CASE HotelRead(r)
  <2>1. PICK c \in CallsOf[r] :
          /\ Asked(r, c, "hotel")
          /\ \/ UNCHANGED seen /\ Reply(r, "404")
             \/ /\ seen' = [seen EXCEPT ![r] = hotels[c.trip]]
                /\ Goto(r, "hotel")
    BY <1>3 DEF HotelRead
  <2>2. c \in Call /\ call'[r] = c /\ c.op = "hotel" /\ c.trip \in Trip
    BY <2>1, SendType, CallFields DEF Asked
  <2>3. UNCHANGED database
    BY <1>3 DEF HotelRead
  <2>4. hotels[c.trip] \in Hotel \cup {None}
    BY <1>0, <2>2 DEF TablesOK
  <2>5. TablesOK' /\ KeepsRows(r)
    BY <1>0, <2>1, <2>3, <2>4 DEF TablesOK, KeepsRows, database
  <2>6. Begun(r)'
    <3>1. CASE Reply(r, "404")
      BY <2>2, <3>1, ReplyType, CallFields DEF Begun
    <3>2. CASE /\ seen' = [seen EXCEPT ![r] = hotels[c.trip]]
               /\ Goto(r, "hotel")
      <4>1. seen'[r] = hotels[c.trip] /\ pc'[r] = "hotel" /\ answer'[r] = ""
        BY <1>0, <3>2, GotoType DEF TablesOK
      <4> QED
        BY <1>0, <2>2, <2>3, <2>4, <4>1, CallFields DEF Begun, database
    <3> QED
      BY <2>1, <3>1, <3>2
  <2> QED
    BY <1>0, <2>5, <2>6, StepFrame
<1>4. CASE ReserveRead(r)
  <2>1. PICK c \in CallsOf[r] :
          /\ Asked(r, c, "reserve")
          /\ \/ /\ Unlisted \notin c.products
                /\ seen' = [seen EXCEPT ![r] = [carries |-> carries[c.store]]]
                /\ Goto(r, "choose")
             \/ UNCHANGED seen /\ Reply(r, "404")
    BY <1>4 DEF ReserveRead
  <2>2. c \in Call /\ call'[r] = c /\ c.op = "reserve" /\ c.store \in Store
    BY <2>1, SendType, CallFields DEF Asked
  <2>3. UNCHANGED database
    BY <1>4 DEF ReserveRead
  <2>4. [carries |-> carries[c.store]] \in Shelf
    BY <1>0, <2>2 DEF TablesOK, Shelf
  <2>5. TablesOK' /\ KeepsRows(r)
    BY <1>0, <2>1, <2>3, <2>4 DEF TablesOK, KeepsRows, database
  <2>6. Begun(r)'
    <3>1. CASE Reply(r, "404")
      BY <2>2, <3>1, ReplyType, CallFields DEF Begun
    <3>2. CASE /\ Unlisted \notin c.products
               /\ seen' = [seen EXCEPT ![r] = [carries |-> carries[c.store]]]
               /\ Goto(r, "choose")
      <4>1. /\ seen'[r] = [carries |-> carries[c.store]] /\ pc'[r] = "choose"
            /\ answer'[r] = ""
        BY <1>0, <3>2, GotoType DEF TablesOK
      <4> QED
        BY <1>0, <2>2, <2>3, <2>4, <3>2, <4>1, CallFields DEF Begun, database
    <3> QED
      BY <2>1, <3>1, <3>2
  <2> QED
    BY <1>0, <2>5, <2>6, StepFrame
<1>5. CASE CancelRead(r)
  <2>1. PICK c \in CallsOf[r] :
          /\ Asked(r, c, "cancel")
          /\ IF reservations[c.reservation] = None
             THEN Reply(r, "404") ELSE Goto(r, "cancel")
    BY <1>5 DEF CancelRead
  <2>2. c \in Call /\ call'[r] = c /\ c.op = "cancel"
    BY <2>1, SendType DEF Asked
  <2>3. UNCHANGED <<database, seen>>
    BY <1>5 DEF CancelRead
  <2>4. TablesOK' /\ KeepsRows(r)
    BY <1>0, <2>3 DEF TablesOK, KeepsRows, database
  <2>5. Begun(r)'
    BY <1>0, <2>1, <2>2, <2>3, GotoType, ReplyType, CallFields DEF Begun, database
  <2> QED
    BY <1>0, <2>4, <2>5, StepFrame
<1>6. CASE SeedStores(r) \/ SeedProducts(r) \/ Wish(r) \/ Unwish(r)
  <2>1. PICK c \in CallsOf[r] :
          /\ Send(r, c)
          /\ \/ c.op = "seed" /\ open' = c.open /\ UNCHANGED <<carries, wishlist>>
             \/ c.op = "stock" /\ carries' = c.carries /\ UNCHANGED <<open, wishlist>>
             \/ /\ c.op = "wish" /\ wishlist' = wishlist \cup {c.product}
                /\ UNCHANGED <<open, carries>>
             \/ /\ c.op = "unwish" /\ wishlist' = wishlist \ {c.product}
                /\ UNCHANGED <<open, carries>>
    BY <1>6 DEF SeedStores, SeedProducts, Wish, Unwish, Asked
  <2>2. /\ UNCHANGED <<trips, hotels, reservations, seen>>
        /\ \E code \in {"200", "204"} : Reply(r, code)
    BY <1>6 DEF SeedStores, SeedProducts, Wish, Unwish
  <2>3. c \in Call /\ call'[r] = c
    BY <2>1, SendType
  <2>4. TablesOK' /\ KeepsRows(r)
    BY <1>0, <2>1, <2>2, <2>3, CallFields DEF TablesOK, KeepsRows
  <2>5. Begun(r)'
    BY <2>2, <2>3, ReplyType, CallFields DEF Begun
  <2> QED
    BY <1>0, <2>4, <2>5, StepFrame
<1> QED
  BY <1>1, <1>2, <1>3, <1>4, <1>5, <1>6 DEF Arrive

\* A handler that writes leaves rows of their types, and deletes none.
LEMMA ProceedTypeInv ==
    ASSUME TypeInv, NEW r \in Req, Proceed(r)
    PROVE  TypeInv'
<1>0. /\ TablesOK /\ Acts(r) /\ Begun(r) /\ UNCHANGED seen /\ UNCHANGED call
      /\ pc[r] \notin {"idle", "done"} /\ call[r] \in Call
  BY DEF TypeInv, TypeOK, TablesOK, Begun, Acts, Proceed, PatchCommit,
     HotelCommit, ReserveChoose, ReserveCommit, CancelCommit
<1>1. CASE PatchCommit(r)
  <2> DEFINE t == call[r].trip
             new == PatchRow(trips[t], seen[r], Merged(seen[r], call[r].changes))
  <2>1. t \in Trip /\ call[r].changes \in Changes
    BY <1>0, <1>1, CallFields DEF PatchCommit, Begun
  <2>2. seen[r] \in TripRow /\ trips[t] \in TripRow
    BY <1>0, <1>1, <2>1 DEF PatchCommit, Begun, TablesOK
  <2>3. new \in TripRow
    BY <2>1, <2>2, MergedType, PatchTripType
  <2>4. trips' = [trips EXCEPT ![t] = new]
    BY <1>1 DEF PatchCommit
  <2>5. UNCHANGED <<hotels, reservations, open, carries, wishlist>> /\ Reply(r, "200")
    BY <1>1 DEF PatchCommit
  <2> HIDE DEF new
  <2>6. TablesOK' /\ KeepsRows(r)
    BY <1>0, <2>1, <2>3, <2>4, <2>5, StoredAssumption DEF TablesOK, KeepsRows
  <2>7. Begun(r)'
    BY <1>0, <2>5, ReplyType DEF Begun
  <2> QED
    BY <1>0, <2>6, <2>7, StepFrame
<1>2. CASE HotelCommit(r)
  <2> DEFINE t == call[r].trip
             hotel == call[r].hotel
  <2>1. t \in Trip /\ hotel \in Hotel
    BY <1>0, <1>2, CallFields DEF HotelCommit, Begun
  <2>2. /\ UNCHANGED <<trips, reservations, open, carries, wishlist>>
        /\ \E code \in {"200", "500"} : Reply(r, code)
    BY <1>2 DEF HotelCommit
  <2>3. UNCHANGED hotels \/ \E new \in Hotel : hotels' = [hotels EXCEPT ![t] = new]
    <3>1. CASE seen[r] = None
      BY <1>2, <2>1, <3>1 DEF HotelCommit, Stay
    <3>2. CASE seen[r] # None
      <4>1. seen[r] \in Hotel /\ hotels[t] \in Hotel
        BY <1>0, <1>2, <2>1, <3>2 DEF HotelCommit, Begun, TablesOK
      <4>2. PatchRow(hotels[t], seen[r], hotel) \in Hotel
        BY <2>1, <4>1, PatchHotelType
      <4>3. hotels' = [hotels EXCEPT ![t] = PatchRow(hotels[t], seen[r], hotel)]
        BY <1>2, <3>2 DEF HotelCommit, SecondStay, Stay
      <4> QED
        BY <4>2, <4>3
    <3> QED
      BY <3>1, <3>2
  <2>4. TablesOK' /\ KeepsRows(r)
    BY <1>0, <2>1, <2>2, <2>3, StoredAssumption DEF TablesOK, KeepsRows
  <2>5. Begun(r)'
    BY <1>0, <2>2, ReplyType DEF Begun
  <2> QED
    BY <1>0, <2>4, <2>5, StepFrame
<1>3. CASE ReserveChoose(r)
  <2>1. UNCHANGED database /\ pc[r] = "choose"
    BY <1>3 DEF ReserveChoose
  <2>2. TablesOK' /\ KeepsRows(r)
    BY <1>0, <2>1 DEF TablesOK, KeepsRows, database
  <2>3. Goto(r, "book") \/ Reply(r, "400")
    BY <1>3 DEF ReserveChoose
  <2>4. Begun(r)'
    BY <1>0, <2>1, <2>3, GotoType, ReplyType DEF Begun, database
  <2> QED
    BY <1>0, <2>2, <2>4, StepFrame
<1>4. CASE ReserveCommit(r)
  <2> DEFINE new == [trip |-> call[r].trip, store |-> call[r].store,
                     products |-> call[r].products, status |-> "RESERVED"]
  <2>1. /\ call[r].trip \in Trip /\ call[r].store \in Store
        /\ call[r].products \subseteq Product
    BY <1>0, <1>4, CallFields DEF ReserveCommit, Begun
  <2>2. new \in Reservation
    BY <2>1 DEF Reservation
  <2>3. /\ reservations' = [reservations EXCEPT ![r] = new]
        /\ UNCHANGED <<trips, hotels, open, carries, wishlist>> /\ Reply(r, "201")
    BY <1>4 DEF ReserveCommit
  <2> HIDE DEF new
  <2>4. TablesOK' /\ KeepsRows(r)
    BY <1>0, <2>2, <2>3, StoredAssumption DEF TablesOK, KeepsRows
  <2>5. Begun(r)'
    BY <1>0, <2>3, ReplyType DEF Begun
  <2> QED
    BY <1>0, <2>4, <2>5, StepFrame
<1>5. CASE CancelCommit(r)
  <2> DEFINE v == call[r].reservation
  <2>1. v \in Req /\ reservations[v] # None /\ pc[r] = "cancel"
    BY <1>0, <1>5, CallFields DEF CancelCommit, Begun
  <2>2. reservations[v] \in Reservation
    BY <1>0, <2>1 DEF TablesOK
  <2>3. Cancelled(reservations[v]) \in Reservation
    BY <2>2 DEF Cancelled, Reservation
  <2>4. /\ reservations' = [reservations EXCEPT ![v] = Cancelled(reservations[v])]
        /\ UNCHANGED <<trips, hotels, open, carries, wishlist>> /\ Reply(r, "204")
    BY <1>5 DEF CancelCommit
  <2>5. TablesOK' /\ KeepsRows(r)
    BY <1>0, <2>1, <2>3, <2>4, StoredAssumption DEF TablesOK, KeepsRows
  <2>6. Begun(r)'
    BY <1>0, <2>4, ReplyType DEF Begun
  <2> QED
    BY <1>0, <2>5, <2>6, StepFrame
<1> QED
  BY <1>1, <1>2, <1>3, <1>4, <1>5 DEF Proceed

\* So every step keeps the invariant.
LEMMA StepTypeInv == TypeInv /\ [Next]_vars => TypeInv'
<1> SUFFICES ASSUME TypeInv, [Next]_vars PROVE TypeInv'
  OBVIOUS
<1>1. ASSUME NEW r \in Req, Acts(r) PROVE TypeInv'
  BY <1>1, ArriveTypeInv, ProceedTypeInv DEF Acts
<1>2. CASE UNCHANGED vars
  BY <1>2 DEF vars, database, TypeInv, TypeOK, Begun
<1> QED
  BY <1>1, <1>2 DEF Next, Acts, Arrive

\* Hence it always holds.
LEMMA TypeInvariance == Spec => []TypeInv
  BY InitTypeInv, StepTypeInv, PTL DEF Spec

\* Every variable keeps its type: whatever UPDATEs of single columns overlap,
\* what they leave of a trip, a hotel stay or a reservation is a row
\* (update_trip, upsert_hotel, cancel_reservation).
THEOREM TypeCorrect == Spec => []TypeOK
  BY TypeInvariance, PTL DEF TypeInv

\* Two steps write reservations: one inserts where there was none, one changes
\* the status of one that is there.
LEMMA StepReservations ==
    ASSUME TypeInv, NEW r \in Req, Acts(r)
    PROVE  \/ UNCHANGED reservations
           \/ /\ reservations[r] = None
              /\ \E new : reservations' = [reservations EXCEPT ![r] = new]
           \/ \E v \in Req :
                 /\ reservations[v] \in Reservation
                 /\ reservations' =
                       [reservations EXCEPT ![v] = Cancelled(reservations[v])]
<1>1. CASE Arrive(r)
  BY <1>1 DEF Arrive, CreateTrip, PatchRead, HotelRead, ReserveRead, CancelRead,
     SeedStores, SeedProducts, Wish, Unwish, database
<1>2. CASE PatchCommit(r) \/ HotelCommit(r) \/ ReserveChoose(r)
  BY <1>2 DEF PatchCommit, HotelCommit, ReserveChoose, database
<1>3. CASE ReserveCommit(r)
  <2>1. reservations[r] = None
    BY <1>3 DEF ReserveCommit, TypeInv, Begun
  <2>2. \E new : reservations' = [reservations EXCEPT ![r] = new]
    BY <1>3 DEF ReserveCommit
  <2> QED
    BY <2>1, <2>2
<1>4. CASE CancelCommit(r)
  <2>1. /\ call[r].reservation \in Req
        /\ reservations[call[r].reservation] # None
    BY <1>4, CallFields DEF CancelCommit, TypeInv, Begun
  <2>2. reservations[call[r].reservation] \in Reservation
    BY <2>1 DEF TypeInv, TypeOK
  <2> QED
    BY <1>4, <2>1, <2>2 DEF CancelCommit
<1> QED
  BY <1>1, <1>2, <1>3, <1>4 DEF Acts, Proceed

\* What cancelling leaves of a reservation.
LEMMA CancelledKeeps ==
    ASSUME NEW row \in Reservation
    PROVE  /\ Cancelled(row) \in Reservation
           /\ \A f \in {"trip", "store", "products"} : Cancelled(row)[f] = row[f]
           /\ Cancelled(row).status = "CANCELLED"
  BY DEF Cancelled, Reservation

\* A reservation outlives the store it is in, the wishes it is about and any
\* other request, is about the same visit for ever, and stays cancelled once
\* it is: not even a second cancellation that read it before the first one
\* brings it back (cancel_reservation, create_reservation).
THEOREM ReservationsLast == Spec => ReservationsStand
<1> DEFINE Stands ==
        \A r \in Req :
          reservations[r] # None =>
              /\ reservations'[r] # None
              /\ \A f \in {"trip", "store", "products"} :
                    reservations'[r][f] = reservations[r][f]
              /\ reservations[r].status = "CANCELLED" =>
                    reservations'[r].status = "CANCELLED"
<1>1. ASSUME TypeInv, NEW r \in Req, Acts(r) PROVE Stands
  <2>0. reservations \in [Req -> Reservation \cup {None}]
    BY <1>1 DEF TypeInv, TypeOK
  <2>1. CASE UNCHANGED reservations
    BY <2>1
  <2>2. CASE /\ reservations[r] = None
             /\ \E new : reservations' = [reservations EXCEPT ![r] = new]
    BY <2>0, <2>2
  <2>3. ASSUME NEW v \in Req, reservations[v] \in Reservation,
               reservations' = [reservations EXCEPT ![v] = Cancelled(reservations[v])]
        PROVE  Stands
    <3>1. reservations'[v] = Cancelled(reservations[v])
      BY <2>0, <2>3
    <3>2. \A q \in Req \ {v} : reservations'[q] = reservations[q]
      BY <2>0, <2>3
    <3> QED
      BY <2>3, <3>1, <3>2, CancelledKeeps, StoredAssumption
  <2> QED
    BY <1>1, <2>1, <2>2, <2>3, StepReservations
<1>2. TypeInv /\ [Next]_vars => [Stands]_reservations
  <2> SUFFICES ASSUME TypeInv, [Next]_vars, ~UNCHANGED reservations PROVE Stands
    OBVIOUS
  <2>1. \E r \in Req : Acts(r)
    BY DEF Next, Acts, Arrive, vars, database
  <2> QED
    BY <1>1, <2>1
<1> QED
  BY <1>2, TypeInvariance, PTL DEF Spec, ReservationsStand

-----------------------------------------------------------------------------
(* Turns: a request is sent when those before it are answered, and what it *)
(* asks never changes.                                                     *)

SentInTurn == \A r \in Req : pc[r] # "idle" => \A q \in Before[r] : pc[q] = "done"

PlanInv == TypeInv /\ SentInTurn

\* A step of r starts or ends no other request, and is not a step of one that
\* another one waits for.
LEMMA SentInTurnKept ==
    ASSUME PlanInv, NEW r \in Req, Acts(r)
    PROVE  SentInTurn'
<1> SUFFICES ASSUME NEW x \in Req, pc'[x] # "idle", NEW q \in Before[x]
             PROVE  pc'[q] = "done"
  BY DEF SentInTurn
<1>1. q \in Req
  BY CallAssumption
<1>2. pc[q] = "done"
  <2>1. CASE x = r /\ Arrive(r)
    BY <2>1, OneMoves, SendType DEF PlanInv
  <2>2. CASE x = r /\ ~Arrive(r)
    BY <2>2, OneMoves DEF PlanInv, SentInTurn
  <2>3. CASE x # r
    BY <2>3, OneMoves DEF PlanInv, SentInTurn
  <2> QED
    BY <2>1, <2>2, <2>3
<1> QED
  BY <1>1, <1>2, OneMoves DEF PlanInv

\* So this too always holds.
LEMMA StepPlanInv == PlanInv /\ [Next]_vars => PlanInv'
<1>1. ASSUME PlanInv, NEW r \in Req, Acts(r) PROVE SentInTurn'
  BY <1>1, SentInTurnKept
<1>2. ASSUME PlanInv, UNCHANGED vars PROVE SentInTurn'
  BY <1>2 DEF vars, PlanInv, SentInTurn
<1> QED
  BY <1>1, <1>2, StepTypeInv DEF PlanInv, Next, Acts, Arrive

\* It holds at the start.
LEMMA InitPlanInv == Init => PlanInv
  BY InitTypeInv DEF PlanInv, SentInTurn, Init, RequestInit

\* A call that was sent stays as it was.
LEMMA CallsStay ==
    ASSUME PlanInv, NEW r \in Req, Acts(r), NEW q \in Req, call[q] # NoCall
    PROVE  call'[q] = call[q]
  BY OneMoves DEF PlanInv, TypeInv, Begun

\* Requests that are in turn after a step were so before it.
LEMMA InTurnBefore ==
    ASSUME PlanInv, NEW r \in Req, Acts(r), NEW t \in Trip, InTurn("patch", t)'
    PROVE  InTurn("patch", t)
<1> SUFFICES ASSUME NEW q \in Req, NEW x \in Req,
                    {call[q].op, call[x].op} = {"patch"},
                    call[q].trip = t, call[x].trip = t
             PROVE  q = x \/ q \in Before[x] \/ x \in Before[q]
  BY DEF InTurn
<1>1. call'[q] = call[q] /\ call'[x] = call[x]
  BY CallsStay DEF NoCall
<1> QED
  BY <1>1 DEF InTurn

\* Two patches of a trip that are in turn are not under way together.
LEMMA OneAtATime ==
    ASSUME PlanInv, NEW t \in Trip, InTurn("patch", t),
           NEW q \in Req, NEW r \in Req, pc[q] = "patch", pc[r] = "patch",
           call[q].trip = t, call[r].trip = t
    PROVE  q = r
<1>1. call[q].op = "patch" /\ call[r].op = "patch"
  BY DEF PlanInv, TypeInv, Begun
<1>2. q = r \/ q \in Before[r] \/ r \in Before[q]
  BY <1>1 DEF InTurn
<1> QED
  BY <1>2 DEF PlanInv, SentInTurn

-----------------------------------------------------------------------------
(* The times of a trip. What a PATCH has read is what it writes to.        *)

PatchesApart ==
    \A t \in Trip : InTurn("patch", t) =>
        /\ trips[t] # None => InOrder(trips[t].starts, trips[t].ends)
        /\ \A r \in Req : pc[r] = "patch" /\ call[r].trip = t =>
              /\ seen[r] = trips[t]
              /\ Patchable(seen[r], call[r].changes)

\* Written to the row as it was read, a PATCH is the row it was checked as.
LEMMA PatchOfTheRowRead ==
    ASSUME NEW row \in TripRow, NEW changes \in Changes
    PROVE  PatchRow(row, row, Merged(row, changes)) = Merged(row, changes)
<1>1. Merged(row, changes) \in TripRow
  BY MergedType
<1>2. DOMAIN row = DOMAIN Merged(row, changes)
  BY DEF Merged
<1>3. \A f \in DOMAIN row :
        Column(row[f], row[f], Merged(row, changes)[f]) = Merged(row, changes)[f]
  BY DEF Column
<1>4. PatchRow(row, row, Merged(row, changes))
        = [f \in DOMAIN row |-> Merged(row, changes)[f]]
  BY <1>3 DEF PatchRow
<1>5. Merged(row, changes) = [f \in DOMAIN row |-> Merged(row, changes)[f]]
  BY <1>2 DEF Merged
<1> QED
  BY <1>4, <1>5

\* No step puts the times of a trip out of order whose patches are in turn.
LEMMA StepPatchesApart ==
    ASSUME PlanInv, PatchesApart, NEW x \in Req, Acts(x)
    PROVE  PatchesApart'
<1> SUFFICES ASSUME NEW t \in Trip, InTurn("patch", t)'
             PROVE  /\ trips'[t] # None => InOrder(trips'[t].starts, trips'[t].ends)
                    /\ \A r \in Req : pc'[r] = "patch" /\ call'[r].trip = t =>
                          /\ seen'[r] = trips'[t]
                          /\ Patchable(seen'[r], call'[r].changes)
  BY DEF PatchesApart
<1>1. InTurn("patch", t)
  BY InTurnBefore
<1>2. /\ trips[t] # None => InOrder(trips[t].starts, trips[t].ends)
      /\ \A r \in Req : pc[r] = "patch" /\ call[r].trip = t =>
            /\ seen[r] = trips[t]
            /\ Patchable(seen[r], call[r].changes)
  BY <1>1 DEF PatchesApart
<1>3. \A r \in Req \ {x} : /\ pc'[r] = pc[r] /\ call'[r] = call[r]
                           /\ seen'[r] = seen[r]
  BY OneMoves DEF PlanInv
<1>4. trips \in [Trip -> TripRow \cup {None}]
  BY DEF PlanInv, TypeInv, TypeOK
<1>5. CASE UNCHANGED trips /\ pc'[x] # "patch"
  BY <1>2, <1>3, <1>5
<1>6. CASE CreateTrip(x)
  <2>1. PICK c \in CallsOf[x], u \in Trip :
          /\ Asked(x, c, "trip") /\ trips[u] = None
          /\ trips' = [trips EXCEPT ![u] = c.row]
    BY <1>6 DEF CreateTrip
  <2>2. c \in Call /\ InOrder(c.row.starts, c.row.ends)
    BY <2>1, SendType, CallFields DEF Asked, PlanInv
  <2>3. pc'[x] = "done"
    BY <1>6, ReplyType DEF CreateTrip, PlanInv
  <2>4. CASE u = t
    <3>1. trips'[t] = c.row
      BY <1>4, <2>1, <2>4
    <3>2. ASSUME NEW r \in Req, pc'[r] = "patch", call'[r].trip = t PROVE FALSE
      <4>1. pc[r] = "patch" /\ call[r].trip = t
        BY <1>3, <2>3, <3>2
      <4> QED
        BY <2>1, <2>4, <4>1 DEF PlanInv, TypeInv, Begun
    <3> QED
      BY <2>2, <3>1, <3>2
  <2>5. CASE u # t
    <3>1. trips'[t] = trips[t]
      BY <1>4, <2>1, <2>5
    <3> QED
      BY <1>2, <1>3, <2>3, <3>1
  <2> QED
    BY <2>4, <2>5
<1>7. CASE PatchRead(x) /\ pc'[x] = "patch"
  <2>1. PICK c \in CallsOf[x] :
          /\ Asked(x, c, "patch") /\ trips[c.trip] # None
          /\ Patchable(trips[c.trip], c.changes)
          /\ seen' = [seen EXCEPT ![x] = trips[c.trip]]
    BY <1>7, ReplyType DEF PatchRead, PlanInv
  <2>2. call'[x] = c
    BY <2>1, SendType DEF Asked, PlanInv
  <2>3. seen'[x] = trips[c.trip] /\ UNCHANGED trips
    BY <1>7, <2>1 DEF PlanInv, TypeInv, TypeOK, PatchRead, database
  <2> QED
    BY <1>2, <1>3, <2>1, <2>2, <2>3
<1>8. CASE PatchCommit(x)
  <2> DEFINE u == call[x].trip
             new == Merged(seen[x], call[x].changes)
  <2>1. /\ u \in Trip /\ call[x].changes \in Changes
        /\ pc[x] = "patch" /\ trips[u] # None
    BY <1>8, CallFields DEF PatchCommit, PlanInv, TypeInv, Begun
  <2>2. trips' = [trips EXCEPT ![u] = PatchRow(trips[u], seen[x], new)]
    BY <1>8 DEF PatchCommit
  <2>3. pc'[x] = "done"
    BY <1>8, ReplyType DEF PatchCommit, PlanInv
  <2>4. CASE u = t
    <3>1. seen[x] = trips[t] /\ Patchable(seen[x], call[x].changes)
      BY <1>2, <2>1, <2>4
    <3>2. trips'[t] = Merged(trips[t], call[x].changes)
      BY <1>4, <2>1, <2>2, <2>4, <3>1, PatchOfTheRowRead
    <3>3. InOrder(trips'[t].starts, trips'[t].ends)
      BY <3>1, <3>2 DEF Patchable
    <3>4. ASSUME NEW r \in Req, pc'[r] = "patch", call'[r].trip = t PROVE FALSE
      <4>1. pc[r] = "patch" /\ call[r].trip = t /\ r # x
        BY <1>3, <2>3, <3>4
      <4> QED
        BY <1>1, <2>1, <2>4, <4>1, OneAtATime
    <3> QED
      BY <3>3, <3>4
  <2>5. CASE u # t
    <3>1. trips'[t] = trips[t]
      BY <1>4, <2>2, <2>5
    <3> QED
      BY <1>2, <1>3, <2>3, <3>1
  <2> QED
    BY <2>4, <2>5
<1>9. \/ UNCHANGED trips /\ pc'[x] # "patch"
      \/ CreateTrip(x)
      \/ PatchRead(x) /\ pc'[x] = "patch"
      \/ PatchCommit(x)
  <2>1. CASE PatchRead(x)
    BY <2>1 DEF PatchRead, database
  <2>2. CASE HotelRead(x) \/ ReserveRead(x) \/ CancelRead(x)
    BY <2>2, GotoType, ReplyType
       DEF HotelRead, ReserveRead, CancelRead, database, PlanInv
  <2>3. CASE SeedStores(x) \/ SeedProducts(x) \/ Wish(x) \/ Unwish(x)
    BY <2>3, ReplyType DEF SeedStores, SeedProducts, Wish, Unwish, PlanInv
  <2>4. CASE HotelCommit(x) \/ ReserveChoose(x) \/ ReserveCommit(x) \/ CancelCommit(x)
    BY <2>4, GotoType, ReplyType
       DEF HotelCommit, ReserveChoose, ReserveCommit, CancelCommit, database, PlanInv
  <2> QED
    BY <2>1, <2>2, <2>3, <2>4 DEF Acts, Arrive, Proceed
<1> QED
  BY <1>5, <1>6, <1>7, <1>8, <1>9

\* A trip never ends before it starts as long as its PATCHes do not overlap,
\* whatever else does: the row they check is the row they write to, and only
\* a PATCH writes to a trip that is there (create_trip, update_trip).
THEOREM TimesInOrder == Spec => []TripTimesInOrder
<1> DEFINE Inv == PlanInv /\ PatchesApart
<1>1. Init => Inv
  <2> SUFFICES ASSUME Init PROVE Inv
    OBVIOUS
  <2>1. trips = InitTrips /\ \A r \in Req : pc[r] = "idle"
    BY DEF Init, RequestInit
  <2>2. PatchesApart
    BY <2>1, StoredAssumption DEF PatchesApart
  <2> QED
    BY <2>2, InitPlanInv
<1>2. Inv /\ [Next]_vars => Inv'
  <2>1. ASSUME Inv, UNCHANGED vars PROVE PatchesApart'
    BY <2>1 DEF PatchesApart, InTurn, vars, database
  <2> QED
    BY <2>1, StepPatchesApart, StepPlanInv DEF Next, Acts, Arrive
<1>3. Inv => TripTimesInOrder
  BY DEF PatchesApart, TripTimesInOrder
<1> QED
  BY <1>1, <1>2, <1>3, PTL DEF Spec

-----------------------------------------------------------------------------
(* Edits: a PATCH of a trip (op "patch") or a PUT of its hotel ("hotel").  *)

Edits == {"patch", "hotel"}

Given ==
    [q \in Req |-> CASE call[q].op = "patch" -> call[q].changes
                     [] call[q].op = "hotel" -> call[q].hotel
                     [] OTHER -> <<>>]

RowOf(op, t) == IF op = "patch" THEN trips[t] ELSE hotels[t]

ColumnsOf(op) ==
    IF op = "patch" THEN {"starts", "ends"} ELSE {"name", "checkIn", "checkOut"}

\* The row that r edits has these values, but for what others have set since.
Standing(r, op, t, values) ==
    /\ RowOf(op, t) # None
    /\ \A f \in DOMAIN values :
          \/ RowOf(op, t)[f] = values[f]
          \/ Superseded(r, op, t, f, RowOf(op, t)[f], Given)

\* So it has what r has set, and what r has read and may write back.
Edited(r, op, t) ==
    /\ answer[r] = "200" => Standing(r, op, t, Given[r])
    /\ pc[r] \in Edits /\ seen[r] # None => Standing(r, op, t, seen[r])

EditInv ==
    \A op \in Edits, t \in Trip, r \in Req :
        call[r].op = op /\ call[r].trip = t => Edited(r, op, t)

\* Who edits has sent a call.
LEMMA EditIsSent ==
    ASSUME NEW c, c.op \in Edits
    PROVE  c # NoCall
  BY DEF Edits, NoCall

\* What an edit gives, by its operation.
LEMMA GivenOf ==
    ASSUME NEW q \in Req
    PROVE  /\ call[q].op = "patch" => Given[q] = call[q].changes
           /\ call[q].op = "hotel" => Given[q] = call[q].hotel
  BY DEF Given

\* The columns of what an edit gives and of what it has read.
LEMMA GivenType ==
    ASSUME TypeInv, NEW q \in Req, NEW op \in Edits, call[q].op = op
    PROVE  /\ DOMAIN Given[q] \subseteq ColumnsOf(op)
           /\ pc[q] \in Edits /\ seen[q] # None => DOMAIN seen[q] = ColumnsOf(op)
<1>1. call[q] \in Call
  BY EditIsSent DEF TypeInv, TypeOK
<1>2. /\ op = "patch" => Given[q] \in Changes
      /\ op = "hotel" => Given[q] \in Hotel
  BY <1>1, GivenOf, CallFields
<1>3. DOMAIN Given[q] \subseteq ColumnsOf(op)
  BY <1>2 DEF Edits, Changes, Hotel, ColumnsOf
<1>4. ASSUME pc[q] \in Edits, seen[q] # None
      PROVE  DOMAIN seen[q] = ColumnsOf(op)
  <2>1. /\ pc[q] = "patch" => op = "patch" /\ seen[q] \in TripRow
        /\ pc[q] = "hotel" => op = "hotel" /\ seen[q] \in Hotel
    BY <1>4 DEF TypeInv, Begun
  <2> QED
    BY <1>4, <2>1 DEF Edits, TripRow, Hotel, ColumnsOf
<1> QED
  BY <1>3, <1>4

\* What was given stays given.
LEMMA GivenStays ==
    ASSUME PlanInv, NEW x \in Req, Acts(x), NEW q \in Req, call[q] # NoCall
    PROVE  Given'[q] = Given[q]
  BY CallsStay DEF Given

\* Edits that supersede one of r do so for ever.
LEMMA SupersededStays ==
    ASSUME PlanInv, NEW x \in Req, Acts(x), NEW r \in Req, NEW op \in Edits,
           NEW t, NEW f, NEW v, Superseded(r, op, t, f, v, Given)
    PROVE  Superseded(r, op, t, f, v, Given)'
<1>1. PICK q \in Req \ Before[r] :
        /\ q # r /\ answer[q] = "200" /\ call[q].op = op /\ call[q].trip = t
        /\ f \in DOMAIN Given[q] /\ Given[q][f] = v
  BY DEF Superseded
<1>2. call[q] # NoCall /\ answer'[q] = "200"
  BY <1>1, EditIsSent, OneMoves DEF PlanInv
<1>3. call'[q] = call[q] /\ Given'[q] = Given[q]
  BY <1>2, CallsStay, GivenStays
<1> QED
  BY <1>1, <1>2, <1>3 DEF Superseded

\* A step of x keeps the edits of the others if each column stays as it was or
\* gets what x has given it.
LEMMA OthersStayEdited ==
    ASSUME PlanInv, NEW x \in Req, Acts(x), NEW op \in Edits, NEW t \in Trip,
           NEW r \in Req \ {x}, call[r].op = op, call[r].trip = t,
           Edited(r, op, t),
           RowOf(op, t) # None => RowOf(op, t)' # None,
           RowOf(op, t) # None => \A f \in ColumnsOf(op) :
               \/ RowOf(op, t)'[f] = RowOf(op, t)[f]
               \/ /\ pc[x] # "idle" /\ answer'[x] = "200"
                  /\ call[x].op = op /\ call[x].trip = t
                  /\ f \in DOMAIN Given[x] /\ RowOf(op, t)'[f] = Given[x][f]
    PROVE  Edited(r, op, t)'
<1>1. /\ pc'[r] = pc[r] /\ answer'[r] = answer[r] /\ seen'[r] = seen[r]
      /\ Given'[r] = Given[r] /\ call[r] # NoCall
  BY EditIsSent, OneMoves, GivenStays DEF PlanInv
<1>2. ASSUME NEW values, DOMAIN values \subseteq ColumnsOf(op),
             Standing(r, op, t, values)
      PROVE  Standing(r, op, t, values)'
  <2>1. RowOf(op, t) # None /\ RowOf(op, t)' # None
    BY <1>2 DEF Standing
  <2>2. SUFFICES ASSUME NEW f \in DOMAIN values
                 PROVE  \/ RowOf(op, t)'[f] = values[f]
                        \/ Superseded(r, op, t, f, RowOf(op, t)[f], Given)'
    BY <2>1 DEF Standing
  <2>3. CASE RowOf(op, t)'[f] = RowOf(op, t)[f]
    BY <1>2, <2>3, SupersededStays DEF Standing
  <2>4. CASE /\ pc[x] # "idle" /\ answer'[x] = "200"
             /\ call[x].op = op /\ call[x].trip = t
             /\ f \in DOMAIN Given[x] /\ RowOf(op, t)'[f] = Given[x][f]
    <3>1. x \notin Before[r]
      BY <1>1, OneMoves DEF PlanInv, SentInTurn, TypeInv, Begun
    <3>2. call'[x] = call[x] /\ Given'[x] = Given[x]
      BY <2>4, EditIsSent, CallsStay, GivenStays
    <3> QED
      BY <2>4, <3>1, <3>2 DEF Superseded
  <2> QED
    BY <1>2, <2>1, <2>3, <2>4
<1>3. answer'[r] = "200" => Standing(r, op, t, Given[r])'
  <2> SUFFICES ASSUME answer[r] = "200" PROVE Standing(r, op, t, Given[r])'
    BY <1>1
  <2>1. PICK values : values = Given[r]
    OBVIOUS
  <2>2. Standing(r, op, t, values)'
    BY <1>2, <2>1, GivenType DEF Edited, PlanInv
  <2> QED
    BY <1>1, <2>1, <2>2
<1>4. pc'[r] \in Edits /\ seen'[r] # None => Standing(r, op, t, seen[r])'
  <2> SUFFICES ASSUME pc[r] \in Edits, seen[r] # None
               PROVE  Standing(r, op, t, seen[r])'
    BY <1>1
  <2>1. PICK values : values = seen[r]
    OBVIOUS
  <2>2. Standing(r, op, t, values)'
    BY <1>2, <2>1, GivenType DEF Edited, PlanInv
  <2> QED
    BY <1>1, <2>1, <2>2
<1> QED
  BY <1>3, <1>4 DEF Edited

\* The row and the call of an edit that writes to a row it has read.
Writes(x, op, t) ==
    /\ call[x].trip = t
    /\ \/ op = "patch" /\ PatchCommit(x)
       \/ op = "hotel" /\ HotelCommit(x) /\ seen[x] # None

\* It writes the columns that differ from what it has read, and no other row.
LEMMA EditWrites ==
    ASSUME PlanInv, NEW x \in Req, NEW op \in Edits, NEW t, Writes(x, op, t)
    PROVE  /\ call[x].op = op /\ t \in Trip /\ answer'[x] = "200"
           /\ pc[x] \in Edits /\ pc'[x] = "done" /\ seen[x] # None
           /\ \A kind \in Edits, u \in Trip :
                 <<kind, u>> # <<op, t>> => RowOf(kind, u)' = RowOf(kind, u)
           /\ RowOf(op, t)' # None
           /\ \A f \in ColumnsOf(op) :
                 RowOf(op, t)'[f] =
                    IF f \in DOMAIN Given[x] /\ Given[x][f] # seen[x][f]
                    THEN Given[x][f] ELSE RowOf(op, t)[f]
<1>0. /\ trips \in [Trip -> TripRow \cup {None}]
      /\ hotels \in [Trip -> Hotel \cup {None}]
      /\ TypeInv
  BY DEF PlanInv, TypeInv, TypeOK
<1>1. CASE op = "patch"
  <2> DEFINE changes == call[x].changes
             new == Merged(seen[x], changes)
             row == PatchRow(trips[t], seen[x], new)
  <2>1. /\ pc[x] = "patch" /\ call[x].trip = t /\ Reply(x, "200") /\ UNCHANGED hotels
        /\ trips' = [trips EXCEPT ![t] = row]
    BY <1>1 DEF Writes, PatchCommit
  <2>2. call[x] \in Call /\ call[x].op = "patch" /\ seen[x] \in TripRow
        /\ trips[call[x].trip] # None
    BY <1>0, <2>1 DEF TypeInv, Begun
  <2>3. t \in Trip /\ changes \in Changes /\ trips[t] \in TripRow
    BY <1>0, <2>1, <2>2, CallFields
  <2>4. row \in TripRow
    BY <2>2, <2>3, MergedType, PatchTripType
  <2>5. trips'[t] = row /\ \A u \in Trip \ {t} : trips'[u] = trips[u]
    BY <1>0, <2>1, <2>3
  <2>6. ASSUME NEW f \in {"starts", "ends"}
        PROVE  row[f] = IF f \in DOMAIN changes /\ changes[f] # seen[x][f]
                        THEN changes[f] ELSE trips[t][f]
    <3>1. f \in DOMAIN trips[t] /\ f \in DOMAIN seen[x]
      BY <2>2, <2>3 DEF TripRow
    <3>2. row[f] = Column(trips[t][f], seen[x][f], new[f])
      BY <3>1 DEF PatchRow
    <3>3. new[f] = IF f \in DOMAIN changes THEN changes[f] ELSE seen[x][f]
      BY <3>1 DEF Merged
    <3> QED
      BY <3>2, <3>3 DEF Column
  <2>7. /\ Given[x] = changes /\ answer'[x] = "200" /\ pc'[x] = "done"
        /\ seen[x] # None /\ row # None
    BY <1>0, <2>1, <2>2, <2>4, GivenOf, ReplyType, StoredAssumption
  <2> HIDE DEF changes, new, row
  <2> QED
    BY <1>1, <2>1, <2>2, <2>3, <2>5, <2>6, <2>7 DEF RowOf, ColumnsOf, Edits
<1>2. CASE op = "hotel"
  <2> DEFINE hotel == call[x].hotel
             row == PatchRow(hotels[t], seen[x], hotel)
  <2>1. /\ pc[x] = "hotel" /\ call[x].trip = t /\ Reply(x, "200") /\ UNCHANGED trips
        /\ hotels' = [hotels EXCEPT ![t] = row] /\ seen[x] # None
    BY <1>2 DEF Writes, HotelCommit, SecondStay, Stay
  <2>2. call[x] \in Call /\ call[x].op = "hotel" /\ seen[x] \in Hotel
        /\ hotels[call[x].trip] # None
    BY <1>0, <2>1 DEF TypeInv, Begun
  <2>3. t \in Trip /\ hotel \in Hotel /\ hotels[t] \in Hotel
    BY <1>0, <2>1, <2>2, CallFields
  <2>4. row \in Hotel
    BY <2>2, <2>3, PatchHotelType
  <2>5. hotels'[t] = row /\ \A u \in Trip \ {t} : hotels'[u] = hotels[u]
    BY <1>0, <2>1, <2>3
  <2>6. DOMAIN hotel = {"name", "checkIn", "checkOut"}
    BY <2>3 DEF Hotel
  <2>7. ASSUME NEW f \in {"name", "checkIn", "checkOut"}
        PROVE  row[f] = IF f \in DOMAIN hotel /\ hotel[f] # seen[x][f]
                        THEN hotel[f] ELSE hotels[t][f]
    <3>1. f \in DOMAIN hotels[t]
      BY <2>3 DEF Hotel
    <3>2. row[f] = Column(hotels[t][f], seen[x][f], hotel[f])
      BY <3>1 DEF PatchRow
    <3> QED
      BY <2>6, <3>2 DEF Column
  <2>8. /\ Given[x] = hotel /\ answer'[x] = "200" /\ pc'[x] = "done"
        /\ row # None
    BY <1>0, <2>1, <2>2, <2>4, GivenOf, ReplyType, StoredAssumption
  <2> HIDE DEF hotel, row
  <2> QED
    BY <1>2, <2>1, <2>2, <2>3, <2>5, <2>7, <2>8 DEF RowOf, ColumnsOf, Edits
<1> QED
  BY <1>1, <1>2 DEF Edits

\* An edit that writes stands, and so do those of the others.
LEMMA WriteKeepsEdits ==
    ASSUME PlanInv, EditInv, NEW x \in Req, NEW op \in Edits, NEW t,
           Writes(x, op, t)
    PROVE  EditInv'
<1>0. Acts(x) /\ UNCHANGED call /\ UNCHANGED seen
  BY DEF Writes, Acts, Proceed, PatchCommit, HotelCommit
<1> SUFFICES ASSUME NEW kind \in Edits, NEW u \in Trip, NEW r \in Req,
                    call[r].op = kind, call[r].trip = u
             PROVE  Edited(r, kind, u)'
  BY <1>0 DEF EditInv
<1>1. Edited(r, kind, u)
  BY DEF EditInv
<1>2. CASE r # x
  <2>1. CASE <<kind, u>> # <<op, t>>
    BY <1>0, <1>1, <1>2, <2>1, EditWrites, OthersStayEdited
  <2>2. CASE kind = op /\ u = t
    <3>1. \A f \in ColumnsOf(op) :
             \/ RowOf(op, t)'[f] = RowOf(op, t)[f]
             \/ /\ pc[x] # "idle" /\ answer'[x] = "200"
                /\ call[x].op = op /\ call[x].trip = t
                /\ f \in DOMAIN Given[x] /\ RowOf(op, t)'[f] = Given[x][f]
      BY EditWrites DEF Writes, Edits
    <3>2. RowOf(op, t)' # None
      BY EditWrites
    <3> QED
      BY <1>0, <1>1, <1>2, <2>2, <3>1, <3>2, OthersStayEdited
  <2> QED
    BY <2>1, <2>2
<1>3. CASE r = x
  <2>1. kind = op /\ u = t
    BY <1>3, EditWrites DEF Writes
  <2>2. Standing(x, op, t, seen[x])
    BY <1>1, <1>3, <2>1, EditWrites DEF Edited
  <2>3. DOMAIN Given[x] \subseteq ColumnsOf(op) /\ DOMAIN seen[x] = ColumnsOf(op)
    BY EditWrites, GivenType DEF PlanInv
  <2>4. Given'[x] = Given[x]
    BY <1>0, EditWrites, EditIsSent, GivenStays
  <2>5. ASSUME NEW f \in DOMAIN Given[x]
        PROVE  \/ RowOf(op, t)'[f] = Given[x][f]
               \/ Superseded(x, op, t, f, RowOf(op, t)[f], Given)'
    <3>1. CASE Given[x][f] # seen[x][f]
      BY <2>3, <3>1, EditWrites
    <3>2. CASE Given[x][f] = seen[x][f]
      <4>1. RowOf(op, t)'[f] = RowOf(op, t)[f]
        BY <2>3, <3>2, EditWrites
      <4>2. \/ RowOf(op, t)[f] = Given[x][f]
            \/ Superseded(x, op, t, f, RowOf(op, t)[f], Given)
        BY <2>2, <2>3, <3>2 DEF Standing
      <4> QED
        BY <1>0, <4>1, <4>2, SupersededStays
    <3> QED
      BY <3>1, <3>2
  <2>6. Standing(x, op, t, Given[x])'
    BY <2>4, <2>5, EditWrites DEF Standing
  <2>7. pc'[x] = "done"
    BY EditWrites
  <2> QED
    BY <1>3, <2>1, <2>6, <2>7 DEF Edited, Edits
<1> QED
  BY <1>2, <1>3

\* The edits of the others stand if no row that is there changes.
LEMMA RowsStayEdited ==
    ASSUME PlanInv, EditInv, NEW x \in Req, Acts(x),
           \A kind \in Edits, t \in Trip :
               RowOf(kind, t) # None => RowOf(kind, t)' = RowOf(kind, t),
           \A kind \in Edits, t \in Trip :
               call'[x].op = kind /\ call'[x].trip = t => Edited(x, kind, t)'
    PROVE  EditInv'
<1> SUFFICES ASSUME NEW kind \in Edits, NEW t \in Trip, NEW r \in Req,
                    call'[r].op = kind, call'[r].trip = t
             PROVE  Edited(r, kind, t)'
  BY DEF EditInv
<1>1. CASE r # x
  <2>1. call[r].op = kind /\ call[r].trip = t
    BY <1>1, OneMoves DEF PlanInv
  <2>2. Edited(r, kind, t)
    BY <2>1 DEF EditInv
  <2> QED
    BY <1>1, <2>1, <2>2, OthersStayEdited
<1> QED
  BY <1>1

\* Trips and stays that are not there yet have not been edited, and what is
\* just read is as it was read.
LEMMA StepEditInv ==
    ASSUME PlanInv, EditInv, NEW x \in Req, Acts(x)
    PROVE  EditInv'
<1>0. /\ trips \in [Trip -> TripRow \cup {None}]
      /\ hotels \in [Trip -> Hotel \cup {None}]
      /\ TypeInv
  BY DEF PlanInv, TypeInv, TypeOK
<1>1. CASE CreateTrip(x)
  <2>1. PICK c \in CallsOf[x], t \in Trip :
          /\ Asked(x, c, "trip") /\ trips[t] = None
          /\ trips' = [trips EXCEPT ![t] = c.row]
    BY <1>1 DEF CreateTrip
  <2>2. \A kind \in Edits, u \in Trip :
           RowOf(kind, u) # None => RowOf(kind, u)' = RowOf(kind, u)
    BY <1>0, <1>1, <2>1 DEF RowOf, CreateTrip
  <2>3. call'[x].op \notin Edits
    BY <1>0, <2>1, SendType DEF Asked, Edits
  <2> QED
    BY <2>2, <2>3, RowsStayEdited
<1>2. CASE PatchRead(x) \/ HotelRead(x)
  <2>1. PICK c \in CallsOf[x], op \in Edits :
          /\ Asked(x, c, op)
          /\ \/ \E code \in {"404", "422"} : Reply(x, code)
             \/ /\ RowOf("patch", c.trip) # None
                /\ seen' = [seen EXCEPT ![x] = RowOf(op, c.trip)]
                /\ Goto(x, op)
    BY <1>2 DEF PatchRead, HotelRead, RowOf, Edits
  <2>2. UNCHANGED database
    BY <1>2 DEF PatchRead, HotelRead
  <2>3. call'[x] = c /\ answer[x] = ""
    BY <1>0, <2>1, SendType, OneMoves DEF Asked
  <2>4. \A kind \in Edits, u \in Trip : RowOf(kind, u)' = RowOf(kind, u)
    BY <2>2 DEF RowOf, database
  <2>5. CASE \E code \in {"404", "422"} : Reply(x, code)
    <3>1. pc'[x] = "done" /\ answer'[x] # "200"
      BY <1>0, <2>5, ReplyType
    <3>2. \A kind \in Edits, u \in Trip : Edited(x, kind, u)'
      BY <3>1 DEF Edited, Edits
    <3> QED
      BY <2>4, <3>2, RowsStayEdited
  <2>6. CASE /\ seen' = [seen EXCEPT ![x] = RowOf(op, c.trip)]
             /\ Goto(x, op)
    <3>1. seen'[x] = RowOf(op, c.trip) /\ answer'[x] = ""
      BY <1>0, <2>3, <2>6, GotoType DEF TypeInv, TypeOK, Edits
    <3>2. ASSUME NEW kind \in Edits, NEW u \in Trip,
                 call'[x].op = kind, call'[x].trip = u, seen'[x] # None
          PROVE  Standing(x, kind, u, seen[x])'
      <4>1. kind = op /\ u = c.trip
        BY <2>1, <2>3, <3>2 DEF Asked
      <4>2. RowOf(kind, u)' = seen'[x]
        BY <2>4, <3>1, <4>1
      <4> QED
        BY <3>2, <4>2 DEF Standing
    <3>3. ASSUME NEW kind \in Edits, NEW u \in Trip,
                 call'[x].op = kind, call'[x].trip = u
          PROVE  Edited(x, kind, u)'
      BY <3>1, <3>2, <3>3 DEF Edited
    <3> QED
      BY <2>4, <3>3, RowsStayEdited
  <2> QED
    BY <2>1, <2>5, <2>6
<1>3. CASE PatchCommit(x)
  <2>1. Writes(x, "patch", call[x].trip)
    BY <1>3 DEF Writes
  <2>2. PICK t : t = call[x].trip
    OBVIOUS
  <2> QED
    BY <2>1, <2>2, WriteKeepsEdits DEF Edits
<1>4. CASE HotelCommit(x) /\ seen[x] # None
  <2>1. Writes(x, "hotel", call[x].trip)
    BY <1>4 DEF Writes
  <2>2. PICK t : t = call[x].trip
    OBVIOUS
  <2> QED
    BY <2>1, <2>2, WriteKeepsEdits DEF Edits
<1>5. CASE HotelCommit(x) /\ seen[x] = None
  <2> DEFINE t == call[x].trip
             hotel == call[x].hotel
  <2>0. pc[x] = "hotel" /\ UNCHANGED <<trips, call, seen>>
    BY <1>5 DEF HotelCommit
  <2>1. call[x] \in Call /\ call[x].op = "hotel"
    BY <1>0, <2>0 DEF TypeInv, Begun
  <2>2. t \in Trip /\ hotel \in Hotel
    BY <2>1, CallFields
  <2>3. CASE SecondStay(x)
    <3>1. UNCHANGED hotels /\ Reply(x, "500")
      BY <1>5, <2>3 DEF HotelCommit
    <3>2. pc'[x] = "done" /\ answer'[x] # "200"
      BY <1>0, <3>1, ReplyType
    <3>3. \A kind \in Edits, u \in Trip : Edited(x, kind, u)'
      BY <3>2 DEF Edited, Edits
    <3>4. \A kind \in Edits, u \in Trip : RowOf(kind, u)' = RowOf(kind, u)
      BY <2>0, <3>1 DEF RowOf
    <3> QED
      BY <3>3, <3>4, RowsStayEdited
  <2>4. CASE ~SecondStay(x)
    <3>1. /\ hotels[t] = None /\ hotels' = [hotels EXCEPT ![t] = hotel]
          /\ Reply(x, "200")
      BY <1>5, <2>4 DEF HotelCommit, SecondStay, Stay
    <3>2. pc'[x] = "done" /\ call'[x] = call[x]
      BY <1>0, <2>0, <3>1, ReplyType
    <3>3. hotels'[t] = hotel /\ hotel # None
      BY <1>0, <2>2, <3>1, StoredAssumption
    <3>4. \A kind \in Edits, u \in Trip :
             RowOf(kind, u) # None => RowOf(kind, u)' = RowOf(kind, u)
      BY <1>0, <2>0, <3>1 DEF RowOf
    <3>5. Given'[x] = hotel
      BY <2>1, <3>2 DEF Given
    <3>6. RowOf("hotel", t)' = hotel
      BY <3>2, <3>3 DEF RowOf
    <3> HIDE DEF hotel
    <3>7. ASSUME NEW kind \in Edits, NEW u \in Trip,
                 call'[x].op = kind, call'[x].trip = u
          PROVE  Edited(x, kind, u)'
      <4>1. kind = "hotel" /\ u = t
        BY <2>1, <3>2, <3>7
      <4>2. RowOf(kind, u)' = hotel
        BY <3>3, <4>1 DEF RowOf
      <4>3. Standing(x, kind, u, Given[x])'
        BY <3>3, <3>5, <4>2 DEF Standing
      <4> QED
        BY <3>2, <4>3 DEF Edited, Edits
    <3> QED
      BY <3>4, <3>7, RowsStayEdited
  <2> QED
    BY <2>3, <2>4
<1>6. CASE \/ ReserveRead(x) \/ CancelRead(x) \/ SeedStores(x) \/ SeedProducts(x)
           \/ Wish(x) \/ Unwish(x)
  <2>1. UNCHANGED <<trips, hotels>>
    BY <1>6 DEF ReserveRead, CancelRead, SeedStores, SeedProducts, Wish, Unwish,
       database
  <2>2. PICK c \in CallsOf[x] : Send(x, c) /\ c.op \notin Edits
    BY <1>6 DEF ReserveRead, CancelRead, SeedStores, SeedProducts, Wish, Unwish,
       Asked, Edits
  <2>3. call'[x].op \notin Edits
    BY <1>0, <2>2, SendType
  <2> QED
    BY <2>1, <2>3, RowsStayEdited DEF RowOf
<1>7. CASE ReserveChoose(x) \/ ReserveCommit(x) \/ CancelCommit(x)
  <2>1. UNCHANGED <<trips, hotels, call>> /\ pc[x] \in {"choose", "book", "cancel"}
    BY <1>7 DEF ReserveChoose, ReserveCommit, CancelCommit, database
  <2>2. call[x].op \notin Edits
    BY <1>0, <2>1 DEF TypeInv, Begun, Edits
  <2> QED
    BY <2>1, <2>2, RowsStayEdited DEF RowOf
<1> QED
  BY <1>1, <1>2, <1>3, <1>4, <1>5, <1>6, <1>7 DEF Acts, Arrive, Proceed

\* What an acknowledged PATCH of a trip or PUT of its hotel has set stands
\* until an edit that overlaps or follows it sets that column: what it has
\* not set stays, an edit never undoes one that was answered before it was
\* sent, and one that fails leaves nothing (update_trip, upsert_hotel).
THEOREM EditsLast == Spec => []EditsStand
<1> DEFINE Inv == PlanInv /\ EditInv
<1>1. Init => Inv
  <2> SUFFICES ASSUME Init PROVE EditInv
    BY InitPlanInv
  <2>1. \A r \in Req : pc[r] = "idle" /\ answer[r] = ""
    BY DEF Init, RequestInit
  <2> QED
    BY <2>1 DEF EditInv, Edited, Edits
<1>2. Inv /\ [Next]_vars => Inv'
  <2>1. ASSUME Inv, UNCHANGED vars PROVE EditInv'
    <3>1. /\ UNCHANGED <<trips, hotels, pc, call, answer, seen>> /\ EditInv
      BY <2>1 DEF vars, database
    <3> QED
      BY <3>1 DEF EditInv, Edited, Standing, Superseded, RowOf, Given
  <2> QED
    BY <2>1, StepEditInv, StepPlanInv DEF Next, Acts, Arrive
<1>3. Inv => EditsStand
  <2> SUFFICES ASSUME Inv, NEW r \in Req, call[r].op \in Edits, answer[r] = "200",
                      NEW f \in DOMAIN Given[r]
               PROVE  LET t == call[r].trip
                          row == RowOf(call[r].op, t)
                      IN  \/ row[f] = Given[r][f]
                          \/ Superseded(r, call[r].op, t, f, row[f], Given)
    BY DEF EditsStand, Given, RowOf, Edits
  <2>1. call[r] \in Call
    BY EditIsSent DEF PlanInv, TypeInv, TypeOK
  <2>2. call[r].trip \in Trip
    BY <2>1, CallFields DEF Edits
  <2> QED
    BY <2>2 DEF EditInv, Edited, Standing
<1> QED
  BY <1>1, <1>2, <1>3, PTL DEF Spec

-----------------------------------------------------------------------------
(* What a reservation finds: stores that are open, what is on their        *)
(* shelves, and wishes. Each was there from the start or is given and      *)
(* taken by requests.                                                      *)

Op(op) == {q \in Req : call[q].op = op}
Opens(s) == {q \in Op("seed") : s \in call[q].open}
Closes(s) == Op("seed") \ Opens(s)
Stocks(s, p) == {q \in Op("stock") : p \in call[q].carries[s]}
Clears(s, p) == Op("stock") \ Stocks(s, p)
Of(op, p) == {q \in Op(op) : call[q].product = p}

\* Nobody has taken v, or somebody gave it and nobody took it after that.
LastGiven(v, Initially, givers, takers) ==
    \/ v \in Initially /\ takers = {}
    \/ \E o \in givers : \A q \in takers : o \notin Before[q]

OpenInv == \A s \in open : LastGiven(s, InitOpen, Opens(s), Closes(s))
StockInv ==
    \A s \in Store : \A p \in carries[s] :
        LastGiven(p, InitCarries[s], Stocks(s, p), Clears(s, p))
WishInv ==
    \A p \in wishlist : LastGiven(p, InitWishlist, Of("wish", p), Of("unwish", p))

ShelfInv == OpenInv /\ StockInv /\ WishInv

Findable(r, v, Initially, givers, takers) == MayFind(r, v \in Initially, givers, takers)

FoundOpen(r, s) == Findable(r, s, InitOpen, Opens(s), Closes(s))
FoundStocked(r, s, p) == Findable(r, p, InitCarries[s], Stocks(s, p), Clears(s, p))
FoundWished(r, p) == Findable(r, p, InitWishlist, Of("wish", p), Of("unwish", p))

\* What a reservation has found so far.
Finds(r) ==
    LET s == call[r].store
    IN  /\ pc[r] = "choose" => /\ FoundOpen(r, s)
                               /\ \A p \in seen[r].carries : FoundStocked(r, s, p)
        /\ pc[r] = "book" \/ answer[r] = "201" =>
              /\ FoundOpen(r, s)
              /\ \A p \in call[r].products :
                    FoundStocked(r, s, p) /\ FoundWished(r, p)

FindInv == \A r \in Op("reserve") : Finds(r)

\* What is there when r looks, after all who gave it were sent, r may find.
LEMMA FindNow ==
    ASSUME NEW r, NEW v, NEW Initially, NEW givers, NEW takers,
           \A o \in givers : r \notin Before[o],
           LastGiven(v, Initially, givers, takers)
    PROVE  Findable(r, v, Initially, givers, takers)
  BY DEF LastGiven, Findable, MayFind

\* What r may find it may still find when more have given, and no more of
\* those before r have taken.
LEMMA FindLater ==
    ASSUME NEW r, NEW v, NEW Initially, NEW givers, NEW takers, NEW Givers,
           NEW Takers, Findable(r, v, Initially, givers, takers),
           givers \subseteq Givers, Takers \cap Before[r] \subseteq takers
    PROVE  Findable(r, v, Initially, Givers, Takers)
  BY DEF Findable, MayFind

\* Who is not answered is before nobody that was sent.
LEMMA BeforeNobody ==
    ASSUME PlanInv, NEW x \in Req, pc[x] # "done", NEW q \in Req, pc[q] # "idle"
    PROVE  x \notin Before[q]
  BY DEF PlanInv, SentInTurn

\* What a request gives when it is sent has been taken by nobody after it.
LEMMA GivenNow ==
    ASSUME PlanInv, NEW x \in Req, pc[x] = "idle", NEW v, NEW Initially,
           NEW givers, NEW takers, x \in givers,
           \A q \in takers : q \in Req /\ pc[q] # "idle"
    PROVE  LastGiven(v, Initially, givers, takers)
  BY BeforeNobody DEF LastGiven

\* Whoever asked for something was sent.
LEMMA AskedIsSent ==
    ASSUME PlanInv, NEW q \in Req, call[q].op # "none"
    PROVE  call[q] # NoCall /\ pc[q] # "idle"
<1>1. call[q] # NoCall
  BY DEF NoCall
<1> QED
  BY <1>1 DEF PlanInv, TypeInv, Begun

\* A step of x adds no request but x to those that ask for op, and takes none
\* away.
LEMMA SameRequests ==
    ASSUME PlanInv, NEW x \in Req, Acts(x), NEW op, op # "none"
    PROVE  /\ \A q \in Op(op) : q \in Op(op)' /\ call'[q] = call[q]
           /\ \A q \in Op(op)' \ {x} : q \in Op(op) /\ call'[q] = call[q]
           /\ pc[x] # "idle" \/ call'[x].op # op => Op(op)' = Op(op)
<1>1. \A q \in Op(op) : q \in Op(op)' /\ call'[q] = call[q]
  BY AskedIsSent, CallsStay DEF Op
<1>2. \A q \in Op(op)' \ {x} : q \in Op(op) /\ call'[q] = call[q]
  BY OneMoves DEF Op, PlanInv
<1>3. ASSUME pc[x] # "idle" \/ call'[x].op # op, x \in Op(op)'
      PROVE  x \in Op(op)
  BY <1>3, OneMoves DEF Op, PlanInv
<1> QED
  BY <1>1, <1>2, <1>3

\* What r has found it may go on to find.
LEMMA FoundStays ==
    ASSUME PlanInv, NEW x \in Req, Acts(x), NEW r \in Req, pc[r] # "idle",
           NEW s, NEW p
    PROVE  /\ FoundOpen(r, s) => FoundOpen(r, s)'
           /\ FoundStocked(r, s, p) => FoundStocked(r, s, p)'
           /\ FoundWished(r, p) => FoundWished(r, p)'
<1>1. ASSUME NEW op \in {"seed", "stock", "wish", "unwish"}
      PROVE  /\ \A q \in Op(op) : q \in Op(op)' /\ call'[q] = call[q]
             /\ \A q \in Op(op)' \cap Before[r] : q \in Op(op) /\ call'[q] = call[q]
  <2>1. x \notin Before[r]
    BY OneMoves, BeforeNobody DEF PlanInv
  <2> QED
    BY <2>1, SameRequests
<1>2. /\ Opens(s) \subseteq Opens(s)'
      /\ Closes(s)' \cap Before[r] \subseteq Closes(s)
  BY <1>1 DEF Opens, Closes
<1>3. /\ Stocks(s, p) \subseteq Stocks(s, p)'
      /\ Clears(s, p)' \cap Before[r] \subseteq Clears(s, p)
  BY <1>1 DEF Stocks, Clears
<1>4. /\ Of("wish", p) \subseteq Of("wish", p)'
      /\ Of("unwish", p)' \cap Before[r] \subseteq Of("unwish", p)
  BY <1>1 DEF Of
<1> QED
  BY <1>2, <1>3, <1>4, FindLater DEF FoundOpen, FoundStocked, FoundWished

\* The lists of stores, shelves and wishes move with one kind of call each.
LEMMA WhatMoves ==
    ASSUME PlanInv, NEW x \in Req, Acts(x)
    PROVE  /\ \/ SeedStores(x)
              \/ UNCHANGED open /\ (pc[x] # "idle" \/ call'[x].op # "seed")
           /\ \/ SeedProducts(x)
              \/ UNCHANGED carries /\ (pc[x] # "idle" \/ call'[x].op # "stock")
           /\ \/ Wish(x) \/ Unwish(x)
              \/ /\ UNCHANGED wishlist
                 /\ pc[x] # "idle" \/ call'[x].op \notin {"wish", "unwish"}
<1>1. CASE Proceed(x)
  BY <1>1 DEF Proceed, PatchCommit, HotelCommit, ReserveChoose, ReserveCommit,
     CancelCommit, database
<1>2. ASSUME NEW c \in CallsOf[x], Send(x, c) PROVE call'[x] = c
  BY <1>2, SendType DEF PlanInv
<1>3. CASE \/ CreateTrip(x) \/ PatchRead(x) \/ HotelRead(x) \/ ReserveRead(x)
           \/ CancelRead(x)
  BY <1>2, <1>3 DEF CreateTrip, PatchRead, HotelRead, ReserveRead, CancelRead,
     Asked, database
<1>4. CASE SeedStores(x)
  BY <1>2, <1>4 DEF SeedStores, Asked
<1>5. CASE SeedProducts(x)
  BY <1>2, <1>5 DEF SeedProducts, Asked
<1>6. CASE Wish(x)
  BY <1>2, <1>6 DEF Wish, Asked
<1>7. CASE Unwish(x)
  BY <1>2, <1>7 DEF Unwish, Asked
<1> QED
  BY <1>1, <1>3, <1>4, <1>5, <1>6, <1>7 DEF Acts, Arrive

\* A seed of the stores opens and closes them after all that was sent before.
LEMMA StepOpenInv ==
    ASSUME PlanInv, OpenInv, NEW x \in Req, Acts(x)
    PROVE  OpenInv'
<1>1. CASE UNCHANGED open /\ (pc[x] # "idle" \/ call'[x].op # "seed")
  <2>1. Op("seed")' = Op("seed") /\ \A q \in Op("seed") : call'[q] = call[q]
    BY <1>1, SameRequests
  <2>2. \A s : Opens(s)' = Opens(s) /\ Closes(s)' = Closes(s)
    BY <2>1 DEF Opens, Closes
  <2> QED
    BY <1>1, <2>2 DEF OpenInv
<1>2. CASE SeedStores(x)
  <2>1. PICK c \in CallsOf[x] : Send(x, c) /\ c.op = "seed" /\ open' = c.open
    BY <1>2 DEF SeedStores, Asked
  <2>2. pc[x] = "idle" /\ call'[x] = c
    BY <2>1, SendType DEF PlanInv
  <2> SUFFICES ASSUME NEW s \in open'
               PROVE  LastGiven(s, InitOpen, Opens(s)', Closes(s)')
    BY DEF OpenInv
  <2>3. x \in Opens(s)'
    BY <2>1, <2>2 DEF Opens, Op
  <2>4. \A q \in Closes(s)' : q \in Req /\ pc[q] # "idle"
    <3>1. \A q \in Closes(s)' : q \in Op("seed")' \ {x}
      BY <2>3 DEF Closes
    <3>2. \A q \in Op("seed")' \ {x} : q \in Op("seed")
      BY SameRequests
    <3> QED
      BY <3>1, <3>2, AskedIsSent DEF Op
  <2> QED
    BY <2>2, <2>3, <2>4, GivenNow
<1> QED
  BY <1>1, <1>2, WhatMoves

\* So does a seed of the products with the shelves of every store.
LEMMA StepStockInv ==
    ASSUME PlanInv, StockInv, NEW x \in Req, Acts(x)
    PROVE  StockInv'
<1>1. CASE UNCHANGED carries /\ (pc[x] # "idle" \/ call'[x].op # "stock")
  <2>1. Op("stock")' = Op("stock") /\ \A q \in Op("stock") : call'[q] = call[q]
    BY <1>1, SameRequests
  <2>2. \A s, p : Stocks(s, p)' = Stocks(s, p) /\ Clears(s, p)' = Clears(s, p)
    BY <2>1 DEF Stocks, Clears
  <2> QED
    BY <1>1, <2>2 DEF StockInv
<1>2. CASE SeedProducts(x)
  <2>1. PICK c \in CallsOf[x] : Send(x, c) /\ c.op = "stock" /\ carries' = c.carries
    BY <1>2 DEF SeedProducts, Asked
  <2>2. pc[x] = "idle" /\ call'[x] = c
    BY <2>1, SendType DEF PlanInv
  <2> SUFFICES ASSUME NEW s \in Store, NEW p \in carries'[s]
               PROVE  LastGiven(p, InitCarries[s], Stocks(s, p)', Clears(s, p)')
    BY DEF StockInv
  <2>3. x \in Stocks(s, p)'
    BY <2>1, <2>2 DEF Stocks, Op
  <2>4. \A q \in Clears(s, p)' : q \in Req /\ pc[q] # "idle"
    <3>1. \A q \in Clears(s, p)' : q \in Op("stock")' \ {x}
      BY <2>3 DEF Clears
    <3>2. \A q \in Op("stock")' \ {x} : q \in Op("stock")
      BY SameRequests
    <3> QED
      BY <3>1, <3>2, AskedIsSent DEF Op
  <2> QED
    BY <2>2, <2>3, <2>4, GivenNow
<1> QED
  BY <1>1, <1>2, WhatMoves

\* A call of the wishlist gives or takes one product.
LEMMA StepWishInv ==
    ASSUME PlanInv, WishInv, NEW x \in Req, Acts(x)
    PROVE  WishInv'
<1>1. ASSUME NEW p,
             \A op \in {"wish", "unwish"} :
                 pc[x] # "idle" \/ call'[x].op # op \/ call'[x].product # p
      PROVE  Of("wish", p)' = Of("wish", p) /\ Of("unwish", p)' = Of("unwish", p)
  <2>1. ASSUME NEW op \in {"wish", "unwish"} PROVE Of(op, p)' = Of(op, p)
    <3>1. /\ \A q \in Op(op) : q \in Op(op)' /\ call'[q] = call[q]
          /\ \A q \in Op(op)' \ {x} : q \in Op(op) /\ call'[q] = call[q]
          /\ pc[x] # "idle" \/ call'[x].op # op => Op(op)' = Op(op)
      BY SameRequests
    <3>2. CASE pc[x] # "idle" \/ call'[x].op # op
      BY <3>1, <3>2 DEF Of
    <3>3. CASE call'[x].product # p /\ pc[x] = "idle"
      <4>1. x \notin Op(op)
        BY <3>3, AskedIsSent DEF Op
      <4> QED
        BY <3>1, <3>3, <4>1 DEF Of
    <3> QED
      BY <1>1, <3>2, <3>3
  <2> QED
    BY <2>1
<1>2. CASE /\ UNCHANGED wishlist
           /\ pc[x] # "idle" \/ call'[x].op \notin {"wish", "unwish"}
  BY <1>1, <1>2 DEF WishInv
<1>3. CASE Wish(x)
  <2>1. PICK c \in CallsOf[x] : /\ Send(x, c) /\ c.op = "wish"
                                /\ wishlist' = wishlist \cup {c.product}
    BY <1>3 DEF Wish, Asked
  <2>2. pc[x] = "idle" /\ call'[x] = c
    BY <2>1, SendType DEF PlanInv
  <2> SUFFICES ASSUME NEW p \in wishlist'
               PROVE  LastGiven(p, InitWishlist, Of("wish", p)', Of("unwish", p)')
    BY DEF WishInv
  <2>3. CASE p = c.product
    <3>1. x \in Of("wish", p)'
      BY <2>1, <2>2, <2>3 DEF Of, Op
    <3>2. \A q \in Of("unwish", p)' : q \in Op("unwish")' \ {x}
      BY <2>1, <2>2 DEF Of, Op
    <3>3. \A q \in Op("unwish")' \ {x} : q \in Op("unwish")
      BY SameRequests
    <3>4. \A q \in Of("unwish", p)' : q \in Req /\ pc[q] # "idle"
      BY <3>2, <3>3, AskedIsSent DEF Op
    <3> QED
      BY <2>2, <3>1, <3>4, GivenNow
  <2>4. CASE p # c.product
    BY <1>1, <2>1, <2>2, <2>4 DEF WishInv
  <2> QED
    BY <2>3, <2>4
<1>4. CASE Unwish(x)
  <2>1. PICK c \in CallsOf[x] : /\ Send(x, c) /\ c.op = "unwish"
                                /\ wishlist' = wishlist \ {c.product}
    BY <1>4 DEF Unwish, Asked
  <2>2. call'[x] = c
    BY <2>1, SendType DEF PlanInv
  <2>3. \A p \in wishlist' : p \in wishlist /\ call'[x].product # p
    BY <2>1, <2>2
  <2> QED
    BY <1>1, <2>3 DEF WishInv
<1> QED
  BY <1>2, <1>3, <1>4, WhatMoves

\* What is there is found by a request that is not answered yet.
LEMMA FoundNow ==
    ASSUME PlanInv, ShelfInv, NEW x \in Req, pc[x] # "done"
    PROVE  /\ \A s \in open : FoundOpen(x, s)
           /\ \A s \in Store : \A p \in carries[s] : FoundStocked(x, s, p)
           /\ \A p \in wishlist : FoundWished(x, p)
<1>1. ASSUME NEW op, op # "none" PROVE \A q \in Op(op) : x \notin Before[q]
  BY <1>1, AskedIsSent, BeforeNobody DEF Op
<1>2. ASSUME NEW s \in open PROVE FoundOpen(x, s)
  <2>1. \A o \in Opens(s) : x \notin Before[o]
    BY <1>1 DEF Opens
  <2> QED
    BY <2>1, FindNow DEF ShelfInv, OpenInv, FoundOpen
<1>3. ASSUME NEW s \in Store, NEW p \in carries[s] PROVE FoundStocked(x, s, p)
  <2>1. \A o \in Stocks(s, p) : x \notin Before[o]
    BY <1>1 DEF Stocks
  <2> QED
    BY <2>1, FindNow DEF ShelfInv, StockInv, FoundStocked
<1>4. ASSUME NEW p \in wishlist PROVE FoundWished(x, p)
  <2>1. \A o \in Of("wish", p) : x \notin Before[o]
    BY <1>1 DEF Of
  <2> QED
    BY <2>1, FindNow DEF ShelfInv, WishInv, FoundWished
<1> QED
  BY <1>2, <1>3, <1>4

\* A step that looks adds nothing to what is given and taken.
LEMMA LookingGivesNothing ==
    ASSUME PlanInv, NEW x \in Req, Acts(x), call'[x].op = "reserve", NEW s, NEW p
    PROVE  /\ FoundOpen(x, s) => FoundOpen(x, s)'
           /\ FoundStocked(x, s, p) => FoundStocked(x, s, p)'
           /\ FoundWished(x, p) => FoundWished(x, p)'
<1>1. \A op \in {"seed", "stock", "wish", "unwish"} :
         Op(op)' = Op(op) /\ \A q \in Op(op) : call'[q] = call[q]
  BY SameRequests
<1>2. Opens(s)' = Opens(s) /\ Closes(s)' = Closes(s)
  BY <1>1 DEF Opens, Closes
<1>3. Stocks(s, p)' = Stocks(s, p) /\ Clears(s, p)' = Clears(s, p)
  BY <1>1 DEF Stocks, Clears
<1>4. Of("wish", p)' = Of("wish", p) /\ Of("unwish", p)' = Of("unwish", p)
  BY <1>1 DEF Of
<1> QED
  BY <1>2, <1>3, <1>4 DEF FoundOpen, FoundStocked, FoundWished

\* A reservation finds its store and the shelf when it reads them, and the
\* wishes when it chooses; what others do later does not undo that.
LEMMA StepFindInv ==
    ASSUME PlanInv, ShelfInv, FindInv, NEW x \in Req, Acts(x)
    PROVE  FindInv'
<1> SUFFICES ASSUME NEW r \in Op("reserve")' PROVE Finds(r)'
  BY DEF FindInv
<1>0. TypeInv /\ r \in Req /\ call'[r].op = "reserve"
  BY DEF PlanInv, Op
<1>1. PICK s : s = call'[r].store
  OBVIOUS
<1>2. CASE r # x
  <2>1. /\ call'[r] = call[r] /\ pc'[r] = pc[r] /\ answer'[r] = answer[r]
        /\ seen'[r] = seen[r]
    BY <1>0, <1>2, OneMoves
  <2>2. pc[r] # "idle" /\ Finds(r)
    BY <1>0, <2>1, AskedIsSent DEF FindInv, Op
  <2>3. /\ pc'[r] = "choose" => /\ FoundOpen(r, s)'
                                /\ \A p \in seen'[r].carries : FoundStocked(r, s, p)'
        /\ pc'[r] = "book" \/ answer'[r] = "201" =>
              /\ FoundOpen(r, s)'
              /\ \A p \in call'[r].products :
                    FoundStocked(r, s, p)' /\ FoundWished(r, p)'
    BY <1>0, <1>1, <2>1, <2>2, FoundStays DEF Finds
  <2> QED
    BY <1>1, <2>3 DEF Finds
<1>3. CASE r = x /\ Arrive(x)
  <2>1. PICK c \in CallsOf[x] : Send(x, c)
    BY <1>0, <1>3, OneMoves
  <2>2. call'[x] = c /\ c.op = "reserve" /\ c \in Call /\ pc[x] = "idle"
    BY <1>0, <1>3, <2>1, SendType
  <2>3. \A d \in CallsOf[x] : Send(x, d) => d = c
    BY <1>0, <2>2, SendType
  <2>4. ReserveRead(x)
    BY <1>3, <2>2, <2>3 DEF Arrive, CreateTrip, PatchRead, HotelRead, CancelRead,
       SeedStores, SeedProducts, Wish, Unwish, Asked
  <2>5. CASE Reply(x, "404")
    BY <1>0, <1>3, <2>5, ReplyType DEF Finds
  <2>6. CASE ~Reply(x, "404")
    <3>1. /\ c.store \in open /\ Goto(x, "choose")
          /\ seen' = [seen EXCEPT ![x] = [carries |-> carries[c.store]]]
      BY <2>3, <2>4, <2>6 DEF ReserveRead, MayBeVisited, Asked
    <3>2. /\ pc'[x] = "choose" /\ answer'[x] = "" /\ c.store \in Store
          /\ seen'[x].carries = carries[c.store]
      BY <1>0, <2>2, <3>1, GotoType, OneMoves, CallFields DEF TypeInv, TypeOK
    <3>3. /\ FoundOpen(x, s)'
          /\ \A p \in seen'[x].carries : FoundStocked(x, s, p)'
      BY <1>0, <1>1, <1>3, <2>2, <3>1, <3>2, FoundNow, LookingGivesNothing
    <3> QED
      BY <1>1, <1>3, <3>2, <3>3 DEF Finds
  <2> QED
    BY <2>5, <2>6
<1>4. CASE r = x /\ ~Arrive(x)
  <2>1. UNCHANGED <<call, seen>> /\ Proceed(x) /\ pc[x] # "done"
    BY <1>0, <1>4, OneMoves DEF Acts
  <2>2. call[x].op = "reserve" /\ Finds(x) /\ s = call[x].store
    BY <1>0, <1>1, <1>4, <2>1 DEF FindInv, Op
  <2>3. CASE ReserveChoose(x) /\ Goto(x, "book")
    <3>1. pc[x] = "choose" /\ call[x].products \subseteq wishlist \cap seen[x].carries
      BY <1>0, <2>3, ReplyType, GotoType DEF ReserveChoose, MayBeReserved
    <3>2. /\ FoundOpen(x, s)'
          /\ \A p \in call[x].products : FoundStocked(x, s, p)' /\ FoundWished(x, p)'
      BY <1>0, <1>4, <2>1, <2>2, <3>1, FoundNow, LookingGivesNothing DEF Finds
    <3>3. pc'[x] = "book"
      BY <1>0, <2>3, GotoType
    <3> QED
      BY <1>1, <1>4, <2>1, <3>2, <3>3 DEF Finds
  <2>4. CASE ReserveChoose(x) /\ Reply(x, "400")
    BY <1>0, <1>4, <2>4, ReplyType DEF Finds
  <2>5. CASE ReserveCommit(x)
    <3>1. pc[x] = "book" /\ pc'[x] = "done"
      BY <1>0, <2>5, ReplyType DEF ReserveCommit
    <3>2. /\ FoundOpen(x, s)'
          /\ \A p \in call[x].products : FoundStocked(x, s, p)' /\ FoundWished(x, p)'
      BY <1>0, <1>4, <2>1, <2>2, <3>1, LookingGivesNothing DEF Finds
    <3> QED
      BY <1>1, <1>4, <2>1, <3>1, <3>2 DEF Finds
  <2>6. CASE PatchCommit(x) \/ HotelCommit(x) \/ CancelCommit(x)
    BY <1>0, <2>2, <2>6 DEF PatchCommit, HotelCommit, CancelCommit, TypeInv, Begun
  <2> QED
    BY <2>1, <2>3, <2>4, <2>5, <2>6 DEF Proceed, ReserveChoose
<1> QED
  BY <1>2, <1>3, <1>4

\* A reservation is refused if its store was closed, or one of its products
\* taken off the shelf there or off the wishlist, before it was sent, and not
\* brought back before it was answered: what it reads in pieces is each as
\* old as its own reading, and no older (create_reservation).
THEOREM StaleChoicesRefused == Spec => []StaleChoiceRefused
<1> DEFINE Inv == PlanInv /\ ShelfInv /\ FindInv
<1>1. Init => Inv
  <2> SUFFICES ASSUME Init PROVE ShelfInv /\ FindInv
    BY InitPlanInv
  <2>1. ASSUME NEW op, op # "none" PROVE Op(op) = {}
    BY <2>1 DEF Op, Init, RequestInit, NoCall
  <2>2. open = InitOpen /\ carries = InitCarries /\ wishlist = InitWishlist
    BY DEF Init
  <2>3. OpenInv
    BY <2>1, <2>2 DEF OpenInv, LastGiven, Closes
  <2>4. StockInv
    BY <2>1, <2>2 DEF StockInv, LastGiven, Clears
  <2>5. WishInv
    BY <2>1, <2>2 DEF WishInv, LastGiven, Of
  <2>6. FindInv
    BY <2>1 DEF FindInv
  <2> QED
    BY <2>3, <2>4, <2>5, <2>6 DEF ShelfInv
<1>2. Inv /\ [Next]_vars => Inv'
  <2>1. ASSUME Inv, NEW x \in Req, Acts(x) PROVE ShelfInv' /\ FindInv'
    BY <2>1, StepOpenInv, StepStockInv, StepWishInv, StepFindInv DEF ShelfInv
  <2>2. ASSUME Inv, UNCHANGED vars PROVE ShelfInv' /\ FindInv'
    <3>1. /\ UNCHANGED <<open, carries, wishlist, pc, call, answer, seen>>
          /\ ShelfInv /\ FindInv
      BY <2>2 DEF vars, database
    <3>2. /\ \A op : Op(op)' = Op(op) /\ \A p : Of(op, p)' = Of(op, p)
          /\ \A s : /\ Opens(s)' = Opens(s) /\ Closes(s)' = Closes(s)
                    /\ \A p : Stocks(s, p)' = Stocks(s, p) /\ Clears(s, p)' = Clears(s, p)
      BY <3>1 DEF Op, Of, Opens, Closes, Stocks, Clears
    <3>3. ShelfInv'
      BY <3>1, <3>2 DEF ShelfInv, OpenInv, StockInv, WishInv
    <3>4. \A r, s, p : /\ FoundOpen(r, s)' <=> FoundOpen(r, s)
                       /\ FoundStocked(r, s, p)' <=> FoundStocked(r, s, p)
                       /\ FoundWished(r, p)' <=> FoundWished(r, p)
      BY <3>2 DEF FoundOpen, FoundStocked, FoundWished
    <3>5. FindInv'
      BY <3>1, <3>2, <3>4 DEF FindInv, Finds
    <3> QED
      BY <3>3, <3>5
  <2> QED
    BY <2>1, <2>2, StepPlanInv DEF Next, Acts, Arrive
<1>3. Inv => StaleChoiceRefused
  <2> SUFFICES ASSUME Inv PROVE StaleChoiceRefused
    OBVIOUS
  <2>1. \A r \in Op("reserve") : answer[r] = "201" =>
           /\ FoundOpen(r, call[r].store)
           /\ \A p \in call[r].products :
                 FoundStocked(r, call[r].store, p) /\ FoundWished(r, p)
    BY DEF FindInv, Finds
  <2> QED
    BY <2>1 DEF StaleChoiceRefused, FoundOpen, FoundStocked, FoundWished, Findable,
       Op, Opens, Closes, Stocks, Clears, Of
<1> QED
  BY <1>1, <1>2, <1>3, PTL DEF Spec

=============================================================================
