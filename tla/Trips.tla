------------------------------- MODULE Trips -------------------------------
(***************************************************************************)
(* Trips, their hotel stays and store visit reservations, with the seed    *)
(* scripts that open, close and stock stores and the wishlist calls that   *)
(* move under them, as concurrent requests over one PostgreSQL database    *)
(* (READ COMMITTED). All handlers are synchronous: they run on threads,    *)
(* each SELECT and each commit a step.                                     *)
(***************************************************************************)
EXTENDS Requests, Columns, Naturals

CONSTANTS
    Trip,          \* the UUIDs trips may get
    Store,
    Product,       \* the catalogue
    Unlisted,      \* a product id the catalogue does not have
    Name,          \* hotel names
    Time,          \* instants, as naturals
    Null,          \* a column that is null
    None,          \* no row
    InitTrips,     \* the trips, hotels, stores, shelves and wishlist already stored
    InitHotels,
    InitOpen,
    InitCarries,
    InitWishlist

MaybeTime == Time \cup {Null}

TripRow == [starts : MaybeTime, ends : MaybeTime]

Hotel == [name : Name, checkIn : MaybeTime, checkOut : MaybeTime]

\* A store as a reservation reads it.
Shelf == [carries : SUBSET Product]

Reservation ==
    [trip : Trip, store : Store, products : SUBSET Product,
     status : {"RESERVED", "CANCELLED"}]

\* Both schemas and the trip service check two times in the same way.
InOrder(from, to) == {from, to} \subseteq Time => from <= to

\* The columns a PATCH sets.
Changes == UNION {[fields -> MaybeTime] : fields \in SUBSET {"starts", "ends"}}

ASSUME TimeAssumption == Time \subseteq Nat /\ Null \notin Time

ASSUME StoredAssumption ==
    /\ None \notin TripRow /\ None \notin Hotel /\ None \notin Reservation
    /\ Unlisted \notin Product
    /\ InitTrips \in [Trip -> TripRow \cup {None}]
    /\ InitHotels \in [Trip -> Hotel \cup {None}]
    /\ \A t \in Trip :
          /\ InitTrips[t] = None => InitHotels[t] = None
          /\ InitTrips[t] # None => InOrder(InitTrips[t].starts, InitTrips[t].ends)
          /\ InitHotels[t] # None =>
                InOrder(InitHotels[t].checkIn, InitHotels[t].checkOut)
    /\ InitOpen \subseteq Store
    /\ InitCarries \in [Store -> SUBSET Product]
    /\ InitWishlist \subseteq Product

\* Calls the API lets through: times in order within one request.
Call ==
    [op : {"trip"}, row : {t \in TripRow : InOrder(t.starts, t.ends)}]
      \cup [op : {"patch"}, trip : Trip, changes : Changes]
      \cup [op : {"hotel"}, trip : Trip,
            hotel : {h \in Hotel : InOrder(h.checkIn, h.checkOut)}]
      \cup [op : {"reserve"}, trip : Trip, store : Store,
            products : SUBSET (Product \cup {Unlisted})]
      \cup [op : {"cancel"}, reservation : Req]
      \cup [op : {"seed"}, open : SUBSET Store]
      \cup [op : {"stock"}, carries : [Store -> SUBSET Product]]
      \cup [op : {"wish", "unwish"}, product : Product]

ASSUME CallAssumption ==
    /\ CallsOf \in [Req -> SUBSET Call]
    /\ Before \in [Req -> SUBSET Req]

VARIABLES
    trips,         \* trips
    hotels,        \* hotel_stays by trip: trip_id is UNIQUE
    reservations,  \* visit_reservations by the request that inserted them
    open,          \* the stores with is_active
    carries,       \* store_products: the products of each store
    wishlist,      \* the products of wishlist_items
    seen           \* the row of trips, hotel_stays or stores its ORM session
                   \* holds, as read

database == <<trips, hotels, reservations, open, carries, wishlist>>
vars     == <<database, pc, call, answer, seen>>

TypeOK ==
    /\ trips \in [Trip -> TripRow \cup {None}]
    /\ hotels \in [Trip -> Hotel \cup {None}]
    /\ reservations \in [Req -> Reservation \cup {None}]
    /\ open \subseteq Store
    /\ carries \in [Store -> SUBSET Product]
    /\ wishlist \subseteq Product
    /\ pc \in [Req -> {"idle", "patch", "hotel", "choose", "book", "cancel",
                       "done"}]
    /\ call \in [Req -> Call \cup {NoCall}]
    /\ answer \in [Req -> {"", "200", "201", "204", "400", "404", "422", "500"}]
    /\ seen \in [Req -> TripRow \cup Hotel \cup Shelf \cup {None}]

Init ==
    /\ trips = InitTrips
    /\ hotels = InitHotels
    /\ reservations = [r \in Req |-> None]
    /\ open = InitOpen
    /\ carries = InitCarries
    /\ wishlist = InitWishlist
    /\ RequestInit
    /\ seen = [r \in Req |-> None]

Asked(r, c, op) == c.op = op /\ Send(r, c)

-----------------------------------------------------------------------------
(* Trips *)

CreateTrip(r) ==
    /\ \E c \in CallsOf[r], t \in Trip :
          /\ Asked(r, c, "trip")
          /\ trips[t] = None
          /\ trips' = [trips EXCEPT ![t] = c.row]
    /\ Reply(r, "201")
    /\ UNCHANGED <<hotels, reservations, open, carries, wishlist, seen>>

\* The row after a PATCH of the row that was read.
Merged(row, changes) ==
    [f \in DOMAIN row |-> IF f \in DOMAIN changes THEN changes[f] ELSE row[f]]

\* A plausible bug: only the times of the request are compared.
PatchableByItself(row, changes) ==
    {"starts", "ends"} \subseteq DOMAIN changes =>
        InOrder(changes.starts, changes.ends)

Patchable(row, changes) ==
    LET new == Merged(row, changes) IN InOrder(new.starts, new.ends)

PatchRead(r) ==
    /\ \E c \in CallsOf[r] :
          /\ Asked(r, c, "patch")
          /\ \/ /\ trips[c.trip] = None
                /\ Reply(r, "404")
                /\ UNCHANGED seen
             \/ /\ trips[c.trip] # None
                /\ ~Patchable(trips[c.trip], c.changes)
                /\ Reply(r, "422")
                /\ UNCHANGED seen
             \/ /\ trips[c.trip] # None
                /\ Patchable(trips[c.trip], c.changes)
                /\ seen' = [seen EXCEPT ![r] = trips[c.trip]]
                /\ Goto(r, "patch")
    /\ UNCHANGED database

PatchCommit(r) ==
    LET c == call[r]
    IN  /\ pc[r] = "patch"
        /\ trips' = [trips EXCEPT ![c.trip] =
                       PatchRow(@, seen[r], Merged(seen[r], c.changes))]
        /\ Reply(r, "200")
        /\ UNCHANGED <<hotels, reservations, open, carries, wishlist, call, seen>>

-----------------------------------------------------------------------------
(* PUT /me/trips/{tripId}/hotel: one hotel stay per trip *)

HotelRead(r) ==
    /\ \E c \in CallsOf[r] :
          /\ Asked(r, c, "hotel")
          /\ IF trips[c.trip] = None THEN Reply(r, "404") /\ UNCHANGED seen
             ELSE /\ seen' = [seen EXCEPT ![r] = hotels[c.trip]]
                  /\ Goto(r, "hotel")
    /\ UNCHANGED database

\* A PUT sets every column, to null where the request has none.
Stay(old, new) == new

\* UNIQUE (trip_id) refuses the INSERT of a second stay.
SecondStay(r) == seen[r] = None /\ hotels[call[r].trip] # None

HotelCommit(r) ==
    LET c == call[r]
    IN  /\ pc[r] = "hotel"
        /\ \/ /\ SecondStay(r)
              /\ Reply(r, "500")
              /\ UNCHANGED hotels
           \/ /\ seen[r] = None /\ ~SecondStay(r)
              /\ hotels' = [hotels EXCEPT ![c.trip] = Stay(None, c.hotel)]
              /\ Reply(r, "200")
           \/ /\ seen[r] # None
              /\ hotels' = [hotels EXCEPT
                     ![c.trip] = PatchRow(@, seen[r], Stay(seen[r], c.hotel))]
              /\ Reply(r, "200")
        /\ UNCHANGED <<trips, reservations, open, carries, wishlist, call, seen>>

-----------------------------------------------------------------------------
(* POST /me/trips/{tripId}/visit-reservations *)

MayBeVisited(s) == s \in open

ReserveRead(r) ==
    /\ \E c \in CallsOf[r] :
          /\ Asked(r, c, "reserve")
          /\ IF trips[c.trip] # None /\ MayBeVisited(c.store)
                /\ Unlisted \notin c.products
             THEN /\ seen' = [seen EXCEPT ![r] = [carries |-> carries[c.store]]]
                  /\ Goto(r, "choose")
             ELSE Reply(r, "404") /\ UNCHANGED seen
    /\ UNCHANGED database

\* A plausible bug: the wishlist alone decides.
WishlistedAnywhere(r) == call[r].products \subseteq wishlist

\* On the wishlist now, and on the shelf when the store was read.
MayBeReserved(r) == call[r].products \subseteq wishlist \cap seen[r].carries

ReserveChoose(r) ==
    /\ pc[r] = "choose"
    /\ IF MayBeReserved(r) THEN Goto(r, "book") ELSE Reply(r, "400")
    /\ UNCHANGED <<database, call, seen>>

ReserveCommit(r) ==
    LET c == call[r]
    IN  /\ pc[r] = "book"
        /\ reservations' = [reservations EXCEPT ![r] =
              [trip |-> c.trip, store |-> c.store, products |-> c.products,
               status |-> "RESERVED"]]
        /\ Reply(r, "201")
        /\ UNCHANGED <<trips, hotels, open, carries, wishlist, call, seen>>

(* DELETE /me/visit-reservations/{reservationId} *)

CancelRead(r) ==
    /\ \E c \in CallsOf[r] :
          /\ Asked(r, c, "cancel")
          /\ IF reservations[c.reservation] = None
             THEN Reply(r, "404") ELSE Goto(r, "cancel")
    /\ UNCHANGED <<database, seen>>

\* A plausible bug: cancelling a cancelled reservation brings it back.
CancelToggled(row) ==
    [row EXCEPT !.status = IF @ = "RESERVED" THEN "CANCELLED" ELSE "RESERVED"]

\* A plausible bug: a status the enumeration does not have.
CancelMisspelt(row) == [row EXCEPT !.status = "CANCELED"]

Cancelled(row) == [row EXCEPT !.status = "CANCELLED"]

CancelCommit(r) ==
    /\ pc[r] = "cancel"
    /\ reservations' = [reservations EXCEPT
                          ![call[r].reservation] = Cancelled(@)]
    /\ Reply(r, "204")
    /\ UNCHANGED <<trips, hotels, open, carries, wishlist, call, seen>>

-----------------------------------------------------------------------------
(* What moves under them: seed_stores sets is_active of every store, and   *)
(* seed_products the stores of every product, each in one transaction and  *)
(* run by hand; the wishlist handlers are those of Shopping.               *)

\* A plausible bug: a store that is not in the seed is deleted, and its
\* reservations with it.
SeedStoresCascading(r) ==
    /\ \E c \in CallsOf[r] :
          /\ Asked(r, c, "seed")
          /\ open' = c.open
          /\ reservations' =
                [q \in Req |-> IF reservations[q] # None
                                  /\ reservations[q].store \notin c.open
                               THEN None ELSE reservations[q]]
    /\ Reply(r, "204")
    /\ UNCHANGED <<trips, hotels, carries, wishlist, seen>>

SeedStores(r) ==
    /\ \E c \in CallsOf[r] : Asked(r, c, "seed") /\ open' = c.open
    /\ Reply(r, "204")
    /\ UNCHANGED <<trips, hotels, reservations, carries, wishlist, seen>>

SeedProducts(r) ==
    /\ \E c \in CallsOf[r] : Asked(r, c, "stock") /\ carries' = c.carries
    /\ Reply(r, "204")
    /\ UNCHANGED <<trips, hotels, reservations, open, wishlist, seen>>

Wish(r) ==
    /\ \E c \in CallsOf[r] :
          Asked(r, c, "wish") /\ wishlist' = wishlist \cup {c.product}
    /\ Reply(r, "200")
    /\ UNCHANGED <<trips, hotels, reservations, open, carries, seen>>

Unwish(r) ==
    /\ \E c \in CallsOf[r] :
          Asked(r, c, "unwish") /\ wishlist' = wishlist \ {c.product}
    /\ Reply(r, "204")
    /\ UNCHANGED <<trips, hotels, reservations, open, carries, seen>>

-----------------------------------------------------------------------------

Proceed(r) ==
    \/ PatchCommit(r) \/ HotelCommit(r)
    \/ ReserveChoose(r) \/ ReserveCommit(r) \/ CancelCommit(r)

Next ==
    \/ \E r \in Req :
          \/ CreateTrip(r) \/ PatchRead(r) \/ HotelRead(r) \/ ReserveRead(r)
          \/ CancelRead(r) \/ SeedStores(r) \/ SeedProducts(r) \/ Wish(r) \/ Unwish(r)
          \/ Proceed(r)
    \/ AllAnswered /\ UNCHANGED vars

Spec == Init /\ [][Next]_vars

-----------------------------------------------------------------------------
(* Correctness. *)

\* The requests op for trip t were sent one after another.
InTurn(op, t) ==
    \A q, r \in Req :
        {call[q].op, call[r].op} = {op} /\ call[q].trip = t /\ call[r].trip = t =>
            q = r \/ q \in Before[r] \/ r \in Before[q]

\* A trip never ends before it starts, as long as its PATCHes do not overlap:
\* one time is checked against the other as it was read, and only what has
\* changed is written (update_trip).
TripTimesInOrder ==
    \A t \in Trip :
        trips[t] # None /\ InTurn("patch", t) => InOrder(trips[t].starts, trips[t].ends)

\* r's edit of a column was followed, or overlapped, by an edit that gave it
\* this value.
Superseded(r, op, t, f, value, given) ==
    \E q \in Req \ Before[r] :
        /\ q # r /\ answer[q] = "200"
        /\ call[q].op = op /\ call[q].trip = t
        /\ f \in DOMAIN given[q] /\ given[q][f] = value

\* What an acknowledged PATCH of a trip, or PUT of its hotel, set stands until
\* another one sets that column: edits that overlap do not undo each other,
\* and one that failed leaves nothing (update_trip, upsert_hotel).
EditsStand ==
    LET given == [q \in Req |-> CASE call[q].op = "patch" -> call[q].changes
                                  [] call[q].op = "hotel" -> call[q].hotel
                                  [] OTHER -> <<>>]
    IN  \A r \in Req :
            call[r].op \in {"patch", "hotel"} /\ answer[r] = "200" =>
            LET t   == call[r].trip
                row == IF call[r].op = "patch" THEN trips[t] ELSE hotels[t]
            IN  \A f \in DOMAIN given[r] :
                    row[f] = given[r][f]
                      \/ Superseded(r, call[r].op, t, f, row[f], given)

\* Nothing a reservation needs was taken away before it was sent, unless it
\* was brought back before it was answered: its store is open, and its
\* products are on the shelf there and on the wishlist (create_reservation).
StaleChoiceRefused ==
    LET Op(op) == {q \in Req : call[q].op = op}
    IN  \A r \in Op("reserve") : answer[r] = "201" =>
        LET s         == call[r].store
            opened    == {q \in Op("seed") : s \in call[q].open}
            stocks(p) == {q \in Op("stock") : p \in call[q].carries[s]}
            of(op, p) == {q \in Op(op) : call[q].product = p}
        IN  /\ MayFind(r, s \in InitOpen, opened, Op("seed") \ opened)
            /\ \A p \in call[r].products :
                  /\ MayFind(r, p \in InitCarries[s], stocks(p), Op("stock") \ stocks(p))
                  /\ MayFind(r, p \in InitWishlist, of("wish", p), of("unwish", p))

\* A reservation outlives its store and its wishlist items: nothing removes
\* it or changes what it is about, and once cancelled it stays cancelled.
ReservationsStand ==
    [][\A r \in Req :
          reservations[r] # None =>
              /\ reservations'[r] # None
              /\ \A f \in {"trip", "store", "products"} :
                    reservations'[r][f] = reservations[r][f]
              /\ reservations[r].status = "CANCELLED" =>
                    reservations'[r].status = "CANCELLED"]_reservations
=============================================================================
