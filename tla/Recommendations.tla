--------------------------- MODULE Recommendations ---------------------------
(***************************************************************************)
(* Recommendations and the feed of a trip, with the calls that change what *)
(* they read. Both run on the event loop: what they read, they read in     *)
(* several SELECTs without yielding, so that other handlers of the loop    *)
(* (receipts, frames) wait, and handlers on threads and the seed script    *)
(* do not. They then await the provider, which may answer anything.        *)
(***************************************************************************)
EXTENDS Requests, Candidates, Sequences

CONSTANTS
    Decisions,         \* what the provider may answer
    InitOpen, InitCarries, InitWishes, InitBought, InitHotel
                       \* what is stored already

Decision == Seq([store : Nat, products : SUBSET Nat])

Flight == [airport : {Airport[s] : s \in Store}, terminal : {Terminal[s] : s \in Store}]

Call ==
    [op : {"recommend"}]
      \cup [op : {"feed"}, trip : BOOLEAN, here : Place \cup {Null}]
      \cup [op : {"nearby"}, here : Place, limit : Nat \ {0}]
      \cup [op : {"wish", "unwish", "buy", "view"}, product : Product]
      \cup [op : {"leave"}, products : SUBSET Product]
      \cup [op : {"seed"}, open : SUBSET Store]
      \cup [op : {"stock"}, carries : [Store -> SUBSET Product]]
      \cup [op : {"hotel"}, place : Place \cup {Null}]
      \cup [op : {"flight"}, flight : Flight]

ASSUME RecommendationsAssumption ==
    /\ CallsOf \in [Req -> SUBSET Call]
    /\ Before \in [Req -> SUBSET Req]
    /\ Decisions \subseteq Decision
    /\ InitOpen \subseteq Store /\ InitCarries \in [Store -> SUBSET Product]
    /\ InitWishes \subseteq Product /\ InitBought \subseteq Product /\ InitHotel \in Place \cup {Null}

VARIABLES
    open,       \* the stores with is_active
    carries,    \* store_products: the products of each store
    wishes,     \* the products of wishlist_items
    bought,     \* the products of receipt_items
    viewed,     \* the products of the last ten sessions
    hotel,      \* where the hotel of the trip is, or Null
    flight,     \* the latest flight of the trip
    read,       \* what a handler has read of the user
    offered,    \* the candidates it sends to the provider
    told        \* what it answered: stores with products, or products with stores

database == <<open, carries, wishes, bought, viewed, hotel, flight>>
handler  == <<read, offered, told>>
vars     == <<database, handler, pc, call, answer>>

Nothing == [wishes |-> {}, bought |-> {}, viewed |-> {}, hotel |-> Null, flight |-> None]

TypeOK ==
    /\ open \subseteq Store /\ carries \in [Store -> SUBSET Product]
    /\ wishes \cup bought \cup viewed \subseteq Product
    /\ hotel \in Place \cup {Null} /\ flight \in Flight \cup {None}
    /\ pc \in [Req -> {"idle", "history", "trip", "flight", "stores", "provider", "done"}]
    /\ call \in [Req -> Call \cup {NoCall}]
    /\ answer \in [Req -> {"", "200", "201", "204", "404", "503"}]
    /\ \A r \in Req :
          /\ DOMAIN offered[r] \subseteq Store
          /\ \A s \in DOMAIN offered[r] :
                offered[r][s] \in (SUBSET Product) \ {{}}

Init ==
    /\ open = InitOpen /\ carries = InitCarries
    /\ wishes = InitWishes /\ bought = InitBought
    /\ viewed = {} /\ hotel = InitHotel /\ flight = None
    /\ RequestInit
    /\ read = [r \in Req |-> Nothing]
    /\ offered = [r \in Req |-> <<>>]
    /\ told = [r \in Req |-> <<>>]

Reading(r) == pc[r] \in {"history", "trip", "flight", "stores"}

LoopFree == \A r \in Req : ~Reading(r)

Asked(r, op) == \E c \in CallsOf[r] : c.op = op /\ Send(r, c)

-----------------------------------------------------------------------------
(* The calls that change what is read, each at its commit.                 *)

Wish(r) ==
    /\ Asked(r, "wish") /\ Reply(r, "201")
    /\ wishes' = wishes \cup {call'[r].product}
    /\ UNCHANGED <<open, carries, bought, viewed, hotel, flight, handler>>

Unwish(r) ==
    /\ Asked(r, "unwish") /\ Reply(r, "204")
    /\ wishes' = wishes \ {call'[r].product}
    /\ UNCHANGED <<open, carries, bought, viewed, hotel, flight, handler>>

Buy(r) ==
    /\ LoopFree /\ Asked(r, "buy") /\ Reply(r, "201")
    /\ bought' = bought \cup {call'[r].product}
    /\ UNCHANGED <<open, carries, wishes, viewed, hotel, flight, handler>>

View(r) ==
    /\ LoopFree /\ Asked(r, "view") /\ Reply(r, "200")
    /\ viewed' = viewed \cup {call'[r].product}
    /\ UNCHANGED <<open, carries, wishes, bought, hotel, flight, handler>>

\* A new session: the oldest of the ten is not among the last ten any more.
OpenSession(r) ==
    /\ Asked(r, "leave") /\ Reply(r, "201")
    /\ viewed' = viewed \ call'[r].products
    /\ UNCHANGED <<open, carries, wishes, bought, hotel, flight, handler>>

SeedStores(r) ==
    /\ Asked(r, "seed") /\ Reply(r, "200")
    /\ open' = call'[r].open
    /\ UNCHANGED <<carries, wishes, bought, viewed, hotel, flight, handler>>

SeedProducts(r) ==
    /\ Asked(r, "stock") /\ Reply(r, "200")
    /\ carries' = call'[r].carries
    /\ UNCHANGED <<open, wishes, bought, viewed, hotel, flight, handler>>

PutHotel(r) ==
    /\ Asked(r, "hotel") /\ Reply(r, "200")
    /\ hotel' = call'[r].place
    /\ UNCHANGED <<open, carries, wishes, bought, viewed, flight, handler>>

SetFlight(r) ==
    /\ Asked(r, "flight") /\ Reply(r, "200")
    /\ flight' = call'[r].flight
    /\ UNCHANGED <<open, carries, wishes, bought, viewed, hotel, handler>>

Change(r) ==
    \/ Wish(r) \/ Unwish(r) \/ Buy(r) \/ View(r) \/ OpenSession(r)
    \/ SeedStores(r) \/ SeedProducts(r) \/ PutHotel(r) \/ SetFlight(r)

-----------------------------------------------------------------------------
(* GET /me/recommendations and GET /me/trips/{tripId}/feed                 *)

Ask(r) ==
    /\ LoopFree
    /\ Asked(r, "recommend") \/ Asked(r, "feed")
    /\ IF call'[r].op = "feed" /\ ~call'[r].trip
       THEN Reply(r, "404") /\ UNCHANGED read
       ELSE Goto(r, "history") /\ read' = [read EXCEPT ![r].wishes = wishes]
    /\ UNCHANGED <<database, offered, told>>

\* Receipts cannot change between these SELECTs.
ReadHistory(r) ==
    /\ pc[r] = "history"
    /\ read' = [read EXCEPT ![r].bought = bought, ![r].viewed = viewed]
    /\ Goto(r, IF call[r].op = "feed" THEN "trip" ELSE "flight")
    /\ UNCHANGED <<database, call, offered, told>>

ReadTrip(r) ==
    /\ pc[r] = "trip"
    /\ read' = [read EXCEPT ![r].hotel = hotel]
    /\ Goto(r, "flight")
    /\ UNCHANGED <<database, call, offered, told>>

\* A feed has the flights already, loaded with the trip: the query for the
\* latest one says which, and does not refresh it.
ReadFlight(r) ==
    /\ pc[r] = "flight"
    /\ read' = [read EXCEPT ![r].flight = flight]
    /\ Goto(r, "stores")
    /\ UNCHANGED <<database, call, offered, told>>

\* Stores come with their products in one SELECT.
CandidatesOf(r) ==
    LET shelf == [s \in open |-> carries[s]]
    IN  IF call[r].op = "feed" THEN TripCandidates(shelf, read[r], call[r].here)
        ELSE Candidates(shelf, read[r])

\* Without candidates the provider is not asked.
ReadStores(r) ==
    /\ pc[r] = "stores"
    /\ offered' = [offered EXCEPT ![r] = CandidatesOf(r)]
    /\ IF DOMAIN offered'[r] = {} THEN Reply(r, "200") ELSE Goto(r, "provider")
    /\ UNCHANGED <<database, call, read, told>>

\* The provider timed out, failed, or answered outside its schema.
ProviderFails(r) ==
    /\ LoopFree /\ pc[r] = "provider"
    /\ Reply(r, "503")
    /\ UNCHANGED <<database, call, handler>>

\* A plausible bug: any known product goes with any known store.
ValidAnywhere(e, C) ==
    IF e.store \in DOMAIN C THEN e.products \cap UNION {C[s] : s \in DOMAIN C} ELSE {}

\* What entry e of a decision recommends of the candidates C.
Valid(e, C) == IF e.store \in DOMAIN C THEN e.products \cap C[e.store] ELSE {}

\* Of each store the first entry that recommends something.
Accepted(d, C) ==
    LET useful(s) == {i \in DOMAIN d : d[i].store = s /\ Valid(d[i], C) # {}}
        first(s)  == CHOOSE i \in useful(s) : \A j \in useful(s) : i <= j
    IN  [s \in {t \in DOMAIN C : useful(t) # {}} |-> Valid(d[first(s)], C)]

\* The feed lists products, each with the stores it was recommended for.
Feed(accepted) ==
    [p \in UNION {accepted[s] : s \in DOMAIN accepted} |->
        {s \in DOMAIN accepted : p \in accepted[s]}]

ProviderAnswers(r) ==
    /\ LoopFree /\ pc[r] = "provider"
    /\ \E d \in Decisions :
          LET accepted == Accepted(d, offered[r])
          IN  told' = [told EXCEPT ![r] =
                        IF call[r].op = "feed" THEN Feed(accepted) ELSE accepted]
    /\ Reply(r, "200")
    /\ UNCHANGED <<database, call, read, offered>>

-----------------------------------------------------------------------------
(* GET /stores/nearby, one SELECT                                          *)

Nearby(r) ==
    /\ Asked(r, "nearby") /\ Reply(r, "200")
    /\ told' = [told EXCEPT ![r] =
          [s \in NearbyStores(open, call'[r].here, call'[r].limit) |-> {}]]
    /\ UNCHANGED <<database, read, offered>>

Next ==
    \/ \E r \in Req :
          \/ Change(r) \/ Nearby(r)
          \/ Ask(r) \/ ReadHistory(r) \/ ReadTrip(r) \/ ReadFlight(r) \/ ReadStores(r)
          \/ ProviderFails(r) \/ ProviderAnswers(r)
    \/ AllAnswered /\ UNCHANGED vars

Spec == Init /\ [][Next]_vars

-----------------------------------------------------------------------------
(* Correctness.                                                            *)

\* The store and product pairs r recommended.
Recommended(r) ==
    IF call[r].op = "feed"
    THEN {sp \in Store \X Product : sp[2] \in DOMAIN told[r] /\ sp[1] \in told[r][sp[2]]}
    ELSE {sp \in Store \X Product : sp[1] \in DOMAIN told[r] /\ sp[2] \in told[r][sp[1]]}

\* A product was bought before r was sent.
BoughtBefore(p, r) ==
    p \in InitBought \/ \E q \in Before[r] : call[q].op = "buy" /\ call[q].product = p

\* A product that was on a receipt before is not recommended, however the
\* provider answers and however long it was looked at (_build_history).
NothingBoughtBefore ==
    \A r \in Req : \A sp \in Recommended(r) : ~BoughtBefore(sp[2], r)

\* A store is recommended for a product only if it was open and carried it
\* when r was sent, or was opened or stocked with it while r ran; a feed has
\* only stores and products of its kinds (_recommend_built).
OnlyWhatStoresSell ==
    \A r \in Req : \A sp \in Recommended(r) :
        /\ call[r].op = "feed" => sp[1] \in TripStore /\ sp[2] \in TripProduct
        /\ LET seeds == {q \in Req : call[q].op = "seed"}
               opens == {q \in seeds : sp[1] \in call[q].open}
           IN  MayFind(r, sp[1] \in InitOpen, opens, seeds \ opens)
        /\ LET restocks == {q \in Req : call[q].op = "stock"}
               stocks   == {q \in restocks : sp[2] \in call[q].carries[sp[1]]}
           IN  MayFind(r, sp[2] \in InitCarries[sp[1]], stocks, restocks \ stocks)

\* Store s was open, and is, whatever the seed script did.
OpenThroughout(s) ==
    s \in InitOpen /\ \A q \in Req : call[q].op = "seed" => s \in call[q].open

\* The products store s had, and has, whatever the seed script did.
AlwaysCarried(s) ==
    {p \in InitCarries[s] :
        \A q \in Req : call[q].op = "stock" => p \in call[q].carries[s]}

\* Product p was wished for before r, and still is, and nobody bought it.
WishedThroughout(p, r) ==
    /\ \/ p \in InitWishes
       \/ \E q \in Before[r] : call[q].op = "wish" /\ call[q].product = p
    /\ p \notin bought
    /\ \A q \in Req : call[q].op = "unwish" => call[q].product # p

\* Handler r of kind op has chosen its candidates.
HasOffered(r, op) == call[r].op = op /\ pc[r] \in {"provider", "done"}

OfferedProducts(r) == UNION {offered[r][s] : s \in DOMAIN offered[r]}

\* Candidates that were only viewed do not crowd out what is wished for: if a
\* wish is left out, the limit is full of others (_prioritize_product_ids).
WishesComeFirst ==
    \A r \in Req : HasOffered(r, "recommend") =>
        \A s \in Store : \A p \in AlwaysCarried(s) :
            OpenThroughout(s) /\ WishedThroughout(p, r) =>
                \/ p \in OfferedProducts(r)
                \/ Cardinality(OfferedProducts(r) \cap read[r].wishes) = CandidateLimit

\* Store t could have been in any feed, as could a product of it.
InEveryFeed(t) ==
    /\ t \in TripStore /\ OpenThroughout(t)
    /\ (AlwaysCarried(t) \cap TripProduct) \ bought # {}

\* Store t is left out, and not because its products are beyond the limit.
LeftOut(t, r) ==
    t \notin DOMAIN offered[r] /\ Cardinality(OfferedProducts(r)) < TripProductLimit

\* Without a phone's place, and with a hotel that stays where it is.
ByTheHotel(r) ==
    call[r].here = Null /\ \A q \in Req : call[q].op # "hotel"

\* Store t goes before store s: to a phone that says where it is, the nearer
\* one; otherwise, one near the hotel before any that is not.
GoesBefore(t, s, r) ==
    \/ /\ Away(call[r].here, t) # Null
       /\ OrFar(Away(call[r].here, t)) < OrFar(Away(call[r].here, s))
    \/ /\ ByTheHotel(r)
       /\ OrFar(Away(InitHotel, t)) <= Near /\ OrFar(Away(InitHotel, s)) > Near

\* A store that goes before another is left out of a feed that has the other
\* only if its products are, wished for or at the airport or not
\* (_trip_store_sort_key). Of the stores nearby none is left out but for as
\* many as were asked for, all as near (StoreService.list_nearby_stores).
NearerStoresComeFirst ==
    \A r \in Req :
        /\ HasOffered(r, "feed") =>
              \A s \in DOMAIN offered[r], t \in Store :
                  GoesBefore(t, s, r) /\ InEveryFeed(t) => ~LeftOut(t, r)
        /\ call[r].op = "nearby" =>
              \A t \in Store \ DOMAIN told[r] :
                  OpenThroughout(t) /\ Away(call[r].here, t) # Null =>
                      /\ Cardinality(DOMAIN told[r]) = call[r].limit
                      /\ \A s \in DOMAIN told[r] : ~GoesBefore(t, s, r)
=============================================================================
