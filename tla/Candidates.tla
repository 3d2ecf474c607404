----------------------------- MODULE Candidates -----------------------------
(***************************************************************************)
(* What a recommendation provider may choose from: which stores and which  *)
(* of their products, from shelf, the products of each open store, and     *)
(* from h, what was read of the user: wishes, bought and viewed products,  *)
(* hotel and flight. Stores and products are numbered in the order of      *)
(* their ids.                                                              *)
(***************************************************************************)
EXTENDS Naturals, FiniteSets

CONSTANTS
    Store, Product,
    TripStore,           \* stores of the types the feed of a trip has
    TripProduct,         \* products of the categories it has
    Airport, Terminal,   \* where store s is, or Null
    Place,               \* coordinates of hotels and phones
    Distance,            \* Distance[a][s]: km to store s, Null without coordinates
    Near, Far,           \* near a hotel; a distance beyond all others
    CandidateLimit,      \* products a recommendation may choose from
    TripProductLimit,    \* products a feed may choose from
    TripStoreLimit,      \* stores a feed may choose from
    Null, None

ASSUME CatalogueAssumption ==
    /\ Store \subseteq Nat /\ Product \subseteq Nat /\ Null \notin Place
    /\ IsFiniteSet(Store) /\ IsFiniteSet(Product) /\ Near \in Nat /\ Far \in Nat
    /\ TripStore \subseteq Store /\ TripProduct \subseteq Product
    /\ \A a \in Place, s \in Store : Distance[a][s] # Null => Distance[a][s] \in 0 .. Far - 1
    /\ CandidateLimit \in Nat /\ TripStoreLimit \in Nat
    /\ TripProductLimit \in 0 .. CandidateLimit

\* A plausible bug: what was looked at goes before what is wished for.
RankByViews(p, h) == IF p \in h.viewed THEN 0 ELSE IF p \in h.wishes THEN 1 ELSE 2

Rank(p, h) == IF p \in h.wishes THEN 0 ELSE IF p \in h.viewed THEN 1 ELSE 2

\* The first products of C: wished for, then viewed, then the others.
Prioritized(C, h, limit) ==
    LET earlier(p) == {o \in C : \/ Rank(o, h) < Rank(p, h)
                                 \/ Rank(o, h) = Rank(p, h) /\ o < p}
    IN  {p \in C : Cardinality(earlier(p)) < limit}

\* Each store with its candidates; a store without any is no candidate.
OfferedBy(shelf, products) ==
    [s \in {t \in DOMAIN shelf : shelf[t] \cap products # {}} |->
        shelf[s] \cap products]

\* A plausible bug: what was bought is offered again.
UnboughtKeepingViewed(products, h) == products \ (h.bought \ h.viewed)

Unbought(products, h) == products \ h.bought

Stock(shelf) == UNION {shelf[s] : s \in DOMAIN shelf}

Candidates(shelf, h) ==
    OfferedBy(shelf, Prioritized(Unbought(Stock(shelf), h), h, CandidateLimit))

-----------------------------------------------------------------------------
(* The feed of a trip.                                                     *)

Away(a, s) == IF a = Null THEN Null ELSE Distance[a][s]

OrFar(distance) == IF distance = Null THEN Far ELSE distance

Sooner(a, b) ==
    \E i \in DOMAIN a : a[i] < b[i] /\ \A j \in 1 .. i - 1 : a[j] = b[j]

\* The open stores nearest to a place, as many as the phone asks for.
NearbyStores(open, here, limit) ==
    LET located   == {s \in open : Away(here, s) # Null}
        key(s)    == <<Away(here, s), s>>
        sooner(s) == {t \in located : Sooner(key(t), key(s))}
    IN  {s \in located : Cardinality(sooner(s)) < limit}

\* A plausible bug: the feed is not limited to its categories.
EligibleOfAnyKind(products, h) == Unbought(products, h)

Eligible(products, h) == Unbought(products \cap TripProduct, h)

Wishful(s, shelf, h) == shelf[s] \cap h.wishes # {}

NearHotel(s, h) == Away(h.hotel, s) # Null /\ OrFar(Away(h.hotel, s)) <= Near

AtAirport(s, h) ==
    h.flight # None /\ h.flight.airport # Null /\ h.flight.airport = Airport[s]

AtTerminal(s, h) ==
    AtAirport(s, h) /\ h.flight.terminal # Null /\ h.flight.terminal = Terminal[s]

\* A plausible bug: where the phone is does not come first.
PriorityByHotel(s, shelf, h, here) ==
    IF NearHotel(s, h) THEN 0 ELSE IF AtAirport(s, h) THEN 1
    ELSE IF Wishful(s, shelf, h) THEN 2 ELSE 3

\* A plausible bug: a phone that does not say where it is, is asked all the same.
PriorityByPhone(s, shelf, h, here) ==
    IF Away(here, s) # Null THEN 0 ELSE IF Wishful(s, shelf, h) THEN 1
    ELSE IF NearHotel(s, h) THEN 2 ELSE IF AtAirport(s, h) THEN 3 ELSE 4

Priority(s, shelf, h, here) ==
    IF here = Null
    THEN IF NearHotel(s, h) THEN 0 ELSE IF AtAirport(s, h) THEN 1
         ELSE IF Wishful(s, shelf, h) THEN 2 ELSE 3
    ELSE IF Away(here, s) # Null THEN 0 ELSE IF Wishful(s, shelf, h) THEN 1
         ELSE IF NearHotel(s, h) THEN 2 ELSE IF AtAirport(s, h) THEN 3 ELSE 4

SortKey(s, shelf, h, here) ==
    << Priority(s, shelf, h, here), OrFar(Away(here, s)),
       IF AtTerminal(s, h) THEN 0 ELSE 1, OrFar(Away(h.hotel, s)), s >>

FirstStores(shelf, h, here) ==
    LET key(s)    == SortKey(s, shelf, h, here)
        sooner(s) == {t \in DOMAIN shelf : Sooner(key(t), key(s))}
    IN  {s \in DOMAIN shelf : Cardinality(sooner(s)) < TripStoreLimit}

\* The stores of the feed's kinds, with their products of its kinds.
TripShelf(shelf, h) ==
    [s \in {t \in DOMAIN shelf \cap TripStore : Eligible(shelf[t], h) # {}} |->
        Eligible(shelf[s], h)]

TripCandidates(shelf, h, here) ==
    LET eligible == TripShelf(shelf, h)
        first    == [s \in FirstStores(eligible, h, here) |-> eligible[s]]
    IN  OfferedBy(first, Prioritized(Stock(first), h, TripProductLimit))
=============================================================================
