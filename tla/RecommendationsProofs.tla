------------------------ MODULE RecommendationsProofs ------------------------
(***************************************************************************)
(* Proofs about Recommendations, for every set of requests, every finite   *)
(* catalogue, every limit and every answer of the provider.                *)
(***************************************************************************)
EXTENDS Recommendations, FiniteSetTheorems, TLAPS

-----------------------------------------------------------------------------
(* The first elements of a set in an order.                                *)

\* before[p] are the elements of C before p, in a total order.
Ordered(C, before) ==
    /\ \A p \in C : before[p] \subseteq C /\ p \notin before[p]
    /\ \A p, q \in C : p \in before[q] => before[p] \subseteq before[q]
    /\ \A p, q \in C : p # q => p \in before[q] \/ q \in before[p]

Foremost(C, before, n) == {p \in C : Cardinality(before[p]) < n}

\* A set of numbers has a least one.
LEMMA LeastNumber ==
    ASSUME NEW S \in SUBSET Nat, S # {}
    PROVE  \E n \in S : \A m \in S : n <= m
<1>1. PICK n \in S : \A m \in S : ~(<<m, n>> \in OpToRel(<, Nat))
  BY NatLessThanWellFounded, WFMin
<1>2. \A m \in S : ~(m < n)
  BY <1>1 DEF OpToRel
<1> QED
  BY <1>2

\* Whoever is before another has fewer before it.
LEMMA FewerBefore ==
    ASSUME NEW C, IsFiniteSet(C), NEW before, Ordered(C, before)
    PROVE  /\ \A p \in C : Cardinality(before[p]) \in Nat
           /\ \A p, q \in C : p \in before[q] =>
                 Cardinality(before[p]) < Cardinality(before[q])
<1>1. ASSUME NEW p \in C PROVE IsFiniteSet(before[p]) /\ Cardinality(before[p]) \in Nat
  <2>1. before[p] \in SUBSET C
    BY DEF Ordered
  <2>2. IsFiniteSet(before[p])
    BY <2>1, FS_Subset
  <2> QED
    BY <2>2, FS_CardinalityType
<1>2. ASSUME NEW p \in C, NEW q \in C, p \in before[q]
      PROVE  Cardinality(before[p]) < Cardinality(before[q])
  <2>1. before[p] \in SUBSET before[q] /\ before[p] # before[q]
    BY <1>2 DEF Ordered
  <2>2. /\ Cardinality(before[p]) <= Cardinality(before[q])
        /\ Cardinality(before[p]) # Cardinality(before[q])
    BY <1>1, <2>1, FS_Subset
  <2> QED
    BY <1>1, <2>2
<1> QED
  BY <1>1, <1>2

\* One more of the first is one more element, while there are any.
LEMMA OneMoreForemost ==
    ASSUME NEW C, IsFiniteSet(C), NEW before, Ordered(C, before),
           NEW n \in Nat, n < Cardinality(C), Cardinality(Foremost(C, before, n)) = n
    PROVE  Cardinality(Foremost(C, before, n + 1)) = n + 1
<1> DEFINE F == Foremost(C, before, n)
           size == [p \in C |-> Cardinality(before[p])]
<1>1. /\ \A p \in C : size[p] \in Nat
      /\ \A p, q \in C : p \in before[q] => size[p] < size[q]
      /\ \A p \in C : p \in F <=> size[p] < n
      /\ \A p \in C : p \in Foremost(C, before, n + 1) <=> size[p] < n + 1
      /\ F \subseteq C /\ Foremost(C, before, n + 1) \subseteq C
  BY FewerBefore DEF Foremost
<1>2. Cardinality(F) = n
  OBVIOUS
<1> HIDE DEF F, size
<1>3. IsFiniteSet(F) /\ C \ F # {}
  <2>1. IsFiniteSet(F)
    BY <1>1, FS_Subset
  <2>2. C \ F = {} => F = C
    BY <1>1
  <2> QED
    BY <1>2, <2>1, <2>2
<1>4. PICK x \in C \ F : \A y \in C \ F : size[x] <= size[y]
  <2> DEFINE sizes == {size[y] : y \in C \ F}
  <2>1. sizes \in SUBSET Nat /\ sizes # {}
    BY <1>3, <1>1
  <2>2. PICK m \in sizes : \A k \in sizes : m <= k
    BY <2>1, LeastNumber
  <2> QED
    BY <2>2
<1>5. before[x] = F
  <2>1. ASSUME NEW o \in before[x] PROVE o \in F
    <3>1. o \in C /\ size[o] < size[x]
      BY <1>1 DEF Ordered
    <3> QED
      BY <1>1, <1>4, <3>1
  <2>2. ASSUME NEW o \in F PROVE o \in before[x]
    <3>1. o \in C /\ o # x /\ ~(x \in before[o])
      BY <1>1, <1>4
    <3> QED
      BY <3>1 DEF Ordered
  <2> QED
    BY <2>1, <2>2
<1>6. size[x] = n
  BY <1>5 DEF size, F
<1>7. Foremost(C, before, n + 1) = F \cup {x}
  <2>1. ASSUME NEW y \in C, size[y] = n PROVE y = x
    <3>1. y \notin before[x] /\ x \notin before[y]
      BY <1>1, <1>6, <2>1
    <3> QED
      BY <3>1 DEF Ordered
  <2>2. \A y \in C : size[y] < n + 1 <=> size[y] < n \/ size[y] = n
    BY <1>1
  <2> QED
    BY <1>1, <1>6, <2>1, <2>2
<1>8. Cardinality(F \cup {x}) = n + 1
  BY <1>3, <1>2, <1>4, FS_AddElement
<1> QED
  BY <1>7, <1>8

\* The first n elements are n, if there are so many.
LEMMA ForemostCount ==
    ASSUME NEW C, IsFiniteSet(C), NEW before, Ordered(C, before),
           NEW n \in Nat, n <= Cardinality(C)
    PROVE  Cardinality(Foremost(C, before, n)) = n
<1> DEFINE wrong == {m \in Nat : m <= n /\ Cardinality(Foremost(C, before, m)) # m}
<1>1. SUFFICES ASSUME wrong # {} PROVE FALSE
  OBVIOUS
<1>2. PICK m \in wrong : \A k \in wrong : m <= k
  BY <1>1, LeastNumber
<1>3. m # 0
  <2>1. Foremost(C, before, 0) = {}
    BY FewerBefore DEF Foremost
  <2> QED
    BY <2>1, FS_EmptySet
<1>4. Cardinality(C) \in Nat
  BY FS_CardinalityType
<1>5. m - 1 \in Nat /\ m - 1 < Cardinality(C) /\ m - 1 \notin wrong
  BY <1>2, <1>3, <1>4
<1>6. Cardinality(Foremost(C, before, m - 1)) = m - 1
  BY <1>5
<1>7. Cardinality(Foremost(C, before, (m - 1) + 1)) = (m - 1) + 1
  BY <1>5, <1>6, OneMoreForemost
<1> QED
  BY <1>7

\* Who is left out of them is preceded by as many.
LEMMA LeftOutMeansFull ==
    ASSUME NEW C, IsFiniteSet(C), NEW before, Ordered(C, before),
           NEW n \in Nat, NEW p \in C \ Foremost(C, before, n)
    PROVE  Cardinality(Foremost(C, before, n)) = n
<1>1. before[p] \in SUBSET C /\ Cardinality(before[p]) \in Nat /\ Cardinality(C) \in Nat
  BY FewerBefore, FS_CardinalityType DEF Ordered
<1>2. n <= Cardinality(before[p]) /\ Cardinality(before[p]) <= Cardinality(C)
  BY <1>1, FS_Subset DEF Foremost
<1> QED
  BY <1>1, <1>2, ForemostCount

-----------------------------------------------------------------------------
(* The choice of candidates.                                               *)

\* The elements of C before each of its products.
Earlier(C, h) ==
    [p \in C |-> {o \in C : \/ Rank(o, h) < Rank(p, h)
                            \/ Rank(o, h) = Rank(p, h) /\ o < p}]

\* Wishes, then what was viewed, then the others, each in the order of ids.
LEMMA PrioritizedIsForemost ==
    ASSUME NEW C \in SUBSET Product, NEW h, NEW limit \in Nat
    PROVE  /\ IsFiniteSet(C) /\ Ordered(C, Earlier(C, h))
           /\ Prioritized(C, h, limit) = Foremost(C, Earlier(C, h), limit)
<1>1. IsFiniteSet(C)
  BY CatalogueAssumption, FS_Subset
<1>2. \A p \in C : p \in Nat /\ Rank(p, h) \in {0, 1, 2}
  BY CatalogueAssumption DEF Rank
<1>3. \A p, o \in C : o \in Earlier(C, h)[p] <=>
         Rank(o, h) < Rank(p, h) \/ (Rank(o, h) = Rank(p, h) /\ o < p)
  BY DEF Earlier
<1>4. \A p \in C : Earlier(C, h)[p] \subseteq C
  BY DEF Earlier
<1>5. Ordered(C, Earlier(C, h))
  BY <1>2, <1>3, <1>4 DEF Ordered
<1>6. Prioritized(C, h, limit) = Foremost(C, Earlier(C, h), limit)
  BY DEF Prioritized, Foremost, Earlier
<1> QED
  BY <1>1, <1>5, <1>6

\* A product is cut off only when the limit is reached.
LEMMA CutIsFull ==
    ASSUME NEW C \in SUBSET Product, NEW h, NEW limit \in Nat,
           NEW p \in C \ Prioritized(C, h, limit)
    PROVE  Cardinality(Prioritized(C, h, limit)) = limit
  BY PrioritizedIsForemost, LeftOutMeansFull

\* And a wish only when it is reached by wishes.
LEMMA WishCutByWishes ==
    ASSUME NEW C \in SUBSET Product, NEW h, NEW limit \in Nat,
           NEW p \in C \ Prioritized(C, h, limit), p \in h.wishes
    PROVE  Cardinality(Prioritized(C, h, limit) \cap h.wishes) = limit
<1>1. PICK before : before = Earlier(C, h)
  OBVIOUS
<1>2. /\ IsFiniteSet(C) /\ Ordered(C, before)
      /\ Prioritized(C, h, limit) = Foremost(C, before, limit)
  BY <1>1, PrioritizedIsForemost
<1>3. ASSUME NEW q \in Prioritized(C, h, limit) PROVE q \in h.wishes
  <2>1. /\ q \in C /\ Cardinality(before[q]) < limit
        /\ ~(Cardinality(before[p]) < limit) /\ q # p
    BY <1>2 DEF Foremost
  <2>2. /\ Cardinality(before[p]) \in Nat /\ Cardinality(before[q]) \in Nat
        /\ p \in before[q] => Cardinality(before[p]) < Cardinality(before[q])
    BY <1>2, <2>1, FewerBefore
  <2>3. p \notin before[q]
    BY <2>1, <2>2
  <2>4. q \in before[p]
    BY <1>2, <2>1, <2>3 DEF Ordered
  <2>5. Rank(q, h) < Rank(p, h) \/ Rank(q, h) = Rank(p, h)
    BY <1>1, <2>4 DEF Earlier
  <2> QED
    BY <2>5 DEF Rank
<1>4. Prioritized(C, h, limit) \cap h.wishes = Prioritized(C, h, limit)
  BY <1>3
<1> QED
  BY <1>4, CutIsFull

\* What is offered are the products that were chosen, where they are sold.
LEMMA OfferedIs ==
    ASSUME NEW shelf, NEW products
    PROVE  LET offer == OfferedBy(shelf, products)
           IN  /\ \A s : s \in DOMAIN offer <=>
                     s \in DOMAIN shelf /\ shelf[s] \cap products # {}
               /\ \A s \in DOMAIN offer : /\ offer[s] = shelf[s] \cap products
                                          /\ offer[s] # {}
               /\ products \subseteq Stock(shelf) =>
                     UNION {offer[s] : s \in DOMAIN offer} = products
<1>1. PICK offer : offer = OfferedBy(shelf, products)
  OBVIOUS
<1>2. /\ DOMAIN offer = {t \in DOMAIN shelf : shelf[t] \cap products # {}}
      /\ \A s \in DOMAIN offer : offer[s] = shelf[s] \cap products
  BY <1>1 DEF OfferedBy
<1>3. ASSUME products \subseteq Stock(shelf), NEW p \in products
      PROVE  p \in UNION {offer[s] : s \in DOMAIN offer}
  <2>1. PICK s \in DOMAIN shelf : p \in shelf[s]
    BY <1>3 DEF Stock
  <2> QED
    BY <1>2, <1>3, <2>1
<1> QED
  BY <1>1, <1>2, <1>3

-----------------------------------------------------------------------------
(* The order of stores.                                                    *)

Key(a, n) == DOMAIN a = 1 .. n /\ \A i \in 1 .. n : a[i] \in Nat

\* Keys are compared like words.
LEMMA SoonerIsTransitive ==
    ASSUME NEW n \in Nat, NEW a, NEW b, NEW c, Key(a, n), Key(b, n), Key(c, n),
           Sooner(a, b), Sooner(b, c)
    PROVE  Sooner(a, c)
<1>1. PICK i \in 1 .. n : a[i] < b[i] /\ \A j \in 1 .. i - 1 : a[j] = b[j]
  BY DEF Sooner, Key
<1>2. PICK k \in 1 .. n : b[k] < c[k] /\ \A j \in 1 .. k - 1 : b[j] = c[j]
  BY DEF Sooner, Key
<1>3. PICK m \in 1 .. n : m <= i /\ m <= k /\ (m = i \/ m = k)
  OBVIOUS
<1>4. \A j \in 1 .. m - 1 : a[j] = c[j]
  BY <1>1, <1>2, <1>3
<1>5. a[m] < c[m]
  <2>1. a[m] \in Nat /\ b[m] \in Nat /\ c[m] \in Nat
    BY DEF Key
  <2>2. a[m] < b[m] \/ a[m] = b[m]
    BY <1>1, <1>3
  <2>3. b[m] < c[m] \/ b[m] = c[m]
    BY <1>2, <1>3
  <2>4. a[m] < b[m] \/ b[m] < c[m]
    BY <1>1, <1>2, <1>3
  <2> QED
    BY <2>1, <2>2, <2>3, <2>4
<1> QED
  BY <1>4, <1>5 DEF Sooner, Key

\* A distance is a number, and far away if it is not known.
LEMMA DistanceType ==
    ASSUME NEW a \in Place \cup {Null}, NEW s \in Store
    PROVE  /\ OrFar(Away(a, s)) \in 0 .. Far
           /\ Away(a, s) # Null => Away(a, s) \in 0 .. Far - 1 /\ a \in Place
  BY CatalogueAssumption DEF OrFar, Away

\* The key of a store in a feed.
LEMMA SortKeyType ==
    ASSUME NEW s \in Store, NEW shelf, NEW h, h.hotel \in Place \cup {Null},
           NEW here \in Place \cup {Null}
    PROVE  Key(SortKey(s, shelf, h, here), 5)
<1>1. Priority(s, shelf, h, here) \in Nat
  BY DEF Priority
<1>2. OrFar(Away(here, s)) \in Nat /\ OrFar(Away(h.hotel, s)) \in Nat
  BY DistanceType
<1>3. s \in Nat
  BY CatalogueAssumption
<1>4. PICK a, b, c, d : /\ a = Priority(s, shelf, h, here) /\ b = OrFar(Away(here, s))
                        /\ c = (IF AtTerminal(s, h) THEN 0 ELSE 1)
                        /\ d = OrFar(Away(h.hotel, s))
  OBVIOUS
<1>5. a \in Nat /\ b \in Nat /\ c \in Nat /\ d \in Nat
  BY <1>1, <1>2, <1>4
<1>6. SortKey(s, shelf, h, here) = <<a, b, c, d, s>>
  BY <1>4 DEF SortKey
<1> QED
  BY <1>3, <1>5, <1>6 DEF Key

\* Of stores in a feed, one that goes before a chosen one is chosen too.
LEMMA SoonerIsFirst ==
    ASSUME NEW shelf, DOMAIN shelf \subseteq Store, NEW h, h.hotel \in Place \cup {Null},
           NEW here \in Place \cup {Null},
           NEW s \in FirstStores(shelf, h, here), NEW t \in DOMAIN shelf,
           Sooner(SortKey(t, shelf, h, here), SortKey(s, shelf, h, here))
    PROVE  t \in FirstStores(shelf, h, here)
<1> DEFINE key(q) == SortKey(q, shelf, h, here)
           sooner(q) == {o \in DOMAIN shelf : Sooner(key(o), key(q))}
<1>1. \A q : q \in FirstStores(shelf, h, here) <=>
         q \in DOMAIN shelf /\ Cardinality(sooner(q)) < TripStoreLimit
  BY DEF FirstStores
<1>2. s \in DOMAIN shelf /\ Cardinality(sooner(s)) < TripStoreLimit
  BY <1>1
<1>3. \A q \in DOMAIN shelf : Key(key(q), 5)
  BY SortKeyType
<1> HIDE DEF key
<1>4. sooner(t) \in SUBSET sooner(s)
  <2>1. Sooner(key(t), key(s))
    BY DEF key
  <2> SUFFICES ASSUME NEW o \in DOMAIN shelf, Sooner(key(o), key(t))
               PROVE  Sooner(key(o), key(s))
    OBVIOUS
  <2> QED
    BY <1>2, <1>3, <2>1, SoonerIsTransitive
<1>5. IsFiniteSet(sooner(s)) /\ IsFiniteSet(sooner(t))
  <2>1. sooner(s) \in SUBSET Store /\ sooner(t) \in SUBSET Store
    OBVIOUS
  <2> QED
    BY <2>1, CatalogueAssumption, FS_Subset
<1> HIDE DEF sooner
<1>6. /\ Cardinality(sooner(t)) <= Cardinality(sooner(s))
      /\ Cardinality(sooner(t)) \in Nat /\ Cardinality(sooner(s)) \in Nat
  BY <1>4, <1>5, FS_Subset, FS_CardinalityType
<1> QED
  BY <1>1, <1>2, <1>6, CatalogueAssumption

\* What goes before what: a store the phone is nearer to, and without a place
\* of the phone a store by the hotel before one that is not.
LEMMA NearerIsSooner ==
    ASSUME NEW shelf, NEW h, h.hotel \in Place \cup {Null}, NEW here \in Place \cup {Null},
           NEW s \in Store, NEW t \in Store,
           \/ /\ Away(here, t) # Null
              /\ OrFar(Away(here, t)) < OrFar(Away(here, s))
           \/ /\ here = Null
              /\ OrFar(Away(h.hotel, t)) <= Near /\ OrFar(Away(h.hotel, s)) > Near
    PROVE  Sooner(SortKey(t, shelf, h, here), SortKey(s, shelf, h, here))
<1>0. PICK a, b : a = SortKey(t, shelf, h, here) /\ b = SortKey(s, shelf, h, here)
  OBVIOUS
<1> SUFFICES Sooner(a, b)
  BY <1>0
<1>1. Key(a, 5) /\ Key(b, 5)
  BY <1>0, SortKeyType
<1>2. /\ a[1] = Priority(t, shelf, h, here) /\ a[2] = OrFar(Away(here, t))
      /\ b[1] = Priority(s, shelf, h, here) /\ b[2] = OrFar(Away(here, s))
  BY <1>0 DEF SortKey
<1>3. Near \in Nat /\ Far \in Nat
  BY CatalogueAssumption
<1>4. CASE /\ Away(here, t) # Null /\ OrFar(Away(here, t)) < OrFar(Away(here, s))
  <2>1. here # Null
    BY <1>4 DEF Away
  <2>2. a[1] = 0
    BY <1>2, <1>4, <2>1 DEF Priority
  <2>3. b[1] = 0 \/ b[1] > 0
    BY <1>1 DEF Key
  <2>4. 1 \in 1 .. 5 /\ 2 \in 1 .. 5 /\ 1 .. 1 - 1 = {} /\ 1 .. 2 - 1 = {1}
    OBVIOUS
  <2> QED
    BY <1>1, <1>2, <1>4, <2>2, <2>3, <2>4 DEF Sooner, Key
<1>5. CASE /\ here = Null
           /\ OrFar(Away(h.hotel, t)) <= Near /\ OrFar(Away(h.hotel, s)) > Near
  <2>1. /\ OrFar(Away(h.hotel, t)) \in 0 .. Far
        /\ OrFar(Away(h.hotel, s)) \in 0 .. Far
    BY DistanceType
  <2>2. Away(h.hotel, t) # Null
    <3>1. Away(h.hotel, t) = Null => OrFar(Away(h.hotel, t)) = Far
      BY DEF OrFar
    <3> QED
      BY <1>3, <1>5, <2>1, <3>1
  <2>3. a[1] = 0
    BY <1>2, <1>5, <2>2 DEF Priority, NearHotel
  <2>4. ~NearHotel(s, h)
    BY <1>3, <1>5, <2>1 DEF NearHotel
  <2>5. b[1] > 0
    BY <1>2, <1>5, <2>4 DEF Priority
  <2>6. 1 \in 1 .. 5 /\ 1 .. 1 - 1 = {}
    OBVIOUS
  <2> QED
    BY <1>1, <2>3, <2>5, <2>6 DEF Sooner, Key
<1> QED
  BY <1>4, <1>5

-----------------------------------------------------------------------------
(* The candidates, from what was read.                                     *)

Shelf(shelf) == DOMAIN shelf \subseteq Store /\ \A s \in DOMAIN shelf : shelf[s] \subseteq Product

\* The products of an offer.
ProductsOf(offer) == UNION {offer[s] : s \in DOMAIN offer}

\* Of a recommendation: unbought products of its stores, and wishes before
\* all others.
LEMMA CandidatesAre ==
    ASSUME NEW shelf, Shelf(shelf), NEW h
    PROVE  LET offer == Candidates(shelf, h)
           IN  /\ \A s \in DOMAIN offer :
                     /\ s \in DOMAIN shelf /\ offer[s] # {}
                     /\ offer[s] \subseteq shelf[s] \ h.bought
               /\ \A s \in DOMAIN shelf : \A p \in shelf[s] :
                     p \in h.wishes /\ p \notin h.bought =>
                        \/ p \in ProductsOf(offer)
                        \/ Cardinality(ProductsOf(offer) \cap h.wishes) = CandidateLimit
<1> DEFINE C == Unbought(Stock(shelf), h)
<1>1. PICK offer : offer = Candidates(shelf, h)
  OBVIOUS
<1>2. C \in SUBSET Product /\ C \subseteq Stock(shelf) /\ CandidateLimit \in Nat
  BY CatalogueAssumption DEF Shelf, Stock, Unbought
<1>3. PICK chosen : chosen = Prioritized(C, h, CandidateLimit)
  OBVIOUS
<1>4. chosen \subseteq C
  BY <1>3 DEF Prioritized
<1>5. offer = OfferedBy(shelf, chosen)
  BY <1>1, <1>3 DEF Candidates
<1>6. /\ \A s \in DOMAIN offer : /\ s \in DOMAIN shelf
                                 /\ offer[s] = shelf[s] \cap chosen /\ offer[s] # {}
      /\ ProductsOf(offer) = chosen
  BY <1>2, <1>4, <1>5, OfferedIs DEF ProductsOf
<1>7. chosen \cap h.bought = {}
  BY <1>4 DEF Unbought
<1>8. ASSUME NEW s \in DOMAIN shelf, NEW p \in shelf[s], p \in h.wishes, p \notin h.bought,
             p \notin chosen
      PROVE  Cardinality(chosen \cap h.wishes) = CandidateLimit
  <2>1. p \in C
    BY <1>8 DEF Unbought, Stock
  <2> HIDE DEF C
  <2> QED
    BY <1>2, <1>3, <1>8, <2>1, WishCutByWishes
<1> QED
  BY <1>1, <1>6, <1>7, <1>8

\* Of a feed: unbought products of its kinds in stores of its kinds; and a
\* store that goes before a chosen one is left out only by the limit.
LEMMA TripCandidatesAre ==
    ASSUME NEW shelf, Shelf(shelf), NEW h, h.hotel \in Place \cup {Null},
           NEW here \in Place \cup {Null}
    PROVE  LET offer == TripCandidates(shelf, h, here)
           IN  /\ \A s \in DOMAIN offer :
                     /\ s \in DOMAIN shelf \cap TripStore /\ offer[s] # {}
                     /\ offer[s] \subseteq (shelf[s] \cap TripProduct) \ h.bought
               /\ \A s \in DOMAIN offer, t \in DOMAIN shelf \cap TripStore :
                     /\ (shelf[t] \cap TripProduct) \ h.bought # {}
                     /\ \/ /\ Away(here, t) # Null
                           /\ OrFar(Away(here, t)) < OrFar(Away(here, s))
                        \/ /\ here = Null
                           /\ OrFar(Away(h.hotel, t)) <= Near
                           /\ OrFar(Away(h.hotel, s)) > Near
                     => \/ t \in DOMAIN offer
                        \/ Cardinality(ProductsOf(offer)) = TripProductLimit
<1>1. PICK offer : offer = TripCandidates(shelf, h, here)
  OBVIOUS
<1>2. PICK eligible : eligible = TripShelf(shelf, h)
  OBVIOUS
<1>3. PICK chosen : chosen = FirstStores(eligible, h, here)
  OBVIOUS
<1>4. PICK first : first = [s \in chosen |-> eligible[s]]
  OBVIOUS
<1>5. PICK products : products = Prioritized(Stock(first), h, TripProductLimit)
  OBVIOUS
<1>6. offer = OfferedBy(first, products)
  BY <1>1, <1>2, <1>3, <1>4, <1>5 DEF TripCandidates
<1>7. /\ DOMAIN eligible \subseteq DOMAIN shelf \cap TripStore
      /\ \A t \in DOMAIN shelf \cap TripStore :
            (shelf[t] \cap TripProduct) \ h.bought # {} => t \in DOMAIN eligible
      /\ \A s \in DOMAIN eligible : /\ eligible[s] = (shelf[s] \cap TripProduct) \ h.bought
                                    /\ eligible[s] # {}
  BY <1>2 DEF TripShelf, Eligible, Unbought
<1>8. chosen \subseteq DOMAIN eligible
  BY <1>3 DEF FirstStores
<1>9. DOMAIN first = chosen /\ \A s \in chosen : first[s] = eligible[s]
  BY <1>4
<1>10. /\ Stock(first) \in SUBSET Product /\ products \subseteq Stock(first)
       /\ TripProductLimit \in Nat
  <2>1. Stock(first) \subseteq Product
    BY <1>7, <1>8, <1>9 DEF Stock, Shelf
  <2> QED
    BY <1>5, <2>1, CatalogueAssumption DEF Prioritized
<1>11. /\ \A s : s \in DOMAIN offer <=> s \in chosen /\ eligible[s] \cap products # {}
       /\ \A s \in DOMAIN offer : /\ offer[s] = eligible[s] \cap products /\ offer[s] # {}
       /\ ProductsOf(offer) = products
  BY <1>6, <1>9, <1>10, OfferedIs DEF ProductsOf
<1>12. ASSUME NEW s \in DOMAIN offer, NEW t \in DOMAIN shelf \cap TripStore,
              (shelf[t] \cap TripProduct) \ h.bought # {},
              \/ /\ Away(here, t) # Null
                 /\ OrFar(Away(here, t)) < OrFar(Away(here, s))
              \/ /\ here = Null
                 /\ OrFar(Away(h.hotel, t)) <= Near
                 /\ OrFar(Away(h.hotel, s)) > Near,
              t \notin DOMAIN offer
       PROVE  Cardinality(products) = TripProductLimit
  <2>1. s \in chosen /\ t \in DOMAIN eligible /\ s \in Store /\ t \in Store
    BY <1>7, <1>8, <1>11, <1>12 DEF Shelf
  <2>2. Sooner(SortKey(t, eligible, h, here), SortKey(s, eligible, h, here))
    BY <1>12, <2>1, NearerIsSooner
  <2>3. DOMAIN eligible \subseteq Store
    BY <1>7 DEF Shelf
  <2>4. t \in chosen
    BY <1>3, <2>1, <2>2, <2>3, SoonerIsFirst
  <2>5. PICK p \in first[t] : p \notin products
    BY <1>7, <1>8, <1>9, <1>11, <1>12, <2>4
  <2>6. p \in Stock(first)
    BY <1>9, <2>4, <2>5 DEF Stock
  <2> QED
    BY <1>5, <1>10, <2>5, <2>6, CutIsFull
<1> QED
  BY <1>1, <1>7, <1>8, <1>11, <1>12

\* Of the stores nearby one that is located is left out only for as many that
\* are as near.
LEMMA NearbyAre ==
    ASSUME NEW S \in SUBSET Store, NEW here \in Place, NEW limit \in Nat
    PROVE  LET near == NearbyStores(S, here, limit)
           IN  /\ near \subseteq S
               /\ \A t \in S \ near : Away(here, t) # Null =>
                     /\ Cardinality(near) = limit
                     /\ \A s \in near : ~(OrFar(Away(here, t)) < OrFar(Away(here, s)))
<1> DEFINE located == {s \in S : Away(here, s) # Null}
           before  == [s \in located |->
                          {t \in located : Sooner(<<Away(here, t), t>>, <<Away(here, s), s>>)}]
<1>1. PICK near : near = NearbyStores(S, here, limit)
  OBVIOUS
<1>2. located \subseteq S /\ near = Foremost(located, before, limit)
  BY <1>1 DEF NearbyStores, Foremost
<1>3. IsFiniteSet(located)
  <2>1. located \in SUBSET Store
    OBVIOUS
  <2> QED
    BY <2>1, CatalogueAssumption, FS_Subset
<1>4. \A s \in located : Away(here, s) \in Nat /\ OrFar(Away(here, s)) = Away(here, s)
                         /\ s \in Nat
  BY DistanceType, CatalogueAssumption DEF OrFar
<1>5. ASSUME NEW a, NEW b, NEW s, NEW t
      PROVE  Sooner(<<a, t>>, <<b, s>>) <=> a < b \/ (a = b /\ t < s)
  <2>1. /\ DOMAIN <<a, t>> = {1, 2}
        /\ <<a, t>>[1] = a /\ <<a, t>>[2] = t /\ <<b, s>>[1] = b /\ <<b, s>>[2] = s
    OBVIOUS
  <2>2. 1 .. 1 - 1 = {} /\ 1 .. 2 - 1 = {1}
    OBVIOUS
  <2> QED
    BY <2>1, <2>2 DEF Sooner
<1>6. \A s, t \in located : t \in before[s] <=>
         Away(here, t) < Away(here, s) \/ (Away(here, t) = Away(here, s) /\ t < s)
  BY <1>5
<1>7. \A s \in located : before[s] \subseteq located
  OBVIOUS
<1> HIDE DEF located, before
<1>8. Ordered(located, before)
  BY <1>4, <1>6, <1>7 DEF Ordered
<1>9. ASSUME NEW t \in S \ near, Away(here, t) # Null
      PROVE  /\ Cardinality(near) = limit
             /\ \A s \in near : ~(OrFar(Away(here, t)) < OrFar(Away(here, s)))
  <2>1. t \in located \ Foremost(located, before, limit)
    BY <1>2, <1>9 DEF located
  <2>2. Cardinality(near) = limit
    BY <1>2, <1>3, <1>8, <2>1, LeftOutMeansFull
  <2>3. ASSUME NEW s \in near, OrFar(Away(here, t)) < OrFar(Away(here, s))
        PROVE  FALSE
    <3>1. s \in located /\ Cardinality(before[s]) < limit
      BY <1>2 DEF Foremost
    <3>2. t \in before[s]
      BY <1>4, <1>6, <2>1, <2>3, <3>1
    <3>3. /\ Cardinality(before[t]) < Cardinality(before[s])
          /\ Cardinality(before[t]) \in Nat /\ Cardinality(before[s]) \in Nat
      BY <1>3, <1>8, <2>1, <3>1, <3>2, FewerBefore
    <3> QED
      BY <2>1, <3>1, <3>3 DEF Foremost
  <2> QED
    BY <2>2, <2>3
<1>10. near \subseteq S
  BY <1>2 DEF Foremost
<1> QED
  BY <1>1, <1>9, <1>10

\* What is accepted of a decision was offered, whatever the decision says.
LEMMA AcceptedAre ==
    ASSUME NEW d \in Decision, NEW C
    PROVE  LET accepted == Accepted(d, C)
           IN  \A s \in DOMAIN accepted : s \in DOMAIN C /\ accepted[s] \subseteq C[s]
<1> DEFINE useful(s) == {i \in DOMAIN d : d[i].store = s /\ Valid(d[i], C) # {}}
           first(s)  == CHOOSE i \in useful(s) : \A j \in useful(s) : i <= j
<1>1. ASSUME NEW s \in DOMAIN C, useful(s) # {}
      PROVE  Valid(d[first(s)], C) \subseteq C[s]
  <2>1. useful(s) \in SUBSET Nat
    <3>1. DOMAIN d \subseteq Nat
      BY DEF Decision
    <3> QED
      BY <3>1
  <2>2. \E i \in useful(s) : \A j \in useful(s) : i <= j
    <3> HIDE DEF useful
    <3> QED
      BY <1>1, <2>1, LeastNumber
  <2>3. first(s) \in useful(s)
    <3> HIDE DEF useful
    <3> QED
      BY <2>2
  <2>4. d[first(s)].store = s
    BY <2>3
  <2> HIDE DEF first, useful
  <2> QED
    BY <2>4 DEF Valid
<1>2. Accepted(d, C) = [s \in {t \in DOMAIN C : useful(t) # {}} |-> Valid(d[first(s)], C)]
  BY DEF Accepted
<1> HIDE DEF useful, first
<1> QED
  BY <1>1, <1>2

-----------------------------------------------------------------------------
(* Type correctness.                                                       *)

Step == {"history", "trip", "flight", "stores", "provider"}

\* What a handler reads of the user.
History ==
    [wishes : SUBSET Product, bought : SUBSET Product, viewed : SUBSET Product,
     hotel : Place \cup {Null}, flight : Flight \cup {None}]

Begun(r) ==
    /\ IF pc[r] = "idle" THEN call[r] = NoCall ELSE call[r] \in Call
    /\ pc[r] \in Step => call[r].op \in {"recommend", "feed"}
    /\ pc[r] = "trip" => call[r].op = "feed"
    /\ pc[r] # "done" => told[r] = <<>>
    /\ pc[r] \notin {"provider", "done"} => offered[r] = <<>>

TypeInv ==
    /\ TypeOK
    /\ read \in [Req -> History]
    /\ DOMAIN offered = Req /\ DOMAIN told = Req
    /\ \A r \in Req : Begun(r)

\* Any step of a request.
Acts(r) ==
    \/ Change(r) \/ Nearby(r)
    \/ Ask(r) \/ ReadHistory(r) \/ ReadTrip(r) \/ ReadFlight(r) \/ ReadStores(r)
    \/ ProviderFails(r) \/ ProviderAnswers(r)

Codes == {"", "200", "201", "204", "404", "503"}

\* The fields of a call, by its operation.
LEMMA CallFields ==
    ASSUME NEW c \in Call
    PROVE  /\ c # NoCall
           /\ c.op = "feed" => c.here \in Place \cup {Null}
           /\ c.op = "nearby" => c.here \in Place /\ c.limit \in Nat
           /\ c.op \in {"wish", "unwish", "buy", "view"} => c.product \in Product
           /\ c.op = "leave" => c.products \subseteq Product
           /\ c.op = "seed" => c.open \subseteq Store
           /\ c.op = "stock" => c.carries \in [Store -> SUBSET Product]
           /\ c.op = "hotel" => c.place \in Place \cup {Null}
           /\ c.op = "flight" => c.flight \in Flight
  BY DEF Call, NoCall

\* A request that asks for op was not sent before, and those before it are over.
LEMMA AskedType ==
    ASSUME TypeInv, NEW r \in Req, NEW op, Asked(r, op)
    PROVE  /\ pc[r] = "idle" /\ call[r] = NoCall
           /\ call' \in [Req -> Call \cup {NoCall}]
           /\ call'[r] \in Call /\ call'[r].op = op
           /\ \A q \in Req \ {r} : call'[q] = call[q]
           /\ \A q \in Before[r] : pc[q] = "done"
<1>1. PICK c \in CallsOf[r] : c.op = op /\ Send(r, c)
  BY DEF Asked
<1>2. c \in Call
  BY RecommendationsAssumption
<1>3. /\ call' = [call EXCEPT ![r] = c] /\ pc[r] = "idle"
      /\ \A q \in Before[r] : pc[q] = "done"
  BY <1>1 DEF Send
<1>4. call[r] = NoCall /\ call \in [Req -> Call \cup {NoCall}]
  BY <1>3 DEF TypeInv, TypeOK, Begun
<1> QED
  BY <1>1, <1>2, <1>3, <1>4

\* A request that goes on, and one that answers.
LEMMA GotoType ==
    ASSUME TypeInv, NEW r \in Req, NEW step \in Step, Goto(r, step)
    PROVE  /\ pc' \in [Req -> Step \cup {"idle", "done"}] /\ pc'[r] = step
           /\ answer' \in [Req -> Codes]
           /\ \A q \in Req \ {r} : pc'[q] = pc[q]
<1>1. pc \in [Req -> Step \cup {"idle", "done"}] /\ pc' = [pc EXCEPT ![r] = step]
  BY DEF TypeInv, TypeOK, Goto, Step
<1> QED
  BY <1>1 DEF Goto, TypeInv, TypeOK, Codes

LEMMA ReplyType ==
    ASSUME TypeInv, NEW r \in Req, NEW code \in Codes, Reply(r, code)
    PROVE  /\ pc' \in [Req -> Step \cup {"idle", "done"}] /\ pc'[r] = "done"
           /\ answer' \in [Req -> Codes]
           /\ \A q \in Req \ {r} : pc'[q] = pc[q]
<1>1. /\ pc \in [Req -> Step \cup {"idle", "done"}] /\ answer \in [Req -> Codes]
      /\ pc' = [pc EXCEPT ![r] = "done"] /\ answer' = [answer EXCEPT ![r] = code]
  BY DEF TypeInv, TypeOK, Reply, Step, Codes
<1> QED
  BY <1>1

Moves(r) ==
    /\ pc' \in [Req -> Step \cup {"idle", "done"}] /\ pc'[r] # "idle"
    /\ answer' \in [Req -> Codes]
    /\ call' \in [Req -> Call \cup {NoCall}] /\ call'[r] \in Call
    /\ read' = [q \in Req |-> read'[q]] /\ DOMAIN offered' = Req /\ DOMAIN told' = Req
    /\ pc[r] # "done"
    /\ pc[r] # "idle" => call'[r] = call[r]
    /\ pc[r] = "idle" => /\ call[r] = NoCall
                         /\ \A q \in Before[r] : pc[q] = "done"
    /\ \A q \in Req \ {r} :
          /\ pc'[q] = pc[q] /\ call'[q] = call[q]
          /\ read'[q] = read[q] /\ offered'[q] = offered[q] /\ told'[q] = told[q]

\* A step is one of a request that is not over, and moves no other.
LEMMA OneMoves ==
    ASSUME TypeInv, NEW r \in Req, Acts(r)
    PROVE  Moves(r)
<1>1. \/ \E op : Asked(r, op)
      \/ pc[r] \in Step /\ UNCHANGED call
  BY DEF Acts, Change, Wish, Unwish, Buy, View, OpenSession, SeedStores, SeedProducts,
     PutHotel, SetFlight, Nearby, Ask, ReadHistory, ReadTrip, ReadFlight, ReadStores,
     ProviderFails, ProviderAnswers, Step
<1>2. /\ call' \in [Req -> Call \cup {NoCall}] /\ call'[r] \in Call
      /\ pc[r] # "done"
      /\ pc[r] # "idle" => call'[r] = call[r]
      /\ pc[r] = "idle" => /\ call[r] = NoCall
                           /\ \A q \in Before[r] : pc[q] = "done"
      /\ \A q \in Req \ {r} : call'[q] = call[q]
  <2>1. CASE \E op : Asked(r, op)
    BY <2>1, AskedType
  <2>2. CASE pc[r] \in Step /\ UNCHANGED call
    BY <2>2 DEF TypeInv, TypeOK, Begun, Step
  <2> QED
    BY <1>1, <2>1, <2>2
<1>3. \/ \E step \in Step : Goto(r, step)
      \/ \E code \in Codes : Reply(r, code)
  BY DEF Acts, Change, Wish, Unwish, Buy, View, OpenSession, SeedStores, SeedProducts,
     PutHotel, SetFlight, Nearby, Ask, ReadHistory, ReadTrip, ReadFlight, ReadStores,
     ProviderFails, ProviderAnswers, Step, Codes
<1>4. /\ pc' \in [Req -> Step \cup {"idle", "done"}] /\ pc'[r] # "idle"
      /\ answer' \in [Req -> Codes]
      /\ \A q \in Req \ {r} : pc'[q] = pc[q]
  BY <1>3, GotoType, ReplyType DEF Step
<1>5. /\ UNCHANGED offered \/ \E v : offered' = [offered EXCEPT ![r] = v]
      /\ UNCHANGED told \/ \E v : told' = [told EXCEPT ![r] = v]
  BY DEF Acts, Change, Wish, Unwish, Buy, View, OpenSession, SeedStores, SeedProducts,
     PutHotel, SetFlight, Nearby, Ask, ReadHistory, ReadTrip, ReadFlight, ReadStores,
     ProviderFails, ProviderAnswers, handler
<1>6. UNCHANGED read \/ \E v : read' = [read EXCEPT ![r] = v]
  <2>1. CASE Ask(r)
    BY <2>1 DEF Ask, TypeInv
  <2>2. CASE ReadHistory(r)
    <3>1. read' = [read EXCEPT ![r] = [[read[r] EXCEPT !.bought = bought] EXCEPT !.viewed = viewed]]
      BY <2>2 DEF ReadHistory, TypeInv
    <3> QED
      BY <3>1
  <2>3. CASE ReadTrip(r)
    BY <2>3 DEF ReadTrip
  <2>4. CASE ReadFlight(r)
    BY <2>4 DEF ReadFlight
  <2>5. CASE ~(Ask(r) \/ ReadHistory(r) \/ ReadTrip(r) \/ ReadFlight(r))
    BY <2>5 DEF Acts, Change, Wish, Unwish, Buy, View, OpenSession, SeedStores,
       SeedProducts, PutHotel, SetFlight, Nearby, ReadStores, ProviderFails,
       ProviderAnswers, handler
  <2> QED
    BY <2>1, <2>2, <2>3, <2>4, <2>5
<1>7. /\ DOMAIN offered' = Req /\ DOMAIN told' = Req
      /\ \A q \in Req \ {r} :
            read'[q] = read[q] /\ offered'[q] = offered[q] /\ told'[q] = told[q]
  BY <1>5, <1>6 DEF TypeInv
<1>8. read' = [q \in Req |-> read'[q]]
  <2>1. read = [q \in Req |-> read[q]]
    BY DEF TypeInv
  <2> QED
    BY <1>6, <2>1
<1> QED
  BY <1>2, <1>4, <1>7, <1>8 DEF Moves

\* Which calls change what.
DataMove(r) ==
    LET c == call'[r]
        Asks(op) == pc[r] = "idle" /\ c.op = op
    IN  /\ IF Asks("seed") THEN open' = c.open ELSE UNCHANGED open
        /\ IF Asks("stock") THEN carries' = c.carries ELSE UNCHANGED carries
        /\ bought' = IF Asks("buy") THEN bought \cup {c.product} ELSE bought
        /\ wishes' = IF Asks("wish") THEN wishes \cup {c.product}
                     ELSE IF Asks("unwish") THEN wishes \ {c.product} ELSE wishes
        /\ IF Asks("hotel") THEN hotel' = c.place ELSE UNCHANGED hotel
        /\ viewed' \subseteq Product /\ flight' \in Flight \cup {None}

\* Each call changes its table when it is sent, and no other step does.
LEMMA DataMoves ==
    ASSUME TypeInv, NEW r \in Req, Acts(r)
    PROVE  DataMove(r)
<1>1. ASSUME NEW op, Asked(r, op)
      PROVE  pc[r] = "idle" /\ call'[r].op = op /\ call'[r] \in Call
  BY <1>1, AskedType
<1>2. viewed \subseteq Product /\ flight \in Flight \cup {None}
  BY DEF TypeInv, TypeOK
<1>3. CASE Change(r)
  <2>1. CASE Wish(r)
    <3>1. pc[r] = "idle" /\ call'[r].op = "wish"
      BY <1>1, <2>1 DEF Wish
    <3> QED
      BY <1>2, <2>1, <3>1 DEF Wish, DataMove
  <2>2. CASE Unwish(r)
    <3>1. pc[r] = "idle" /\ call'[r].op = "unwish"
      BY <1>1, <2>2 DEF Unwish
    <3> QED
      BY <1>2, <2>2, <3>1 DEF Unwish, DataMove
  <2>3. CASE Buy(r)
    <3>1. pc[r] = "idle" /\ call'[r].op = "buy"
      BY <1>1, <2>3 DEF Buy
    <3> QED
      BY <1>2, <2>3, <3>1 DEF Buy, DataMove
  <2>4. CASE View(r)
    <3>1. pc[r] = "idle" /\ call'[r].op = "view" /\ call'[r].product \in Product
      BY <1>1, <2>4, CallFields DEF View
    <3> QED
      BY <1>2, <2>4, <3>1 DEF View, DataMove
  <2>5. CASE OpenSession(r)
    <3>1. pc[r] = "idle" /\ call'[r].op = "leave"
      BY <1>1, <2>5 DEF OpenSession
    <3> QED
      BY <1>2, <2>5, <3>1 DEF OpenSession, DataMove
  <2>6. CASE SeedStores(r)
    <3>1. pc[r] = "idle" /\ call'[r].op = "seed"
      BY <1>1, <2>6 DEF SeedStores
    <3> QED
      BY <1>2, <2>6, <3>1 DEF SeedStores, DataMove
  <2>7. CASE SeedProducts(r)
    <3>1. pc[r] = "idle" /\ call'[r].op = "stock"
      BY <1>1, <2>7 DEF SeedProducts
    <3> QED
      BY <1>2, <2>7, <3>1 DEF SeedProducts, DataMove
  <2>8. CASE PutHotel(r)
    <3>1. pc[r] = "idle" /\ call'[r].op = "hotel"
      BY <1>1, <2>8 DEF PutHotel
    <3> QED
      BY <1>2, <2>8, <3>1 DEF PutHotel, DataMove
  <2>9. CASE SetFlight(r)
    <3>1. pc[r] = "idle" /\ call'[r].op = "flight" /\ call'[r].flight \in Flight
      BY <1>1, <2>9, CallFields DEF SetFlight
    <3> QED
      BY <1>2, <2>9, <3>1 DEF SetFlight, DataMove
  <2> QED
    BY <1>3, <2>1, <2>2, <2>3, <2>4, <2>5, <2>6, <2>7, <2>8, <2>9 DEF Change
<1>4. CASE ~Change(r)
  <2>1. UNCHANGED database
    BY <1>4 DEF Acts, Nearby, Ask, ReadHistory, ReadTrip, ReadFlight, ReadStores,
       ProviderFails, ProviderAnswers, handler
  <2>2. pc[r] = "idle" => call'[r].op \in {"nearby", "recommend", "feed"}
    BY <1>1, <1>4 DEF Acts, Nearby, Ask, ReadHistory, ReadTrip, ReadFlight, ReadStores,
       ProviderFails, ProviderAnswers
  <2> QED
    BY <1>2, <2>1, <2>2 DEF DataMove, database
<1> QED
  BY <1>3, <1>4

\* The database keeps its types.
LEMMA DataTypes ==
    ASSUME TypeInv, NEW r \in Req, Acts(r)
    PROVE  /\ open' \subseteq Store /\ carries' \in [Store -> SUBSET Product]
           /\ wishes' \subseteq Product /\ bought' \subseteq Product /\ viewed' \subseteq Product
           /\ hotel' \in Place \cup {Null} /\ flight' \in Flight \cup {None}
           /\ bought \subseteq bought'
<1>1. DataMove(r) /\ call'[r] \in Call
  BY DataMoves, OneMoves DEF Moves
<1>2. PICK c : c = call'[r]
  OBVIOUS
<1>3. /\ c.op \in {"wish", "unwish", "buy"} => c.product \in Product
      /\ c.op = "seed" => c.open \subseteq Store
      /\ c.op = "stock" => c.carries \in [Store -> SUBSET Product]
      /\ c.op = "hotel" => c.place \in Place \cup {Null}
  BY <1>1, <1>2, CallFields
<1> QED
  BY <1>1, <1>2, <1>3 DEF DataMove, TypeInv, TypeOK

\* What is in the stores when a handler reads them.
LEMMA ShelfType ==
    ASSUME TypeInv
    PROVE  LET shelf == [s \in open |-> carries[s]]
           IN  Shelf(shelf)
  BY DEF TypeInv, TypeOK, Shelf

\* What ReadStores offers.
LEMMA OfferType ==
    ASSUME TypeInv, NEW r \in Req, call[r] \in Call, call[r].op \in {"recommend", "feed"}
    PROVE  /\ DOMAIN CandidatesOf(r) \subseteq open
           /\ \A s \in DOMAIN CandidatesOf(r) :
                 /\ CandidatesOf(r)[s] # {}
                 /\ CandidatesOf(r)[s] \subseteq carries[s] \ read[r].bought
                 /\ call[r].op = "feed" => s \in TripStore /\ CandidatesOf(r)[s] \subseteq TripProduct
<1>1. PICK shelf : shelf = [s \in open |-> carries[s]]
  OBVIOUS
<1>2. Shelf(shelf) /\ DOMAIN shelf = open /\ \A s \in open : shelf[s] = carries[s]
  BY <1>1, ShelfType
<1>3. PICK h \in History : h = read[r]
  BY DEF TypeInv
<1>4. h.hotel \in Place \cup {Null}
  BY DEF History
<1>5. CASE call[r].op = "feed"
  <2>1. PICK here \in Place \cup {Null} : here = call[r].here
    BY <1>5, CallFields
  <2>2. CandidatesOf(r) = TripCandidates(shelf, h, here)
    BY <1>1, <1>3, <1>5, <2>1 DEF CandidatesOf
  <2>3. PICK offer : offer = TripCandidates(shelf, h, here)
    OBVIOUS
  <2>4. \A s \in DOMAIN offer :
           /\ s \in DOMAIN shelf \cap TripStore /\ offer[s] # {}
           /\ offer[s] \subseteq (shelf[s] \cap TripProduct) \ h.bought
    BY <1>2, <1>4, <2>3, TripCandidatesAre
  <2> QED
    BY <1>2, <1>3, <2>2, <2>3, <2>4
<1>6. CASE call[r].op # "feed"
  <2>1. CandidatesOf(r) = Candidates(shelf, h)
    BY <1>1, <1>3, <1>6 DEF CandidatesOf
  <2>2. \A s \in DOMAIN Candidates(shelf, h) :
           /\ s \in DOMAIN shelf /\ Candidates(shelf, h)[s] # {}
           /\ Candidates(shelf, h)[s] \subseteq shelf[s] \ h.bought
    BY <1>2, CandidatesAre
  <2> QED
    BY <1>2, <1>3, <1>6, <2>1, <2>2
<1> QED
  BY <1>5, <1>6

\* What a handler does to its own row, at each of its steps.
HandlerMove(r) ==
    LET c == call'[r]
    IN  /\ pc[r] = "idle" =>
              /\ offered'[r] = offered[r]
              /\ \/ /\ c.op \in {"recommend", "feed"} /\ pc'[r] = "history"
                    /\ read'[r] = [read[r] EXCEPT !.wishes = wishes]
                    /\ told'[r] = told[r] /\ UNCHANGED wishes
                 \/ /\ c.op # "recommend" /\ pc'[r] = "done" /\ read'[r] = read[r]
                    /\ IF c.op = "nearby"
                       THEN told'[r] = [s \in NearbyStores(open, c.here, c.limit) |-> {}]
                       ELSE told'[r] = told[r]
        /\ pc[r] = "history" =>
              /\ pc'[r] = IF c.op = "feed" THEN "trip" ELSE "flight"
              /\ read'[r] = [read[r] EXCEPT !.bought = bought, !.viewed = viewed]
              /\ offered'[r] = offered[r] /\ told'[r] = told[r] /\ UNCHANGED bought
        /\ pc[r] = "trip" =>
              /\ pc'[r] = "flight" /\ read'[r] = [read[r] EXCEPT !.hotel = hotel]
              /\ offered'[r] = offered[r] /\ told'[r] = told[r] /\ UNCHANGED hotel
        /\ pc[r] = "flight" =>
              /\ pc'[r] = "stores" /\ read'[r] = [read[r] EXCEPT !.flight = flight]
              /\ offered'[r] = offered[r] /\ told'[r] = told[r]
        /\ pc[r] = "stores" =>
              /\ pc'[r] \in {"provider", "done"} /\ read'[r] = read[r]
              /\ offered'[r] = CandidatesOf(r) /\ told'[r] = told[r] /\ UNCHANGED database
        /\ pc[r] = "provider" =>
              /\ pc'[r] = "done" /\ read'[r] = read[r] /\ offered'[r] = offered[r]
              /\ \/ told'[r] = told[r]
                 \/ \E d \in Decision :
                       LET accepted == Accepted(d, offered[r])
                       IN  told'[r] = IF c.op = "feed" THEN Feed(accepted) ELSE accepted

\* Each step of a handler is that of where it is.
LEMMA HandlerMoves ==
    ASSUME TypeInv, NEW r \in Req, Acts(r)
    PROVE  HandlerMove(r)
<1>0. ASSUME NEW op, Asked(r, op)
      PROVE  pc[r] = "idle" /\ call'[r].op = op
  BY <1>0, AskedType
<1>1. /\ r \in DOMAIN pc /\ r \in DOMAIN read /\ r \in DOMAIN offered /\ r \in DOMAIN told
  BY DEF TypeInv, TypeOK
<1>2. /\ \A step : Goto(r, step) => pc'[r] = step
      /\ \A code : Reply(r, code) => pc'[r] = "done"
  BY <1>1 DEF Goto, Reply
<1>3. CASE Change(r)
  <2>1. \E op \in {"wish", "unwish", "buy", "view", "leave", "seed", "stock", "hotel", "flight"} :
           Asked(r, op)
    BY <1>3 DEF Change, Wish, Unwish, Buy, View, OpenSession, SeedStores, SeedProducts,
       PutHotel, SetFlight
  <2>2. UNCHANGED handler /\ \E code : Reply(r, code)
    BY <1>3 DEF Change, Wish, Unwish, Buy, View, OpenSession, SeedStores, SeedProducts,
       PutHotel, SetFlight
  <2> QED
    BY <1>0, <1>2, <2>1, <2>2 DEF HandlerMove, handler
<1>4. CASE Nearby(r)
  BY <1>0, <1>1, <1>2, <1>4 DEF Nearby, HandlerMove
<1>5. CASE Ask(r)
  <2>1. pc[r] = "idle" /\ call'[r].op \in {"recommend", "feed"}
    BY <1>0, <1>5 DEF Ask
  <2>2. UNCHANGED <<wishes, offered, told>>
    BY <1>5 DEF Ask, database
  <2>3. \/ call'[r].op = "feed" /\ pc'[r] = "done" /\ UNCHANGED read
        \/ /\ pc'[r] = "history"
           /\ read' = [read EXCEPT ![r].wishes = wishes]
    BY <1>2, <1>5 DEF Ask
  <2>4. read' = [read EXCEPT ![r].wishes = wishes] =>
           read'[r] = [read[r] EXCEPT !.wishes = wishes]
    BY <1>1
  <2> QED
    BY <2>1, <2>2, <2>3, <2>4 DEF HandlerMove
<1>6. CASE ReadHistory(r)
  <2>1. read' = [read EXCEPT ![r] = [read[r] EXCEPT !.bought = bought, !.viewed = viewed]]
    BY <1>6 DEF ReadHistory, TypeInv
  <2> QED
    BY <1>1, <1>2, <1>6, <2>1 DEF ReadHistory, HandlerMove, database
<1>7. CASE ReadTrip(r)
  BY <1>1, <1>2, <1>7 DEF ReadTrip, HandlerMove, database
<1>8. CASE ReadFlight(r)
  BY <1>1, <1>2, <1>8 DEF ReadFlight, HandlerMove, database
<1>9. CASE ReadStores(r)
  BY <1>1, <1>2, <1>9 DEF ReadStores, HandlerMove
<1>10. CASE ProviderFails(r)
  BY <1>1, <1>2, <1>10 DEF ProviderFails, HandlerMove, handler
<1>11. CASE ProviderAnswers(r)
  <2>1. /\ pc[r] = "provider" /\ pc'[r] = "done" /\ read'[r] = read[r]
        /\ offered'[r] = offered[r] /\ call'[r] = call[r]
    BY <1>2, <1>11 DEF ProviderAnswers
  <2>2. PICK d \in Decisions :
          told' = [told EXCEPT ![r] = IF call[r].op = "feed" THEN Feed(Accepted(d, offered[r]))
                                      ELSE Accepted(d, offered[r])]
    BY <1>11 DEF ProviderAnswers
  <2>3. d \in Decision
    BY RecommendationsAssumption
  <2>4. told'[r] = IF call'[r].op = "feed" THEN Feed(Accepted(d, offered[r]))
                   ELSE Accepted(d, offered[r])
    BY <1>1, <2>1, <2>2
  <2> QED
    BY <2>1, <2>3, <2>4 DEF HandlerMove
<1> QED
  BY <1>3, <1>4, <1>5, <1>6, <1>7, <1>8, <1>9, <1>10, <1>11 DEF Acts

\* What was read of the user keeps its type.
LEMMA ReadType ==
    ASSUME TypeInv, NEW r \in Req, Acts(r)
    PROVE  read' \in [Req -> History]
<1>1. read[r] \in History /\ read \in [Req -> History]
  BY DEF TypeInv
<1>2. /\ wishes \subseteq Product /\ bought \subseteq Product /\ viewed \subseteq Product
      /\ hotel \in Place \cup {Null} /\ flight \in Flight \cup {None}
  BY DEF TypeInv, TypeOK
<1>3. \/ read'[r] = read[r]
      \/ read'[r] = [read[r] EXCEPT !.wishes = wishes]
      \/ read'[r] = [read[r] EXCEPT !.bought = bought, !.viewed = viewed]
      \/ read'[r] = [read[r] EXCEPT !.hotel = hotel]
      \/ read'[r] = [read[r] EXCEPT !.flight = flight]
  <2>1. pc[r] \in {"idle", "history", "trip", "flight", "stores", "provider"}
    BY OneMoves DEF Moves, TypeInv, TypeOK
  <2>2. HandlerMove(r)
    BY HandlerMoves
  <2> QED
    BY <2>1, <2>2 DEF HandlerMove
<1>4. read'[r] \in History
  <2>1. PICK h \in History : h = read[r]
    BY <1>1
  <2>2. ASSUME NEW w \in SUBSET Product PROVE [h EXCEPT !.wishes = w] \in History
    BY DEF History
  <2>3. ASSUME NEW b \in SUBSET Product, NEW v \in SUBSET Product
        PROVE  [h EXCEPT !.bought = b, !.viewed = v] \in History
    BY DEF History
  <2>4. ASSUME NEW a \in Place \cup {Null} PROVE [h EXCEPT !.hotel = a] \in History
    BY DEF History
  <2>5. ASSUME NEW f \in Flight \cup {None} PROVE [h EXCEPT !.flight = f] \in History
    BY DEF History
  <2>6. /\ [h EXCEPT !.wishes = wishes] \in History
        /\ [h EXCEPT !.bought = bought, !.viewed = viewed] \in History
        /\ [h EXCEPT !.hotel = hotel] \in History
        /\ [h EXCEPT !.flight = flight] \in History
    BY <1>2, <2>2, <2>3, <2>4, <2>5
  <2> QED
    BY <1>1, <1>3, <2>1, <2>6
<1> QED
  BY <1>1, <1>4, OneMoves DEF Moves

\* What a handler offers are products of stores, and its calls are as Begun.
LEMMA OfferedType ==
    ASSUME TypeInv, NEW r \in Req, Acts(r)
    PROVE  \A q \in Req : /\ DOMAIN offered'[q] \subseteq Store
                          /\ \A s \in DOMAIN offered'[q] : offered'[q][s] \in (SUBSET Product) \ {{}}
<1>1. \A q \in Req : /\ DOMAIN offered[q] \subseteq Store
                     /\ \A s \in DOMAIN offered[q] : offered[q][s] \in (SUBSET Product) \ {{}}
  BY DEF TypeInv, TypeOK
<1>2. CASE pc[r] = "stores"
  <2>1. offered'[r] = CandidatesOf(r)
    BY <1>2, HandlerMoves DEF HandlerMove
  <2>2. call[r] \in Call /\ call[r].op \in {"recommend", "feed"}
    BY <1>2 DEF TypeInv, Begun, Step
  <2>3. /\ DOMAIN CandidatesOf(r) \subseteq open
        /\ \A s \in DOMAIN CandidatesOf(r) :
              CandidatesOf(r)[s] # {} /\ CandidatesOf(r)[s] \subseteq carries[s]
    BY <2>2, OfferType
  <2>4. open \subseteq Store /\ \A s \in Store : carries[s] \subseteq Product
    BY DEF TypeInv, TypeOK
  <2> QED
    BY <1>1, <2>1, <2>3, <2>4, OneMoves DEF Moves
<1>3. CASE pc[r] # "stores"
  <2>1. pc[r] \in {"idle", "history", "trip", "flight", "provider"}
    BY <1>3, OneMoves DEF Moves, TypeInv, TypeOK
  <2>2. offered'[r] = offered[r]
    BY <2>1, HandlerMoves DEF HandlerMove
  <2> QED
    BY <1>1, <2>2, OneMoves DEF Moves
<1> QED
  BY <1>2, <1>3

\* Calls and answers fit where their handlers are.
LEMMA BegunStays ==
    ASSUME TypeInv, NEW r \in Req, Acts(r)
    PROVE  \A q \in Req : Begun(q)'
<1>1. ASSUME NEW q \in Req \ {r} PROVE Begun(q)'
  BY OneMoves DEF Moves, TypeInv, Begun
<1> SUFFICES Begun(r)'
  BY <1>1
<1>2. Moves(r) /\ HandlerMove(r) /\ Begun(r)
  BY OneMoves, HandlerMoves DEF TypeInv
<1>3. pc[r] \in {"idle", "history", "trip", "flight", "stores", "provider"}
  BY <1>2 DEF Moves, TypeInv, TypeOK
<1>4. call'[r] \in Call /\ pc'[r] # "idle" /\ (pc[r] # "idle" => call'[r] = call[r])
  BY <1>2 DEF Moves
<1>5. CASE pc[r] = "idle"
  <2>1. offered[r] = <<>> /\ told[r] = <<>>
    BY <1>2, <1>5 DEF Begun
  <2> QED
    BY <1>2, <1>4, <1>5, <2>1 DEF HandlerMove, Begun, Step
<1>6. CASE pc[r] # "idle"
  <2>1. /\ call[r].op \in {"recommend", "feed"} /\ told[r] = <<>>
        /\ pc[r] # "provider" => offered[r] = <<>>
    BY <1>2, <1>3, <1>6 DEF Begun, Step
  <2>2. /\ pc'[r] \in Step \cup {"done"}
        /\ pc'[r] = "trip" => call[r].op = "feed"
        /\ pc'[r] # "done" => told'[r] = <<>>
        /\ pc'[r] \notin {"provider", "done"} => offered'[r] = <<>>
    BY <1>2, <1>3, <1>4, <1>6, <2>1 DEF HandlerMove, Step
  <2> QED
    BY <1>4, <1>6, <2>1, <2>2 DEF Begun
<1> QED
  BY <1>5, <1>6

\* Nothing is offered or told at the start.
LEMMA EmptyOffer == DOMAIN <<>> = {}
<1>1. <<>> \in Seq({}) /\ Len(<<>>) = 0
  OBVIOUS
<1> QED
  BY <1>1

\* The types hold at the start, and every step keeps them.
LEMMA TypeHolds == Init => TypeInv
<1> SUFFICES ASSUME Init PROVE TypeInv
  OBVIOUS
<1>1. Nothing \in History
  BY DEF Nothing, History
<1>2. read \in [Req -> History]
  BY <1>1 DEF Init
<1>3. \A r \in Req : offered[r] = <<>> /\ told[r] = <<>> /\ call[r] = NoCall /\ pc[r] = "idle"
  BY DEF Init, RequestInit
<1>4. TypeOK
  <2>1. /\ open \subseteq Store /\ carries \in [Store -> SUBSET Product]
        /\ wishes \cup bought \cup viewed \subseteq Product
        /\ hotel \in Place \cup {Null} /\ flight \in Flight \cup {None}
    BY RecommendationsAssumption DEF Init
  <2>2. /\ pc \in [Req -> {"idle", "history", "trip", "flight", "stores", "provider", "done"}]
        /\ call \in [Req -> Call \cup {NoCall}]
        /\ answer \in [Req -> {"", "200", "201", "204", "404", "503"}]
    BY DEF Init, RequestInit
  <2> QED
    BY <1>3, <2>1, <2>2, EmptyOffer DEF TypeOK
<1>5. \A r \in Req : Begun(r)
  BY <1>3 DEF Begun, Step
<1> QED
  BY <1>2, <1>4, <1>5 DEF TypeInv, Init

LEMMA StepKeepsType ==
    ASSUME TypeInv, [Next]_vars
    PROVE  TypeInv'
<1>1. ASSUME NEW r \in Req, Acts(r) PROVE TypeInv'
  <2>1. Moves(r)
    BY <1>1, OneMoves
  <2>2. TypeOK'
    <3>1. /\ open' \subseteq Store /\ carries' \in [Store -> SUBSET Product]
          /\ wishes' \cup bought' \cup viewed' \subseteq Product
          /\ hotel' \in Place \cup {Null} /\ flight' \in Flight \cup {None}
      BY <1>1, DataTypes
    <3> QED
      BY <1>1, <2>1, <3>1, OfferedType DEF Moves, TypeOK, Step, Codes
  <2> QED
    BY <1>1, <2>1, <2>2, ReadType, BegunStays DEF Moves, TypeInv
<1>2. CASE UNCHANGED vars
  <2>1. UNCHANGED <<open, carries, wishes, bought, viewed, hotel, flight>>
        /\ UNCHANGED <<read, offered, told, pc, call, answer>>
    BY <1>2 DEF vars, database, handler
  <2> QED
    BY <2>1 DEF TypeInv, TypeOK, Begun
<1> QED
  BY <1>1, <1>2 DEF Next, Acts

\* Every table, call and answer has its type, and what is offered to the
\* provider are products of stores, no store without one.
THEOREM TypeCorrect == Spec => []TypeOK
<1>1. TypeInv => TypeOK
  BY DEF TypeInv
<1> QED
  BY <1>1, TypeHolds, StepKeepsType, PTL DEF Spec

-----------------------------------------------------------------------------
(* What is stored, by the calls that were made.                            *)

\* A request is sent after those before it were answered.
SentInTurn == \A r \in Req : pc[r] # "idle" => \A q \in Before[r] : pc[q] = "done"

Base == TypeInv /\ SentInTurn

Op(op) == {q \in Req : call[q].op = op}
Opens(s) == {q \in Op("seed") : s \in call[q].open}
Closes(s) == Op("seed") \ Opens(s)
Stocks(s, p) == {q \in Op("stock") : p \in call[q].carries[s]}
Clears(s, p) == Op("stock") \ Stocks(s, p)

\* Nobody has taken v, or somebody gave it and nobody took it after that.
LastGiven(v, Initially, givers, takers) ==
    \/ v \in Initially /\ takers = {}
    \/ \E o \in givers : \A q \in takers : o \notin Before[q]

OpenInv == \A s \in open : LastGiven(s, InitOpen, Opens(s), Closes(s))

StockInv ==
    \A s \in Store : \A p \in carries[s] :
        LastGiven(p, InitCarries[s], Stocks(s, p), Clears(s, p))

\* What nobody took is there still.
ThroughInv ==
    \A s \in Store : (OpenThroughout(s) => s \in open) /\ AlwaysCarried(s) \subseteq carries[s]

Wished(p) ==
    /\ p \in InitWishes \/ \E q \in Op("wish") : call[q].product = p
    /\ \A q \in Op("unwish") : call[q].product # p

WishInv == \A p : Wished(p) => p \in wishes

Bought(p) == p \in InitBought \/ \E q \in Op("buy") : call[q].product = p

BoughtInv == \A p : Bought(p) => p \in bought

HotelInv == Op("hotel") = {} => hotel = InitHotel

DataInv == OpenInv /\ StockInv /\ ThroughInv /\ WishInv /\ BoughtInv /\ HotelInv

\* Who is not answered is before nobody that was sent.
LEMMA BeforeNobody ==
    ASSUME Base, NEW x \in Req, pc[x] # "done", NEW q \in Req, pc[q] # "idle"
    PROVE  x \notin Before[q]
  BY DEF Base, SentInTurn

\* Whoever asked for something was sent.
LEMMA AskedIsSent ==
    ASSUME Base, NEW q \in Req, call[q].op # "none"
    PROVE  call[q] # NoCall /\ pc[q] # "idle"
<1>1. call[q] # NoCall
  BY DEF NoCall
<1> QED
  BY <1>1 DEF Base, TypeInv, Begun

\* A step of x adds no request but x to those that ask for op, and takes none
\* away.
LEMMA SameRequests ==
    ASSUME Base, NEW x \in Req, Acts(x), NEW op, op # "none"
    PROVE  /\ \A q \in Op(op) : q \in Op(op)' /\ call'[q] = call[q]
           /\ \A q \in Op(op)' \ {x} : q \in Op(op) /\ call'[q] = call[q]
           /\ x \in Op(op)' <=> call'[x].op = op
           /\ pc[x] # "idle" \/ call'[x].op # op => Op(op)' = Op(op)
<1>0. Moves(x) /\ \A q \in Op(op) : pc[q] # "idle"
  BY OneMoves, AskedIsSent DEF Base, Op
<1>1. \A q \in Op(op) : q \in Op(op)' /\ call'[q] = call[q]
  BY <1>0 DEF Moves, Op
<1>2. \A q \in Op(op)' \ {x} : q \in Op(op) /\ call'[q] = call[q]
  BY <1>0 DEF Op, Moves
<1>3. ASSUME pc[x] # "idle" \/ call'[x].op # op, x \in Op(op)'
      PROVE  x \in Op(op)
  BY <1>0, <1>3 DEF Op, Moves
<1>4. x \in Op(op)' <=> call'[x].op = op
  BY DEF Op
<1> QED
  BY <1>1, <1>2, <1>3, <1>4

\* What a request gives when it is sent has been taken by nobody after it.
LEMMA GivenNow ==
    ASSUME Base, NEW x \in Req, pc[x] = "idle", NEW v, NEW Initially,
           NEW givers, NEW takers, x \in givers,
           \A q \in takers : q \in Req /\ pc[q] # "idle"
    PROVE  LastGiven(v, Initially, givers, takers)
  BY BeforeNobody DEF LastGiven

\* A seed of the stores opens and closes them after all that was sent before.
LEMMA StepOpenInv ==
    ASSUME Base, OpenInv, NEW x \in Req, Acts(x)
    PROVE  OpenInv'
<1>0. DataMove(x)
  BY DataMoves DEF Base
<1>1. CASE pc[x] # "idle" \/ call'[x].op # "seed"
  <2>1. Op("seed")' = Op("seed") /\ \A q \in Op("seed") : call'[q] = call[q]
    BY <1>1, SameRequests
  <2>2. \A s : Opens(s)' = Opens(s) /\ Closes(s)' = Closes(s)
    BY <2>1 DEF Opens, Closes
  <2>3. UNCHANGED open
    BY <1>0, <1>1 DEF DataMove
  <2> QED
    BY <2>2, <2>3 DEF OpenInv
<1>2. CASE pc[x] = "idle" /\ call'[x].op = "seed"
  <2>1. open' = call'[x].open
    BY <1>0, <1>2 DEF DataMove
  <2> SUFFICES ASSUME NEW s \in open'
               PROVE  LastGiven(s, InitOpen, Opens(s)', Closes(s)')
    BY DEF OpenInv
  <2>2. x \in Opens(s)'
    BY <1>2, <2>1 DEF Opens, Op
  <2>3. \A q \in Closes(s)' : q \in Req /\ pc[q] # "idle"
    <3>1. \A q \in Closes(s)' : q \in Op("seed")' \ {x}
      BY <2>2 DEF Closes
    <3>2. \A q \in Op("seed")' \ {x} : q \in Op("seed")
      BY SameRequests
    <3> QED
      BY <3>1, <3>2, AskedIsSent DEF Op
  <2> QED
    BY <1>2, <2>2, <2>3, GivenNow
<1> QED
  BY <1>1, <1>2

\* So does a seed of the products with the shelves of every store.
LEMMA StepStockInv ==
    ASSUME Base, StockInv, NEW x \in Req, Acts(x)
    PROVE  StockInv'
<1>0. DataMove(x)
  BY DataMoves DEF Base
<1>1. CASE pc[x] # "idle" \/ call'[x].op # "stock"
  <2>1. Op("stock")' = Op("stock") /\ \A q \in Op("stock") : call'[q] = call[q]
    BY <1>1, SameRequests
  <2>2. \A s, p : Stocks(s, p)' = Stocks(s, p) /\ Clears(s, p)' = Clears(s, p)
    BY <2>1 DEF Stocks, Clears
  <2>3. UNCHANGED carries
    BY <1>0, <1>1 DEF DataMove
  <2> QED
    BY <2>2, <2>3 DEF StockInv
<1>2. CASE pc[x] = "idle" /\ call'[x].op = "stock"
  <2>1. carries' = call'[x].carries
    BY <1>0, <1>2 DEF DataMove
  <2> SUFFICES ASSUME NEW s \in Store, NEW p \in carries'[s]
               PROVE  LastGiven(p, InitCarries[s], Stocks(s, p)', Clears(s, p)')
    BY DEF StockInv
  <2>2. x \in Stocks(s, p)'
    BY <1>2, <2>1 DEF Stocks, Op
  <2>3. \A q \in Clears(s, p)' : q \in Req /\ pc[q] # "idle"
    <3>1. \A q \in Clears(s, p)' : q \in Op("stock")' \ {x}
      BY <2>2 DEF Clears
    <3>2. \A q \in Op("stock")' \ {x} : q \in Op("stock")
      BY SameRequests
    <3> QED
      BY <3>1, <3>2, AskedIsSent DEF Op
  <2> QED
    BY <1>2, <2>2, <2>3, GivenNow
<1> QED
  BY <1>1, <1>2

\* What is open or carried throughout after a step was before it: requests
\* are only added.
LEMMA ThroughoutBefore ==
    ASSUME Base, NEW x \in Req, Acts(x), NEW s \in Store
    PROVE  /\ OpenThroughout(s)' =>
                 OpenThroughout(s) /\ (call'[x].op = "seed" => s \in call'[x].open)
           /\ \A p \in AlwaysCarried(s)' :
                 /\ p \in AlwaysCarried(s)
                 /\ call'[x].op = "stock" => p \in call'[x].carries[s]
<1>1. \A q \in Req : call[q].op \in {"seed", "stock"} => call'[q] = call[q]
  <2>1. ASSUME NEW q \in Req, call[q].op \in {"seed", "stock"} PROVE call'[q] = call[q]
    BY <2>1, AskedIsSent, OneMoves DEF Moves, Base
  <2> QED
    BY <2>1
<1>2. OpenThroughout(s)' => OpenThroughout(s) /\ (call'[x].op = "seed" => s \in call'[x].open)
  BY <1>1 DEF OpenThroughout
<1>3. \A p \in AlwaysCarried(s)' :
         p \in AlwaysCarried(s) /\ (call'[x].op = "stock" => p \in call'[x].carries[s])
  BY <1>1 DEF AlwaysCarried
<1> QED
  BY <1>2, <1>3

LEMMA StepThroughInv ==
    ASSUME Base, ThroughInv, NEW x \in Req, Acts(x)
    PROVE  ThroughInv'
<1> SUFFICES ASSUME NEW s \in Store
             PROVE  /\ OpenThroughout(s)' => s \in open'
                    /\ AlwaysCarried(s)' \subseteq carries'[s]
  BY DEF ThroughInv
<1>1. DataMove(x)
  BY DataMoves DEF Base
<1>2. OpenThroughout(s)' => s \in open'
  BY <1>1, ThroughoutBefore DEF ThroughInv, DataMove
<1>3. AlwaysCarried(s)' \subseteq carries'[s]
  BY <1>1, ThroughoutBefore DEF ThroughInv, DataMove
<1> QED
  BY <1>2, <1>3

\* A product is bought or wished for when it is asked for.
LEMMA StepUserInv ==
    ASSUME Base, WishInv, BoughtInv, HotelInv, NEW x \in Req, Acts(x)
    PROVE  WishInv' /\ BoughtInv' /\ HotelInv'
<1>1. DataMove(x)
  BY DataMoves DEF Base
<1>2. ASSUME NEW op \in {"wish", "unwish", "buy", "hotel"}
      PROVE  /\ \A q \in Op(op) : q \in Op(op)' /\ call'[q] = call[q]
             /\ \A q \in Op(op)' \ {x} : q \in Op(op) /\ call'[q] = call[q]
             /\ x \in Op(op)' <=> call'[x].op = op
             /\ pc[x] # "idle" => Op(op)' = Op(op)
  BY SameRequests
<1>3. ASSUME NEW p, Wished(p)' PROVE p \in wishes'
  <2>1. \A q \in Op("unwish") : call[q].product # p
    BY <1>2, <1>3 DEF Wished
  <2>2. call'[x].op = "unwish" => call'[x].product # p
    BY <1>2, <1>3 DEF Wished
  <2>3. CASE pc[x] = "idle" /\ call'[x].op = "wish" /\ call'[x].product = p
    BY <1>1, <2>3 DEF DataMove
  <2>4. CASE ~(pc[x] = "idle" /\ call'[x].op = "wish" /\ call'[x].product = p)
    <3>1. p \in InitWishes \/ \E q \in Op("wish") : call[q].product = p
      BY <1>2, <1>3, <2>4 DEF Wished
    <3>2. p \in wishes
      BY <2>1, <3>1 DEF WishInv, Wished
    <3> QED
      BY <1>1, <2>2, <3>2 DEF DataMove
  <2> QED
    BY <2>3, <2>4
<1>4. ASSUME NEW p, Bought(p)' PROVE p \in bought'
  <2>1. CASE pc[x] = "idle" /\ call'[x].op = "buy" /\ call'[x].product = p
    BY <1>1, <2>1 DEF DataMove
  <2>2. CASE ~(pc[x] = "idle" /\ call'[x].op = "buy" /\ call'[x].product = p)
    <3>1. p \in bought
      BY <1>2, <1>4, <2>2 DEF Bought, BoughtInv
    <3> QED
      BY <1>1, <3>1 DEF DataMove
  <2> QED
    BY <2>1, <2>2
<1>5. HotelInv'
  <2> SUFFICES ASSUME Op("hotel")' = {} PROVE hotel' = InitHotel
    BY DEF HotelInv
  <2>1. Op("hotel") = {} /\ call'[x].op # "hotel"
    BY <1>2
  <2> QED
    BY <1>1, <2>1 DEF DataMove, HotelInv
<1> QED
  BY <1>3, <1>4, <1>5 DEF WishInv, BoughtInv

-----------------------------------------------------------------------------
(* What a handler has read, and what it found.                             *)

FoundOpen(r, s) == MayFind(r, s \in InitOpen, Opens(s), Closes(s))
FoundStocked(r, s, p) == MayFind(r, p \in InitCarries[s], Stocks(s, p), Clears(s, p))

\* What a handler knows of the user, while it needs it.
Knows(r) ==
    LET h == read[r]
    IN  /\ pc[r] \in Step \ {"provider"} => \A p : WishedThroughout(p, r) => p \in h.wishes
        /\ pc[r] \in {"trip", "flight", "stores"} =>
              /\ h.bought \subseteq bought
              /\ \A p : BoughtBefore(p, r) => p \in h.bought
        /\ pc[r] \in {"flight", "stores"} /\ call[r].op = "feed" /\ Op("hotel") = {} =>
              h.hotel = InitHotel

ReadInv == \A r \in Req : Knows(r)

\* What is there when r looks, after all who gave it were sent, r may find.
LEMMA FindNow ==
    ASSUME NEW r, NEW v, NEW Initially, NEW givers, NEW takers,
           \A o \in givers : r \notin Before[o],
           LastGiven(v, Initially, givers, takers)
    PROVE  MayFind(r, v \in Initially, givers, takers)
  BY DEF LastGiven, MayFind

\* What r may find it may still find when more have given, and no more of
\* those before r have taken.
LEMMA FindLater ==
    ASSUME NEW r, NEW v, NEW Initially, NEW givers, NEW takers, NEW Givers,
           NEW Takers, MayFind(r, v \in Initially, givers, takers),
           givers \subseteq Givers, Takers \cap Before[r] \subseteq takers
    PROVE  MayFind(r, v \in Initially, Givers, Takers)
  BY DEF MayFind

\* What a handler finds in the stores it may find.
LEMMA FoundNow ==
    ASSUME Base, OpenInv, StockInv, NEW r \in Req, pc[r] # "done"
    PROVE  /\ \A s \in open : FoundOpen(r, s)
           /\ \A s \in Store : \A p \in carries[s] : FoundStocked(r, s, p)
<1>1. ASSUME NEW op, op # "none" PROVE \A q \in Op(op) : r \notin Before[q]
  BY <1>1, AskedIsSent, BeforeNobody DEF Op
<1>2. ASSUME NEW s \in open PROVE FoundOpen(r, s)
  <2>1. \A o \in Opens(s) : r \notin Before[o]
    BY <1>1 DEF Opens
  <2> QED
    BY <2>1, FindNow DEF OpenInv, FoundOpen
<1>3. ASSUME NEW s \in Store, NEW p \in carries[s] PROVE FoundStocked(r, s, p)
  <2>1. \A o \in Stocks(s, p) : r \notin Before[o]
    BY <1>1 DEF Stocks
  <2> QED
    BY <2>1, FindNow DEF StockInv, FoundStocked
<1> QED
  BY <1>2, <1>3

\* What r has found it may go on to find.
LEMMA FoundStays ==
    ASSUME Base, NEW x \in Req, Acts(x), NEW r \in Req, pc[r] # "idle", NEW s, NEW p
    PROVE  /\ FoundOpen(r, s) => FoundOpen(r, s)'
           /\ FoundStocked(r, s, p) => FoundStocked(r, s, p)'
<1>1. ASSUME NEW op \in {"seed", "stock"}
      PROVE  /\ \A q \in Op(op) : q \in Op(op)' /\ call'[q] = call[q]
             /\ \A q \in Op(op)' \cap Before[r] : q \in Op(op) /\ call'[q] = call[q]
  <2>1. x \notin Before[r]
    BY OneMoves, BeforeNobody DEF Base, Moves
  <2> QED
    BY <2>1, SameRequests
<1>2. /\ Opens(s) \subseteq Opens(s)'
      /\ Closes(s)' \cap Before[r] \subseteq Closes(s)
  BY <1>1 DEF Opens, Closes
<1>3. /\ Stocks(s, p) \subseteq Stocks(s, p)'
      /\ Clears(s, p)' \cap Before[r] \subseteq Clears(s, p)
  BY <1>1 DEF Stocks, Clears
<1> QED
  BY <1>2, <1>3, FindLater DEF FoundOpen, FoundStocked

\* Nothing that was bought before r, and nothing more that was wished for
\* throughout, comes to be so after r was sent; nor does a hotel that stays.
LEMMA UserBefore ==
    ASSUME Base, NEW x \in Req, Acts(x), NEW r \in Req, pc[r] # "idle", NEW p
    PROVE  /\ BoughtBefore(p, r)' <=> BoughtBefore(p, r)
           /\ WishedThroughout(p, r)' => WishedThroughout(p, r)
           /\ Op("hotel")' = {} => Op("hotel") = {}
           /\ call'[r] = call[r] /\ (ByTheHotel(r)' => ByTheHotel(r))
<1>1. \A q \in Before[r] : call'[q] = call[q]
  <2>1. Before[r] \subseteq Req /\ \A q \in Before[r] : pc[q] = "done"
    BY RecommendationsAssumption DEF Base, SentInTurn
  <2> QED
    BY <2>1, OneMoves DEF Base, Moves
<1>2. \A q \in Req : call[q].op \in {"unwish", "hotel"} => call'[q] = call[q]
  <2>1. ASSUME NEW q \in Req, call[q].op \in {"unwish", "hotel"} PROVE call'[q] = call[q]
    BY <2>1, AskedIsSent, OneMoves DEF Moves, Base
  <2> QED
    BY <2>1
<1>3. call'[r] = call[r]
  BY OneMoves DEF Base, Moves
<1>4. BoughtBefore(p, r)' <=> BoughtBefore(p, r)
  BY <1>1 DEF BoughtBefore
<1>5. bought \subseteq bought'
  BY DataTypes DEF Base
<1>6. WishedThroughout(p, r)' => WishedThroughout(p, r)
  BY <1>1, <1>2, <1>5 DEF WishedThroughout
<1>7. Op("hotel")' = {} => Op("hotel") = {}
  BY <1>2 DEF Op
<1>8. ByTheHotel(r)' => ByTheHotel(r)
  BY <1>2, <1>3 DEF ByTheHotel
<1> QED
  BY <1>3, <1>4, <1>6, <1>7, <1>8

\* A handler knows what it has read, and what it read still holds.
LEMMA StepReadInv ==
    ASSUME Base, DataInv, DataInv', ReadInv, NEW x \in Req, Acts(x)
    PROVE  ReadInv'
<1>1. Moves(x) /\ HandlerMove(x) /\ bought \subseteq bought'
  BY OneMoves, HandlerMoves, DataTypes DEF Base
<1>2. ASSUME NEW r \in Req \ {x} PROVE Knows(r)'
  <2>1. /\ pc'[r] = pc[r] /\ call'[r] = call[r] /\ read'[r] = read[r]
    BY <1>1 DEF Moves
  <2>2. Knows(r)
    BY DEF ReadInv
  <2>3. CASE pc[r] = "idle"
    BY <2>1, <2>3 DEF Knows, Step
  <2>4. CASE pc[r] # "idle"
    BY <1>1, <2>1, <2>2, <2>4, UserBefore DEF Knows
  <2> QED
    BY <2>3, <2>4
<1>3. Knows(x)'
  <2>1. Knows(x) /\ read[x] \in History
    BY DEF ReadInv, Base, TypeInv
  <2>2. pc[x] \in {"idle", "history", "trip", "flight", "stores", "provider"}
    BY <1>1 DEF Moves, Base, TypeInv, TypeOK
  <2>3. PICK h \in History : h = read[x]
    BY <2>1
  <2>4. CASE pc[x] = "idle"
    <3>1. \/ pc'[x] = "history" /\ read'[x] = [h EXCEPT !.wishes = wishes] /\ UNCHANGED wishes
          \/ pc'[x] = "done"
      BY <1>1, <2>3, <2>4 DEF HandlerMove
    <3>2. CASE pc'[x] = "history" /\ read'[x] = [h EXCEPT !.wishes = wishes] /\ UNCHANGED wishes
      <4>1. \A p : WishedThroughout(p, x)' => p \in wishes'
        <5>1. Before[x] \subseteq Req
          BY RecommendationsAssumption
        <5> QED
          BY <5>1 DEF WishedThroughout, DataInv, WishInv, Wished, Op
      <4>2. read'[x].wishes = wishes'
        BY <3>2 DEF History
      <4> QED
        BY <3>2, <4>1, <4>2 DEF Knows
    <3>3. CASE pc'[x] = "done"
      BY <3>3 DEF Knows, Step
    <3> QED
      BY <3>1, <3>2, <3>3
  <2>5. CASE pc[x] = "history"
    <3>1. /\ pc'[x] = IF call[x].op = "feed" THEN "trip" ELSE "flight"
          /\ read'[x] = [h EXCEPT !.bought = bought, !.viewed = viewed]
          /\ bought' = bought /\ call'[x] = call[x]
      BY <1>1, <2>3, <2>5 DEF HandlerMove, Moves
    <3>2. read'[x].wishes = h.wishes /\ read'[x].bought = bought'
      BY <3>1 DEF History
    <3>3. \A p : BoughtBefore(p, x)' => p \in bought'
      <4>1. Before[x] \subseteq Req
        BY RecommendationsAssumption
      <4> QED
        BY <4>1 DEF BoughtBefore, DataInv, BoughtInv, Bought, Op
    <3>4. \A p : WishedThroughout(p, x)' => p \in h.wishes
      BY <2>1, <2>3, <2>5, UserBefore DEF Knows, Step
    <3> QED
      BY <3>1, <3>2, <3>3, <3>4 DEF Knows
  <2>6. CASE pc[x] \in {"trip", "flight"}
    <3>1. /\ \/ pc[x] = "trip" /\ pc'[x] = "flight" /\ read'[x] = [h EXCEPT !.hotel = hotel]
                               /\ hotel' = hotel
             \/ pc[x] = "flight" /\ pc'[x] = "stores" /\ read'[x] = [h EXCEPT !.flight = flight]
          /\ call'[x] = call[x]
      BY <1>1, <2>3, <2>6 DEF HandlerMove, Moves
    <3>2. /\ read'[x].wishes = h.wishes /\ read'[x].bought = h.bought
          /\ pc[x] = "trip" => read'[x].hotel = hotel'
          /\ pc[x] = "flight" => read'[x].hotel = h.hotel
      BY <3>1 DEF History
    <3>3. /\ \A p : WishedThroughout(p, x)' => p \in h.wishes
          /\ h.bought \subseteq bought'
          /\ \A p : BoughtBefore(p, x)' => p \in h.bought
          /\ pc[x] = "flight" /\ call[x].op = "feed" /\ Op("hotel")' = {} => h.hotel = InitHotel
      BY <1>1, <2>1, <2>3, <2>6, UserBefore DEF Knows, Step
    <3>4. Op("hotel")' = {} => hotel' = InitHotel
      BY DEF DataInv, HotelInv
    <3> QED
      BY <2>6, <3>1, <3>2, <3>3, <3>4 DEF Knows
  <2>7. CASE pc[x] \in {"stores", "provider"}
    <3>1. pc'[x] \in {"provider", "done"}
      BY <1>1, <2>7 DEF HandlerMove
    <3> QED
      BY <3>1 DEF Knows, Step
  <2> QED
    BY <2>2, <2>4, <2>5, <2>6, <2>7
<1> QED
  BY <1>2, <1>3 DEF ReadInv

-----------------------------------------------------------------------------
(* What is offered to the provider, and told to the client.                *)

\* What handler r may offer: nothing bought before, nothing it did not find,
\* wishes before all else, and in a feed nearer stores before others.
OffersFound(r, offer) ==
    \A s \in DOMAIN offer : \A p \in offer[s] :
        /\ s \in Store /\ ~BoughtBefore(p, r) /\ FoundOpen(r, s) /\ FoundStocked(r, s, p)
        /\ call[r].op = "feed" => s \in TripStore /\ p \in TripProduct

OffersWishes(r, offer) ==
    call[r].op = "recommend" =>
        \A s \in Store : \A p \in AlwaysCarried(s) :
            OpenThroughout(s) /\ WishedThroughout(p, r) =>
                \/ p \in ProductsOf(offer)
                \/ Cardinality(ProductsOf(offer) \cap read[r].wishes) = CandidateLimit

OffersNearer(r, offer) ==
    call[r].op = "feed" =>
        \A s \in DOMAIN offer, t \in Store :
            GoesBefore(t, s, r) /\ InEveryFeed(t) =>
                \/ t \in DOMAIN offer
                \/ Cardinality(ProductsOf(offer)) = TripProductLimit

Offers(r, offer) == OffersFound(r, offer) /\ OffersWishes(r, offer) /\ OffersNearer(r, offer)

OfferInv == \A r \in Req : pc[r] \in {"provider", "done"} => Offers(r, offered[r])

\* What it tells are products it offered, or the stores nearby.
TellsOffered(r, offer, tell) ==
    IF call[r].op = "feed"
    THEN \A p \in DOMAIN tell : \A s \in tell[p] : s \in DOMAIN offer /\ p \in offer[s]
    ELSE \A s \in DOMAIN tell : \A p \in tell[s] : s \in DOMAIN offer /\ p \in offer[s]

TellsNearer(r, near) ==
    call[r].op = "nearby" =>
        \A t \in Store \ near : OpenThroughout(t) /\ Away(call[r].here, t) # Null =>
            /\ Cardinality(near) = call[r].limit
            /\ \A s \in near : ~GoesBefore(t, s, r)

TellInv ==
    \A r \in Req : pc[r] = "done" =>
        TellsOffered(r, offered[r], told[r]) /\ TellsNearer(r, DOMAIN told[r])

\* What is found of unbought products, whoever asks.
LEMMA FoundIsOffered ==
    ASSUME Base, DataInv, ReadInv, NEW r \in Req, pc[r] = "stores"
    PROVE  OffersFound(r, CandidatesOf(r))
<1>1. call[r] \in Call /\ call[r].op \in {"recommend", "feed"}
  BY DEF Base, TypeInv, Begun, Step
<1>2. PICK offer : offer = CandidatesOf(r)
  OBVIOUS
<1>3. /\ DOMAIN offer \subseteq open
      /\ \A s \in DOMAIN offer :
            /\ offer[s] \subseteq carries[s] \ read[r].bought
            /\ call[r].op = "feed" => s \in TripStore /\ offer[s] \subseteq TripProduct
  BY <1>1, <1>2, OfferType DEF Base
<1>4. \A p : BoughtBefore(p, r) => p \in read[r].bought
  BY DEF ReadInv, Knows
<1>5. open \subseteq Store
  BY DEF Base, TypeInv, TypeOK
<1>6. /\ \A s \in open : FoundOpen(r, s)
      /\ \A s \in Store : \A p \in carries[s] : FoundStocked(r, s, p)
  BY FoundNow DEF DataInv
<1> SUFFICES OffersFound(r, offer)
  BY <1>2
<1> QED
  BY <1>3, <1>4, <1>5, <1>6 DEF OffersFound

\* A recommendation has the wishes that were open to it, or others.
LEMMA WishesAreOffered ==
    ASSUME Base, DataInv, ReadInv, NEW r \in Req, pc[r] = "stores"
    PROVE  OffersWishes(r, CandidatesOf(r))
<1> SUFFICES ASSUME call[r].op = "recommend" PROVE OffersWishes(r, CandidatesOf(r))
  BY DEF OffersWishes
<1>1. PICK shelf : shelf = [s \in open |-> carries[s]]
  OBVIOUS
<1>2. Shelf(shelf) /\ DOMAIN shelf = open /\ \A s \in open : shelf[s] = carries[s]
  BY <1>1, ShelfType DEF Base
<1>3. PICK h : h = read[r]
  OBVIOUS
<1>4. CandidatesOf(r) = Candidates(shelf, h)
  BY <1>1, <1>3 DEF CandidatesOf
<1>5. \A s \in DOMAIN shelf : \A p \in shelf[s] :
         p \in h.wishes /\ p \notin h.bought =>
            \/ p \in ProductsOf(Candidates(shelf, h))
            \/ Cardinality(ProductsOf(Candidates(shelf, h)) \cap h.wishes) = CandidateLimit
  BY <1>2, CandidatesAre
<1>6. /\ \A p : WishedThroughout(p, r) => p \in h.wishes
      /\ h.bought \subseteq bought
  BY <1>3 DEF ReadInv, Knows, Step
<1>7. ASSUME NEW s \in Store, NEW p \in AlwaysCarried(s), OpenThroughout(s),
             WishedThroughout(p, r)
      PROVE  s \in DOMAIN shelf /\ p \in shelf[s] /\ p \in h.wishes /\ p \notin h.bought
  <2>1. s \in open /\ p \in carries[s]
    BY <1>7 DEF DataInv, ThroughInv
  <2>2. p \notin bought
    BY <1>7 DEF WishedThroughout
  <2> QED
    BY <1>2, <1>6, <1>7, <2>1, <2>2
<1> QED
  BY <1>3, <1>4, <1>5, <1>7 DEF OffersWishes

\* A feed has the stores that go before its own, within its limits.
LEMMA NearerAreOffered ==
    ASSUME Base, DataInv, ReadInv, NEW r \in Req, pc[r] = "stores"
    PROVE  OffersNearer(r, CandidatesOf(r))
<1> SUFFICES ASSUME call[r].op = "feed" PROVE OffersNearer(r, CandidatesOf(r))
  BY DEF OffersNearer
<1>1. PICK shelf : shelf = [s \in open |-> carries[s]]
  OBVIOUS
<1>2. Shelf(shelf) /\ DOMAIN shelf = open /\ \A s \in open : shelf[s] = carries[s]
  BY <1>1, ShelfType DEF Base
<1>3. PICK h \in History : h = read[r]
  BY DEF Base, TypeInv
<1>4. PICK here \in Place \cup {Null} : here = call[r].here
  <2>1. call[r] \in Call
    BY DEF Base, TypeInv, Begun
  <2> QED
    BY <2>1, CallFields
<1>5. CandidatesOf(r) = TripCandidates(shelf, h, here)
  BY <1>1, <1>3, <1>4 DEF CandidatesOf
<1>6. h.hotel \in Place \cup {Null}
  BY DEF History
<1>7. \A s \in DOMAIN TripCandidates(shelf, h, here), t \in DOMAIN shelf \cap TripStore :
         /\ (shelf[t] \cap TripProduct) \ h.bought # {}
         /\ \/ /\ Away(here, t) # Null
               /\ OrFar(Away(here, t)) < OrFar(Away(here, s))
            \/ /\ here = Null
               /\ OrFar(Away(h.hotel, t)) <= Near
               /\ OrFar(Away(h.hotel, s)) > Near
         => \/ t \in DOMAIN TripCandidates(shelf, h, here)
            \/ Cardinality(ProductsOf(TripCandidates(shelf, h, here))) = TripProductLimit
  BY <1>2, <1>6, TripCandidatesAre
<1>8. h.bought \subseteq bought /\ (Op("hotel") = {} => h.hotel = InitHotel)
  BY <1>3 DEF ReadInv, Knows
<1>9. ASSUME NEW s, NEW t \in Store, GoesBefore(t, s, r), InEveryFeed(t)
      PROVE  /\ t \in DOMAIN shelf \cap TripStore
             /\ (shelf[t] \cap TripProduct) \ h.bought # {}
             /\ \/ /\ Away(here, t) # Null
                   /\ OrFar(Away(here, t)) < OrFar(Away(here, s))
                \/ /\ here = Null
                   /\ OrFar(Away(h.hotel, t)) <= Near
                   /\ OrFar(Away(h.hotel, s)) > Near
  <2>1. t \in open /\ t \in TripStore /\ AlwaysCarried(t) \subseteq carries[t]
    BY <1>9 DEF DataInv, ThroughInv, InEveryFeed
  <2>2. (carries[t] \cap TripProduct) \ h.bought # {}
    BY <1>8, <1>9, <2>1 DEF InEveryFeed
  <2>3. ByTheHotel(r) => here = Null /\ h.hotel = InitHotel
    BY <1>4, <1>8 DEF ByTheHotel, Op
  <2>4. \/ /\ Away(here, t) # Null
           /\ OrFar(Away(here, t)) < OrFar(Away(here, s))
        \/ /\ ByTheHotel(r)
           /\ OrFar(Away(InitHotel, t)) <= Near /\ OrFar(Away(InitHotel, s)) > Near
    BY <1>4, <1>9 DEF GoesBefore
  <2> QED
    BY <1>2, <2>1, <2>2, <2>3, <2>4
<1> QED
  BY <1>5, <1>7, <1>9 DEF OffersNearer

\* What was to be in every feed before a step, and goes before another store,
\* when it is so after the step.
LEMMA FeedBefore ==
    ASSUME Base, NEW x \in Req, Acts(x), NEW r \in Req, pc[r] # "idle",
           NEW t \in Store, NEW s
    PROVE  /\ InEveryFeed(t)' => InEveryFeed(t)
           /\ GoesBefore(t, s, r)' => GoesBefore(t, s, r)
<1>1. InEveryFeed(t)' => InEveryFeed(t)
  <2>1. bought \subseteq bought'
    BY DataTypes DEF Base
  <2>2. /\ OpenThroughout(t)' => OpenThroughout(t)
        /\ AlwaysCarried(t)' \subseteq AlwaysCarried(t)
    BY ThroughoutBefore
  <2> QED
    BY <2>1, <2>2 DEF InEveryFeed
<1>2. call'[r] = call[r] /\ (ByTheHotel(r)' => ByTheHotel(r))
  BY UserBefore
<1>3. GoesBefore(t, s, r)' => GoesBefore(t, s, r)
  BY <1>2 DEF GoesBefore
<1> QED
  BY <1>1, <1>3

\* An offer that was right stays so, and so does what was told.
LEMMA OffersStay ==
    ASSUME Base, NEW x \in Req, Acts(x), NEW r \in Req, pc[r] # "idle",
           read'[r] = read[r], NEW offer, Offers(r, offer)
    PROVE  Offers(r, offer)'
<1>1. call'[r] = call[r] /\ read'[r].wishes = read[r].wishes
  BY UserBefore
<1>2. OffersFound(r, offer)'
  <2>1. ASSUME NEW s, NEW p
        PROVE  /\ BoughtBefore(p, r)' <=> BoughtBefore(p, r)
               /\ FoundOpen(r, s) => FoundOpen(r, s)'
               /\ FoundStocked(r, s, p) => FoundStocked(r, s, p)'
    BY FoundStays, UserBefore
  <2> QED
    BY <1>1, <2>1 DEF Offers, OffersFound
<1>3. OffersWishes(r, offer)'
  <2>1. \A s \in Store : /\ OpenThroughout(s)' => OpenThroughout(s)
                         /\ AlwaysCarried(s)' \subseteq AlwaysCarried(s)
    BY ThroughoutBefore
  <2>2. \A p : WishedThroughout(p, r)' => WishedThroughout(p, r)
    BY UserBefore
  <2> QED
    BY <1>1, <2>1, <2>2 DEF Offers, OffersWishes
<1>4. OffersNearer(r, offer)'
  BY <1>1, FeedBefore DEF Offers, OffersNearer
<1> QED
  BY <1>2, <1>3, <1>4 DEF Offers

LEMMA TellsStay ==
    ASSUME Base, NEW x \in Req, Acts(x), NEW r \in Req, pc[r] # "idle",
           NEW offer, NEW tell
    PROVE  /\ TellsOffered(r, offer, tell) => TellsOffered(r, offer, tell)'
           /\ TellsNearer(r, DOMAIN tell) => TellsNearer(r, DOMAIN tell)'
<1>1. call'[r] = call[r]
  BY UserBefore
<1>2. \A t \in Store : OpenThroughout(t)' => OpenThroughout(t)
  BY ThroughoutBefore
<1>3. \A t \in Store : \A s : GoesBefore(t, s, r)' => GoesBefore(t, s, r)
  BY FeedBefore
<1> QED
  BY <1>1, <1>2, <1>3 DEF TellsOffered, TellsNearer

\* Of the stores nearby, those that were open are left out only for nearer ones.
LEMMA NearbyIsTold ==
    ASSUME Base, DataInv, NEW x \in Req, Acts(x), pc[x] = "idle",
           call'[x].op = "nearby",
           NEW near, near = NearbyStores(open, call'[x].here, call'[x].limit)
    PROVE  TellsNearer(x, near)'
<1>1. Moves(x) /\ DataMove(x)
  BY OneMoves, DataMoves DEF Base
<1>2. PICK here, limit : here = call'[x].here /\ limit = call'[x].limit
  OBVIOUS
<1>3. here \in Place /\ limit \in Nat /\ here # Null
  <2>1. here \in Place /\ limit \in Nat
    BY <1>1, <1>2, CallFields DEF Moves
  <2> QED
    BY <2>1, CatalogueAssumption
<1>4. PICK S \in SUBSET Store : S = open
  BY DEF Base, TypeInv, TypeOK
<1>5. \A t \in S \ near : Away(here, t) # Null =>
         /\ Cardinality(near) = limit
         /\ \A s \in near : ~(OrFar(Away(here, t)) < OrFar(Away(here, s)))
  BY <1>2, <1>3, <1>4, NearbyAre
<1>6. \A t \in Store : OpenThroughout(t)' => t \in S
  BY <1>4, ThroughoutBefore DEF DataInv, ThroughInv
<1>7. \A t, s : GoesBefore(t, s, x)' => OrFar(Away(here, t)) < OrFar(Away(here, s))
  BY <1>2, <1>3 DEF GoesBefore, ByTheHotel
<1> QED
  BY <1>2, <1>5, <1>6, <1>7 DEF TellsNearer

\* What is offered when stores are read, or nothing, is a good offer.
LEMMA StepOfferInv ==
    ASSUME Base, DataInv, ReadInv, OfferInv, NEW x \in Req, Acts(x)
    PROVE  OfferInv'
<1>1. Moves(x) /\ HandlerMove(x)
  BY OneMoves, HandlerMoves DEF Base
<1>2. ASSUME NEW r \in Req \ {x}, pc'[r] \in {"provider", "done"}
      PROVE  Offers(r, offered[r])' /\ offered'[r] = offered[r]
  <2>1. /\ pc[r] \in {"provider", "done"} /\ offered'[r] = offered[r] /\ read'[r] = read[r]
    BY <1>1, <1>2 DEF Moves
  <2>2. PICK offer : offer = offered[r]
    OBVIOUS
  <2>3. Offers(r, offer)
    BY <2>1, <2>2 DEF OfferInv
  <2>4. Offers(r, offer)'
    BY <2>1, <2>3, OffersStay
  <2> QED
    BY <2>1, <2>2, <2>4 DEF Offers, OffersFound, OffersWishes, OffersNearer
<1>3. ASSUME pc'[x] \in {"provider", "done"}
      PROVE  \E offer : Offers(x, offer)' /\ offered'[x] = offer
  <2>1. pc[x] \in {"idle", "stores", "provider"}
    <3>1. pc[x] \in {"idle", "history", "trip", "flight", "stores", "provider"}
      BY <1>1 DEF Moves, Base, TypeInv, TypeOK
    <3> QED
      BY <1>1, <1>3, <3>1 DEF HandlerMove
  <2>2. CASE pc[x] = "idle"
    <3>1. offered'[x] = <<>>
      BY <1>1, <2>2 DEF HandlerMove, Base, TypeInv, Begun
    <3>2. call'[x].op # "recommend"
      BY <1>1, <1>3, <2>2 DEF HandlerMove
    <3>3. Offers(x, <<>>)'
      BY <3>2, EmptyOffer DEF Offers, OffersFound, OffersWishes, OffersNearer
    <3> QED
      BY <3>1, <3>3
  <2>3. CASE pc[x] = "stores"
    <3>1. PICK offer : offer = CandidatesOf(x)
      OBVIOUS
    <3>2. offered'[x] = offer /\ read'[x] = read[x]
      BY <1>1, <2>3, <3>1 DEF HandlerMove
    <3>3. Offers(x, offer)
      BY <2>3, <3>1, FoundIsOffered, WishesAreOffered, NearerAreOffered DEF Offers
    <3>4. Offers(x, offer)'
      BY <2>3, <3>2, <3>3, OffersStay
    <3> QED
      BY <3>2, <3>4
  <2>4. CASE pc[x] = "provider"
    <3>1. PICK offer : offer = offered[x]
      OBVIOUS
    <3>2. offered'[x] = offer /\ read'[x] = read[x]
      BY <1>1, <2>4, <3>1 DEF HandlerMove
    <3>3. Offers(x, offer)
      BY <2>4, <3>1 DEF OfferInv
    <3>4. Offers(x, offer)'
      BY <2>4, <3>2, <3>3, OffersStay
    <3> QED
      BY <3>2, <3>4
  <2> QED
    BY <2>1, <2>2, <2>3, <2>4
<1>4. ASSUME NEW r \in Req, pc'[r] \in {"provider", "done"}
      PROVE  Offers(r, offered[r])'
  <2>1. CASE r = x
    BY <1>3, <1>4, <2>1 DEF Offers, OffersFound, OffersWishes, OffersNearer
  <2>2. CASE r # x
    BY <1>2, <1>4, <2>2
  <2> QED
    BY <2>1, <2>2
<1> QED
  BY <1>4 DEF OfferInv

\* What is told comes from the offer, or from the stores nearby.
LEMMA StepTellInv ==
    ASSUME Base, DataInv, TellInv, NEW x \in Req, Acts(x)
    PROVE  TellInv'
<1> DEFINE Tells(r, offer, tell) == TellsOffered(r, offer, tell) /\ TellsNearer(r, DOMAIN tell)
<1>1. Moves(x) /\ HandlerMove(x)
  BY OneMoves, HandlerMoves DEF Base
<1>2. ASSUME NEW r \in Req \ {x}, pc'[r] = "done"
      PROVE  Tells(r, offered[r], told[r])'
  <2>1. /\ pc[r] = "done" /\ offered'[r] = offered[r] /\ told'[r] = told[r]
    BY <1>1, <1>2 DEF Moves
  <2>2. PICK offer, tell : offer = offered[r] /\ tell = told[r]
    OBVIOUS
  <2>3. Tells(r, offer, tell)
    BY <2>1, <2>2 DEF TellInv
  <2>4. TellsOffered(r, offer, tell)' /\ TellsNearer(r, DOMAIN tell)'
    BY <2>1, <2>3, TellsStay
  <2> QED
    BY <2>1, <2>2, <2>4 DEF TellsOffered, TellsNearer
<1>3. ASSUME pc'[x] = "done"
      PROVE  \E offer, tell : /\ TellsOffered(x, offer, tell)' /\ TellsNearer(x, DOMAIN tell)'
                              /\ offered'[x] = offer /\ told'[x] = tell
  <2>1. PICK offer, tell : offered'[x] = offer /\ told'[x] = tell
    OBVIOUS
  <2>2. pc[x] \in {"idle", "stores", "provider"} /\ told[x] = <<>>
    <3>1. /\ pc[x] \in {"idle", "history", "trip", "flight", "stores", "provider"}
          /\ told[x] = <<>>
      BY <1>1 DEF Moves, Base, TypeInv, TypeOK, Begun
    <3> QED
      BY <1>1, <1>3, <3>1 DEF HandlerMove
  <2>3. CASE tell = <<>> /\ call'[x].op # "nearby"
    BY <2>1, <2>3, EmptyOffer DEF TellsOffered, TellsNearer
  <2>4. CASE pc[x] = "idle" /\ call'[x].op = "nearby"
    <3>1. PICK near : near = NearbyStores(open, call'[x].here, call'[x].limit)
      OBVIOUS
    <3>2. tell = [s \in near |-> {}]
      BY <1>1, <1>3, <2>1, <2>4, <3>1 DEF HandlerMove
    <3>3. TellsNearer(x, near)'
      BY <2>4, <3>1, NearbyIsTold
    <3>4. DOMAIN tell = near /\ \A s \in DOMAIN tell : tell[s] = {}
      BY <3>2
    <3>5. TellsOffered(x, offer, tell)'
      BY <2>4, <3>4 DEF TellsOffered
    <3> QED
      BY <2>1, <3>3, <3>4, <3>5
  <2>5. CASE pc[x] = "provider" /\ tell # <<>>
    <3>1. call'[x] = call[x] /\ call[x].op \in {"recommend", "feed"} /\ offered[x] = offer
      BY <1>1, <2>1, <2>5 DEF Moves, HandlerMove, Base, TypeInv, Begun, Step
    <3>2. PICK d \in Decision :
             tell = IF call'[x].op = "feed" THEN Feed(Accepted(d, offer)) ELSE Accepted(d, offer)
      BY <1>1, <2>1, <2>2, <2>5, <3>1 DEF HandlerMove
    <3>3. PICK accepted : accepted = Accepted(d, offer)
      OBVIOUS
    <3>4. \A s \in DOMAIN accepted : s \in DOMAIN offer /\ accepted[s] \subseteq offer[s]
      BY <3>3, AcceptedAre
    <3>5. \A p \in DOMAIN Feed(accepted) : \A s \in Feed(accepted)[p] :
             s \in DOMAIN accepted /\ p \in accepted[s]
      BY DEF Feed
    <3>6. TellsOffered(x, offer, tell)'
      BY <3>2, <3>3, <3>4, <3>5 DEF TellsOffered
    <3>7. TellsNearer(x, DOMAIN tell)'
      BY <3>1 DEF TellsNearer
    <3> QED
      BY <2>1, <3>6, <3>7
  <2>6. \/ tell = <<>> /\ call'[x].op # "nearby"
        \/ pc[x] = "idle" /\ call'[x].op = "nearby"
        \/ pc[x] = "provider" /\ tell # <<>>
    <3>1. pc[x] # "idle" => call'[x].op # "nearby"
      BY <1>1, <2>2 DEF Moves, Base, TypeInv, Begun, Step
    <3>2. pc[x] = "stores" => tell = <<>>
      BY <1>1, <2>1, <2>2 DEF HandlerMove
    <3>3. pc[x] = "idle" /\ call'[x].op # "nearby" => tell = <<>>
      BY <1>1, <1>3, <2>1, <2>2 DEF HandlerMove
    <3> QED
      BY <2>2, <3>1, <3>2, <3>3
  <2> QED
    BY <2>3, <2>4, <2>5, <2>6
<1>4. ASSUME NEW r \in Req, pc'[r] = "done"
      PROVE  TellsOffered(r, offered[r], told[r])' /\ TellsNearer(r, DOMAIN told[r])'
  <2>1. CASE r = x
    BY <1>3, <1>4, <2>1 DEF TellsOffered, TellsNearer
  <2>2. CASE r # x
    BY <1>2, <1>4, <2>2
  <2> QED
    BY <2>1, <2>2
<1> QED
  BY <1>4 DEF TellInv

-----------------------------------------------------------------------------
(* The theorems.                                                           *)

FeedInv == Base /\ DataInv /\ ReadInv /\ OfferInv /\ TellInv

\* The invariant holds at the start,
LEMMA FeedHolds == Init => FeedInv
<1> SUFFICES ASSUME Init PROVE FeedInv
  OBVIOUS
<1>1. TypeInv /\ \A r \in Req : pc[r] = "idle" /\ call[r].op = "none"
  BY TypeHolds DEF Init, RequestInit, NoCall
<1>2. Base
  BY <1>1 DEF Base, SentInTurn
<1>3. \A op : op # "none" => Op(op) = {}
  BY <1>1 DEF Op
<1>4. OpenInv /\ StockInv
  BY <1>3 DEF Init, OpenInv, StockInv, LastGiven, Opens, Closes, Stocks, Clears
<1>5. ThroughInv
  BY DEF Init, ThroughInv, OpenThroughout, AlwaysCarried
<1>6. WishInv /\ BoughtInv /\ HotelInv
  BY <1>3 DEF Init, WishInv, Wished, BoughtInv, Bought, HotelInv
<1>7. ReadInv /\ OfferInv /\ TellInv
  BY <1>1 DEF ReadInv, Knows, OfferInv, TellInv, Step
<1> QED
  BY <1>2, <1>4, <1>5, <1>6, <1>7 DEF FeedInv, DataInv

\* a request is sent after those before it were answered,
LEMMA StepSentInTurn ==
    ASSUME Base, NEW x \in Req, Acts(x)
    PROVE  SentInTurn'
<1>1. ASSUME NEW r \in Req, pc'[r] # "idle", NEW q \in Before[r]
      PROVE  pc'[q] = "done"
  <2>1. q \in Req
    BY RecommendationsAssumption
  <2>2. pc[q] = "done"
    BY <1>1, OneMoves DEF Moves, Base, SentInTurn
  <2> QED
    BY <2>1, <2>2, OneMoves DEF Moves, Base
<1> QED
  BY <1>1 DEF SentInTurn

\* and every step keeps it.
LEMMA StepKeepsFeed ==
    ASSUME FeedInv, [Next]_vars
    PROVE  FeedInv'
<1>1. ASSUME NEW x \in Req, Acts(x) PROVE FeedInv'
  <2>1. Base'
    BY <1>1, StepKeepsType, StepSentInTurn DEF FeedInv, Base
  <2>2. DataInv'
    BY <1>1, StepOpenInv, StepStockInv, StepThroughInv, StepUserInv DEF FeedInv, DataInv
  <2> QED
    BY <1>1, <2>1, <2>2, StepReadInv, StepOfferInv, StepTellInv DEF FeedInv
<1>2. CASE UNCHANGED vars
  <2>1. /\ UNCHANGED <<open, carries, wishes, bought, viewed, hotel, flight>>
        /\ UNCHANGED <<read, offered, told, pc, call, answer>>
    BY <1>2 DEF vars, database, handler
  <2>2. Base'
    BY <2>1, StepKeepsType DEF FeedInv, Base, SentInTurn
  <2>3. DataInv'
    BY <2>1 DEF FeedInv, DataInv, OpenInv, StockInv, ThroughInv, WishInv, BoughtInv, HotelInv,
       LastGiven, Opens, Closes, Stocks, Clears, Op, OpenThroughout, AlwaysCarried, Wished, Bought
  <2>4. ReadInv'
    BY <2>1 DEF FeedInv, ReadInv, Knows, WishedThroughout, BoughtBefore, Op
  <2>5. OfferInv'
    <3>1. /\ \A r, p : /\ BoughtBefore(p, r)' <=> BoughtBefore(p, r)
                       /\ WishedThroughout(p, r)' <=> WishedThroughout(p, r)
          /\ \A s : /\ OpenThroughout(s)' <=> OpenThroughout(s)
                    /\ AlwaysCarried(s)' = AlwaysCarried(s)
                    /\ InEveryFeed(s)' <=> InEveryFeed(s)
      BY <2>1 DEF BoughtBefore, WishedThroughout, OpenThroughout, AlwaysCarried, InEveryFeed
    <3>2. /\ \A s : Opens(s)' = Opens(s) /\ Closes(s)' = Closes(s)
          /\ \A s, p : Stocks(s, p)' = Stocks(s, p) /\ Clears(s, p)' = Clears(s, p)
      BY <2>1 DEF Opens, Closes, Stocks, Clears, Op
    <3>3. \A t, s, r : GoesBefore(t, s, r)' <=> GoesBefore(t, s, r)
      BY <2>1 DEF GoesBefore, ByTheHotel
    <3>4. ASSUME NEW r \in Req, Offers(r, offered[r]) PROVE Offers(r, offered[r])'
      BY <2>1, <3>1, <3>2, <3>3, <3>4 DEF Offers, OffersFound, OffersWishes, OffersNearer,
         FoundOpen, FoundStocked
    <3> QED
      BY <2>1, <3>4 DEF FeedInv, OfferInv
  <2>6. TellInv'
    BY <2>1 DEF FeedInv, TellInv, TellsOffered, TellsNearer, OpenThroughout, GoesBefore, ByTheHotel
  <2> QED
    BY <2>2, <2>3, <2>4, <2>5, <2>6 DEF FeedInv
<1> QED
  BY <1>1, <1>2 DEF Next, Acts

\* What is recommended was offered: the provider cannot name anything else.
LEMMA RecommendedIsOffered ==
    ASSUME FeedInv, NEW r \in Req, NEW sp \in Recommended(r)
    PROVE  /\ sp[1] \in DOMAIN offered[r] /\ sp[2] \in offered[r][sp[1]]
           /\ OffersFound(r, offered[r])
<1>1. CASE pc[r] # "done"
  <2>1. told[r] = <<>>
    BY <1>1 DEF FeedInv, Base, TypeInv, Begun
  <2> QED
    BY <2>1, EmptyOffer DEF Recommended
<1>2. CASE pc[r] = "done"
  BY <1>2 DEF FeedInv, TellInv, TellsOffered, OfferInv, Offers, Recommended
<1> QED
  BY <1>1, <1>2

\* A product that was bought before a request was sent is not recommended to
\* it, however the provider answers (_build_history).
THEOREM BoughtIsNotRecommended == Spec => []NothingBoughtBefore
<1>1. FeedInv => NothingBoughtBefore
  BY RecommendedIsOffered DEF NothingBoughtBefore, OffersFound
<1> QED
  BY <1>1, FeedHolds, StepKeepsFeed, PTL DEF Spec

\* What is recommended was open and in stock when the request was sent, or
\* came to be while it ran, and in a feed is of its kinds (_recommend_built).
THEOREM StoresSellWhatIsRecommended == Spec => []OnlyWhatStoresSell
<1>1. ASSUME FeedInv PROVE OnlyWhatStoresSell
  <2> SUFFICES ASSUME NEW r \in Req, NEW sp \in Recommended(r)
               PROVE  /\ call[r].op = "feed" => sp[1] \in TripStore /\ sp[2] \in TripProduct
                      /\ FoundOpen(r, sp[1]) /\ FoundStocked(r, sp[1], sp[2])
    BY DEF OnlyWhatStoresSell, FoundOpen, FoundStocked, Opens, Closes, Stocks, Clears, Op
  <2> QED
    BY <1>1, RecommendedIsOffered DEF OffersFound
<1> QED
  BY <1>1, FeedHolds, StepKeepsFeed, PTL DEF Spec

\* Wishes are candidates before all that is not wished for
\* (_prioritize_product_ids).
THEOREM WishesAreFirst == Spec => []WishesComeFirst
<1>1. ASSUME FeedInv PROVE WishesComeFirst
  <2> SUFFICES ASSUME NEW r \in Req, HasOffered(r, "recommend")
               PROVE  \A s \in Store : \A p \in AlwaysCarried(s) :
                         OpenThroughout(s) /\ WishedThroughout(p, r) =>
                            \/ p \in OfferedProducts(r)
                            \/ Cardinality(OfferedProducts(r) \cap read[r].wishes) = CandidateLimit
    BY DEF WishesComeFirst
  <2>1. OffersWishes(r, offered[r]) /\ call[r].op = "recommend"
    BY <1>1 DEF FeedInv, OfferInv, Offers, HasOffered
  <2>2. ProductsOf(offered[r]) = OfferedProducts(r)
    BY DEF ProductsOf, OfferedProducts
  <2> QED
    BY <2>1, <2>2 DEF OffersWishes
<1> QED
  BY <1>1, FeedHolds, StepKeepsFeed, PTL DEF Spec

\* A store is left out for one that goes after it only when its products are
\* beyond the limit, and of the stores nearby only for as many that are as
\* near (_trip_store_sort_key, list_nearby_stores).
THEOREM NearerStoresAreFirst == Spec => []NearerStoresComeFirst
<1>1. ASSUME FeedInv, NEW r \in Req, HasOffered(r, "feed"), NEW s \in DOMAIN offered[r],
             NEW t \in Store, GoesBefore(t, s, r), InEveryFeed(t)
      PROVE  ~LeftOut(t, r)
  <2>1. OffersNearer(r, offered[r]) /\ call[r].op = "feed"
    BY <1>1 DEF FeedInv, OfferInv, Offers, HasOffered
  <2>2. ProductsOf(offered[r]) = OfferedProducts(r)
    BY DEF ProductsOf, OfferedProducts
  <2>3. \/ t \in DOMAIN offered[r]
        \/ Cardinality(OfferedProducts(r)) = TripProductLimit
    BY <1>1, <2>1, <2>2 DEF OffersNearer
  <2>4. ~(TripProductLimit < TripProductLimit)
    BY CatalogueAssumption
  <2> QED
    BY <2>3, <2>4 DEF LeftOut
<1>2. ASSUME FeedInv, NEW r \in Req, call[r].op = "nearby"
      PROVE  TellsNearer(r, DOMAIN told[r])
  <2>1. pc[r] = "done"
    <3>1. pc[r] # "idle"
      BY <1>2, AskedIsSent DEF FeedInv
    <3>2. pc[r] \notin Step
      BY <1>2 DEF FeedInv, Base, TypeInv, Begun
    <3>3. pc[r] \in Step \cup {"idle", "done"}
      BY <1>2 DEF FeedInv, Base, TypeInv, TypeOK, Step
    <3> QED
      BY <3>1, <3>2, <3>3
  <2> QED
    BY <1>2, <2>1 DEF FeedInv, TellInv
<1>3. FeedInv => NearerStoresComeFirst
  BY <1>1, <1>2 DEF NearerStoresComeFirst, TellsNearer
<1> QED
  BY <1>3, FeedHolds, StepKeepsFeed, PTL DEF Spec

=============================================================================
