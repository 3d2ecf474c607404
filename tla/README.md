# Verification of the Gryffindor backend

TLA+ models of the FastAPI backend in `src/backend/app`, the TLC runs that check
them on small instances, and TLAPS proofs of what matters most for instances of
every size. Paths below are relative to `src/backend/app` unless they start with
`docs/`.

The backend serves one user who shops with smart glasses and a phone. The glasses
send camera frames that a recognition provider matches to products; the phone
reviews the session, keeps a wishlist, captures receipts and flights with a document
provider, plans trips and asks for recommendations and a tax-refund checklist.

## 1. Inventory

What every component shares: the README of the repository starts one `uvicorn`
process, without workers. `async def` handlers (recognise, receipt and flight analysis,
recommendations, trip feed) run on its event loop and let one another in only at an
`await`; `def` handlers run on a thread pool and interleave anywhere. All state is in
PostgreSQL at READ COMMITTED; each request has an ORM session made with
`autoflush=False, expire_on_commit=False` (`db/session.py`). So a handler is a sequence
of SELECTs, flushes and a commit, and everything it has read may be stale when it writes.

| Component | State | Operations | What is hard | What makes it correct |
|---|---|---|---|---|
| Shopping sessions and recognition (`services/shopping.py`, `repositories/shopping.py`) | `shopping_sessions`, `session_products` | create, complete, recognise, review | The status is read before the provider is awaited; a merge is a read-modify-write; review and recognition write the same rows; row locks and deadlocks; INTEGER overflow | No acknowledged frame is lost or invented; `isNew` is told once; a review's marks stand; every call is answered |
| Wishlist (`services/personalization.py`) | `wishlist_items` | save, delete, inserted by reviews too | Duplicate INSERTs, lock waits, failure halfway | Interested means on the wishlist; nothing of a failed review stays |
| Exchange-rate cache (`services/exchange_rates.py`, `main.py`) | `currency_rates` | check at process start, refresh, mark checked | Process killed anywhere, provider down, overlapping processes, stale ORM objects | Both rates or neither, of one publication; rates do not go back; whatever becomes of the check, the start goes on |
| Trips (`services/trips.py`) | `trips`, `hotel_stays`, `store_visit_reservations` | create, patch, put hotel, reserve, cancel | Checks on a row read earlier; column-wise UPDATE; first INSERT races | Times in order; an acknowledged change stands; what was stale before the call is refused |
| Purchases and refund checklist (`services/personalization.py`, `services/refund_checklist.py`) | `receipts`, `receipt_items`, `flights` | analyse receipt, analyse and edit flight, record refund, checklist | Several SELECTs without a common snapshot; calendar arithmetic at month ends; latest flight by storage order | Everything before the request is accounted for; the deadline is warned of |
| Recommendations (`services/recommendations.py`) | none | recommend, trip feed | Data read in pieces; arbitrary answer of a provider; two cuts at a limit | Only what the store sells and is open; nothing bought before; wishes, near and hotel stores survive the cuts |
| Pricing (`services/pricing.py`) | none | quote, quote a raw price | Half-up rounding of three amounts apart from one another | The parts make up the price |
| My page (`api/me.py`) | none | read purchases, wishlist, trips | Two sources of purchases read one after the other; a rate per quote | Each marked product once, none lost |
| Recognition providers, product embeddings (`providers/`, `repositories/product_embeddings.py`, `scripts/index_product_embeddings.py`) | `product_embeddings`, the reference images | match by nearest vectors with two thresholds; ask OpenAI; scripted answers; replace the vectors of a product | Re-indexing during a search, overlapping and interrupted indexings; candidates read before the await; products with many images | A frame that shows a known product is told so; a match has the margin it claims; only enabled products are named |
| Stores, product catalogue (`services/stores.py`, `scripts/seed_*.py`) | `stores`, `products`, `store_products` | list, list nearby; seed scripts | Stores close and shelves change while they are being read | Nothing is reserved or recommended that was gone before it was asked for; nearer stores first |
| Sessions and connections (`db/session.py`) | connections of the pool, worker threads, the event loop | one session per request, closed in `finally` | Connections kept across an `await`; a full pool blocks the event loop; a rollback in the middle of a handler | Refused requests have changed nothing; no connection is lost; every request ends |
| Images, schemas, configuration, health, migrations | files, none | validate, format | none | not modelled, see section 8 |

Interactions. Requests never call one another; they meet in the tables. Recognise and
review share `session_products`; review, wishlist, reservations and recommendations share
`wishlist_items`; receipts and reviews feed the checklist and the page of the user; the seed
scripts write `stores`, `products` and `store_products` under all of them, the index script
`product_embeddings` under frames; all of them share the connections, the threads and the loop; the start of a process writes
`currency_rates`, which every quote reads anew. The hazards with their lines are in
`PROJECT.json`.

## 2. Modules

| Module | Models | Extends |
|---|---|---|
| `Requests` | An HTTP request: a slot used once, with `pc`, `call` and `answer`; `Before[r]` are requests answered before `r` is sent; what a request may still find of what others take and give | |
| `Columns` | The UPDATE of the ORM, which names only the columns that differ from the row as loaded | |
| `ShoppingRows` | A row of `session_products`: first sighting, merge, review | `Columns` |
| `Shopping` | Sessions, recognition, review, wishlist, with row locks and the deadlock detector | `ShoppingRows`, `Requests` |
| `SessionLedger` | The abstract session: every call takes effect at one instant, or never | `ShoppingRows` |
| `ShoppingProofs` | Proofs about `Shopping`, and that it implements `SessionLedger` | `Shopping` |
| `ExchangeRates` | The check of the cache at process start, crashes and restarts | `Columns` |
| `ExchangeRatesProofs` | Proofs about `ExchangeRates` | `ExchangeRates` |
| `Trips` | Trips, hotel stays, reservations, against the seed scripts and the wishlist | `Requests`, `Columns` |
| `TripsProofs` | Proofs about `Trips` | `Trips` |
| `Dates` | Calendar, three months later, the export deadline | |
| `Refunds` | The checklist as a function of receipts, marks and flight | `Dates` |
| `Purchases` | Receipts, flights, refund methods, reviews and checklists in steps | `Requests`, `Columns`, `Refunds` |
| `PurchasesProofs` | Proofs about `Dates`, `Refunds` and `Purchases` | `Purchases` |
| `Candidates` | The choice of candidate stores and products | |
| `Recommendations` | Recommendation and feed in steps, with their provider; stores nearby | `Requests`, `Candidates` |
| `RecommendationsProofs` | Proofs about `Candidates` and `Recommendations` | `Recommendations` |
| `Pricing` | Quotes | |
| `MyPage` | The purchases on the page of the user | `Requests`, `Pricing` |
| `MyPageProofs` | Proofs about `Pricing` and `MyPage` | `MyPage` |
| `Recognition` | From an upload to the products an answer names: candidates, providers, search, against the index script | `Requests` |
| `RecognitionProofs` | Proofs about `Recognition` | `Recognition` |
| `ConnectionPool` | Connections, threads and the event loop, for requests without end | |
| `ConnectionPoolProofs` | Proofs about `ConnectionPool` | `ConnectionPool` |
| `MC…` | Small instances: model values, calls per request slot, initial tables | the module of that name |

How state and actions correspond to the code. A variable is a table, or what a handler
holds between two statements (`loaded`, `read`, `waiting`, …). An action is one statement
whose result is used later, one flush that can wait or fail, or one commit, together with
everything the handler does up to the next such point; early returns are answers given by the
action that meets them. `Reply` ends the handler: the ORM session closes and rolls back what is
not committed. Uncaught database errors are the answer 500.

Decisions worth knowing:

- *The event loop.* In `Shopping` a recognition may not start or go on while another one of
  its worker is between its SELECT and its commit (`LoopFree`), because that stretch has no
  `await`. `WorkerOf` assigns requests to processes, so that an instance with two
  workers shows what the database alone guarantees. In `Recommendations` all SELECTs run on the
  loop, and only handlers on threads and the seed script move in between.
- *The ORM.* With `autoflush=False` and `expire_on_commit=False` an object is as it was loaded
  until it is written; `Column(stored, before, new)` is the resulting column. A repeated query
  returns objects already held unchanged (`Reread` of `ExchangeRates`).
- *Locks.* A review holds the wishlist rows it inserted and the session rows it updated
  from its first flush to its commit. `WaitsFor` says who waits for whom; a cycle is ended by
  `DeadlockAbort`, PostgreSQL's detector, which is the only part of the database modelled as an
  action of its own.
- *Starting.* A process of `ExchangeRates` checks the rates before it serves, and every failure of
  that is caught or logged (`main.py:31`). With OpenCLIP, which is the default, it then waits
  for the model (`WarmUp`), where nothing is caught: missing packages or a model that cannot be loaded
  abort the start (`WarmUpFails`, state `aborted`). `OpenCLIP` is the set of processes configured so.
- *Providers* answer anything their schema accepts, or fail. OpenCLIP is the exception: in
  `Recognition` its answer follows from the vectors it finds, and `Similarity` is a table.
- *Connections.* `ConnectionPool` keeps of a handler only when it takes a connection, when it gives
  it back, and where it waits; what it reads and writes is in the other modules, which never run
  out of connections.
- *Vectors.* A vector of `Recognition` carries the turn that stored it, which is the run of the index
  script and the number of products that run had left: `--product-id` can name a product twice.
- *Data.* Times, ratios and durations are naturals where the code only compares them;
  distances are a table; store and product ids are numbers in the order of the ids where the
  code sorts by them; names are model values as they compare after normalising; rates are
  fixed-point numbers with the scale as a constant.
- *Latest flight.* `created_at` is taken in Python at flush time, so the latest flight is the
  one stored last, which is not the one asked for last.

Each definition that follows from the code has its lines in the `map` of `PROJECT.json`.
Definitions introduced by "A plausible bug" are not part of the models: they are the
mutations that each property is known to catch, listed under `mutants`.

## 3. Runs

`tlc -config X.cfg M` checks a run; deadlock is checked everywhere except
`Restarts`, where processes that were killed or aborted are not started again. Requests that are
all answered stutter, so a deadlock would be a request that nobody can answer. `GlassesAndPhone`,
`Restarts`, `TripPlanning`, `Checklists` and `Indexing` also check the `TypeOK` of their module.

| Run | Properties | Shows |
|---|---|---|
| `GlassesAndPhone` | `NothingForgotten`, `ReviewStands`, `CompletedSessionRefusesFrames`, `SessionsAreAtomic` | One worker: overlapping frames, one of them overflowing its column, and a phone that opens, reviews and completes in sequence; the handlers implement `SessionLedger` |
| `Reviews` | `NothingInvented`, `OneNewPerProduct`, `OnlyADeleteUnwishes`, `WishesAreAcknowledged`, `EveryCallAnswered` | Overlapping reviews, a wishlist call, and frames on two workers: observations may be lost there, but nothing is made up, a card is added once, and everybody is answered |
| `Indexing` | `KnownProductsAreFound`, `OnlyEnabledProductsNamed`, `IndexingsAreWhole`, `MatchesAreClear` | Frames for each provider while the index script runs three times, twice in sequence and once at any time, stops anywhere, the reference images change, and the catalogue is seeded before a frame, while it is served and again |
| `Restarts` | `BothOrNeither`, `OnePublication`, `CheckedOnceADay`, `RatesDoNotGoBack`, `RatesKeepNoServerDown` | Three processes, one after another or overlapping as in a deployment, one of them waiting for the OpenCLIP model, killed or aborted anywhere, on two days, with three publications, one that does not fit; whatever the check of the rates meets, a start gets past it unless it is killed (whether the model then loads is another matter) |
| `TripPlanning` | `TripTimesInOrder`, `EditsStand`, `StaleChoiceRefused`, `ReservationsStand` | Two clients, in sequence and overlapping, with stores, shelves and wishes moving |
| `Checklists` | `ChecklistSeesEarlierPurchases`, `RefundOnlyIfDue`, `DeadlineWarned`, `RecordingDoesNotMoveEligibility` | Checklists against everything that changes what they read, with totals on both limits and dates at the ends of November and of February |
| `Recommending` | `NothingBoughtBefore`, `OnlyWhatStoresSell`, `WishesComeFirst`, `NearerStoresComeFirst` | A recommendation, a feed or the stores nearby, with and without a place, hotel and flight, against four writers and another feed |
| `Purchased` | `PurchasesListedOnce`, `QuotesAddUp` | The page against receipts, reviews, seeds and new rates, from none cached on: all three amounts of a quote are of one rate that may have been cached by then, each rounded half up to a cent, with fractions below, on and above a half |
| `Connections` | `RefusedChangedNothing`, `RefusedOnlyUnderLoad`, `EveryRequestEnds` | Two synchronous and two asynchronous handlers, again and again, for two connections and one thread |

Some properties hold only of requests that do not overlap, and say so in their own condition
(`InTurn` of `Trips` and `ExchangeRates`, `Before` elsewhere): two PATCHes of a trip that
overlap can leave its times out of order, and of two processes that start
together the slower one can set the day of the last check back. The same runs contain those
overlaps, and check there what still holds. Two overlapping completes, which both answer 200, are in no run:
no document forbids what they do.

The other runs each show that the code does not do what a document or comment says; the findings
in `PROJECT.json` quote the line:

| Run | The code |
|---|---|
| `FrameAfterComplete` | merges a frame into a session completed while the provider was awaited |
| `OverlappingReviews` | leaves a row purchased and interested after two overlapping reviews |
| `ConcurrentWishes` | answers 500 when a product is saved twice at once: the flush is outside the `try` |

More such disagreements, met while modelling, which no run of their own is spent on:

- a purchase without any product that supports refunds counts like any other
  (`services/refund_checklist.py:88`), where `docs/API_CONTRACT.md:834` counts eligible ones;
- the price on a receipt in USD is quoted as KRW (`api/me.py:378`, `services/pricing.py:81`);
- a product added to the catalogue the way `docs/RECOGNITION.md:156` describes is not indexed
  unless it is named: the products of the index script are a constant
  (`scripts/index_product_embeddings.py:15`);

- a review that names a product the session does not have is answered 422
  (`services/shopping.py:96`), where `docs/API_CONTRACT.md:280` says 400;
- overlapping changes of a trip or of its hotel can leave times out of order, because each is
  checked against the row as it was loaded (`services/trips.py:53`, `services/trips.py:67`), and the
  second of two first PUTs of a hotel is answered 500 (`services/trips.py:65`);
- a product marked in a session of any trip adds a refund counter to the checklist of an
  immediate-only purchase (`services/refund_checklist.py:103`);
- the deadline compares instants (`services/refund_checklist.py:187`) where the contract speaks of
  days;
- a product marked as purchased in a review, without a receipt, is still recommended
  (`services/recommendations.py:375`), while the checklist and the page of the user count it;
- stores are recommended to a user of whom nothing is known (`services/recommendations.py:432`);
- a stored refund of 0 is quoted as 7 % of the price (`services/pricing.py:47`), where
  `docs/API_CONTRACT.md:249` calls the stored value fixed.

Bounds, and why they are enough:

- *Requests.* Slots bound the number of requests: three to six. A hazard of these handlers
  needs two or three at once (reader, writer, and one that makes the state interesting first);
  the further ones let a property compare with what was acknowledged before. `CallsOf` gives each
  slot several calls, so one run covers many scenarios, failures among them.
- *Session rows.* Two products, one with a row from the start and one without; observations no
  column of which agrees, one earlier but longer, so that each maximum and minimum matters.
  `MaxDwell` is the largest INTEGER, here 3, with one dwell above it.
- *Time.* `MaxDay` and `MaxPublication` bound the cache run: a day on which a check may succeed,
  fail or be cut off and a day to recover, with publications that change one rate, both, or do
  not fit.
- *Recognition.* Four products, so that one more than the limit of candidates is enabled in some
  states; a product with two reference images, one with one and one without; frames that show a
  product, that could show two, and that show none; similarities on both sides of both thresholds.
  Three indexings, because a rival, a predecessor and a later frame are needed to see parts of one.
- *Connections.* Each client asks without end, so the number of clients bounds only how many overlap.
  Two connections and one thread make all the queues: for a thread, for the loop, for a connection
  on a thread and on the loop, with more clients than connections. More of either adds room, and the
  safety properties are proved for every number.
- *Limits.* The candidate, product and store limits of `Recommendations` are constants set
  below the number of products and stores, so that both cuts really cut.
- *Dates.* The days at which months of different length meet, with an hour before and after.
- *Money.* `Scale` is 10000, so a rate is in hundredths of a cent and a price times a rate has a fraction
  of a cent to round: 50 at the rates 1, 7 and 33 is 0.5, 3.5 and 16.5 cents, a refund of 4 is 0.04, 0.28 and
  1.32, the rest 0.46, 3.22 and 15.18. At 7 the rounded parts make 3 and the price 4: the cent by which they may
  differ is there. No rate is cached at first, and a page read before one is published has no conversion.

Fairness is assumed in three runs only. `Reviews`: `WF(Proceed(r))` for each request.
Once a handler has started, threads and the event loop are scheduled, providers answer or
run into their client timeout, PostgreSQL grants a free lock and looks for deadlocks.
Nothing obliges a client to send a request. `Restarts`: the check of a start that has begun goes on, as the
fetch has a timeout, while nobody is obliged to start a process or to kill one, or to finish loading a model,
which may be downloaded. `Connections`:
`SF(Proceed(r))`, because there requests come without end and compete for what is given away again
and again: the loop runs its callbacks in the order they became ready, threads are given to those who
wait in that order, and whoever waits for a connection gets one or runs into the 30 seconds of the
pool. All other properties are safety properties.

Refinement. `SessionsAreAtomic` says that `Shopping` implements `SessionLedger`: a client cannot
tell that handlers read, wait for a provider and write in steps. The refinement mapping is the
identity on sessions, rows, calls and answers, and hides steps, loaded rows, locks and the wishlist. It
holds with one worker and reviews and completes of a session in sequence, which is how one phone
calls; with overlapping reviews it fails as `OverlappingReviews` shows. The ledger lets a frame enter
a completed session if it was sent before, which is what the code does and `FrameAfterComplete`
is about.

## 4. Proofs

`tlapm M.tla` proves each module; the constants are arbitrary up to the named assumptions.
Every safety property of the runs that pass is a theorem: the runs show it on a small instance,
the proofs for every number of requests, products, stores, trips, processes and so on.

Most proofs have the same parts. *Type correctness* is not inductive by itself, so `TypeInv` (or
`CacheInv`, `RowsInv`) adds what the step of a handler tells: which call it serves, that it
has not answered, that a row it read is still there (`Begun`). *One moves* (`OneMoves`): a step
changes one request, and what others hold stays. *The order of calls* (`SentInTurn`): a request is sent
only when those in its `Before` are answered. What is claimed of a *read made in pieces* is an
invariant about what the handler has read so far, whose conditions on the past ("taken away before
it was sent and not brought back since") a later step can only make false and never true. What a step does is then one
lemma per action, and what it keeps one per conjunct of the invariant.

**`ShoppingProofs`**, for every set of requests, workers, sessions and products and every initial
database that `InitAssumption` admits:

- `TypeCorrect`: `Spec => []TypeOK`. `TypeOK` is not inductive: `Upsert` and `ReviewCommit` read
  fields of rows that must be there. `TypeInv` adds that a handler at some step has made the call
  that leads there, has not answered, and has chosen a product (`StepMatchesCall`), and that a row
  loaded to be written back is still stored (`RowsStayStored`, since nothing deletes rows).
- `OneNew`: `[]OneNewPerProduct`. `NewInv` adds that a row which is missing was missing at
  the start and has no acknowledged observation, so that the first one to insert it is the only one
  told it is new. It holds for any number of workers:
  it rests on the UNIQUE constraint (`DuplicateRow`) and not on the event loop, which is why
  the constraint must stay even with one worker.
- `OneWorkerForgetsNothing`: if all requests have one worker, `[]NothingForgotten`. `FreshInv` says
  that while a recognition is between its SELECT and its commit, what it loaded agrees with the row in the
  columns a merge writes, because on the loop nobody else merges, and reviews write other columns.
  `AccountInv` is `NothingForgotten` in a form that one more sighting extends. The hypothesis is needed: with two workers TLC
  loses an observation.
- `RowsAreBacked`: `[]NothingInvented`, on any number of workers. A merge takes a minimum, a maximum and
  a count from what it loaded, so the rows loaded count as much as those stored. `PlayInv`: every row in
  play has columns of acknowledged sightings or of the initial row, and *the windows of any two rows in
  play overlap*. Without the second part a merge of two such rows could have an empty window.
- `CompletedMeansRefused`: `[]CompletedSessionRefusesFrames`, by `SequenceInv`: calls in order, and a
  session that was answered to be completed stays so (`SessionsStay`).
- `WishesHaveAnswers`, `InterestedIsWished`: `[]WishesAreAcknowledged`, `[]OnlyADeleteUnwishes`. A review looks
  at the wishlist product by product and commits later; `WishInv` says that each product it
  wants is on the wishlist, is about to be inserted, is still to be looked at, or was unwished by
  somebody.
- `ReviewsAreKept`: `[]ReviewStands`. `ReviewInv`: while a review runs, and no other of its session can,
  the marks stored are those it loaded; a merge changes other columns.
- `HandlersAreAtomic`: `Spec => SessionsAreAtomic`, the refinement of `SessionLedger`, step by step. A frame
  takes effect at its commit (`UpsertInLedger`: the row loaded is fresh, so the merge is the
  ledger's), a review at its commit (`CommitInLedger`: it writes marks on the row now stored), and
  every other step is an answer without effect or a stutter. Hypotheses: `OneWorkerOnly`, and
  `OneAfterAnother`, that two reviews or two completes of a session are sent one after the other.
  Without the second `OverlappingReviews` is a counterexample. Frames, wishes and other sessions overlap as they like.

**`ExchangeRatesProofs`**, for any number of processes, days and publications:

- `TypeCorrect` and `BothRatesOrNone`, however processes overlap and wherever they are killed. `CacheInv`:
  what an ORM session holds has been in the table, both rates or neither of them, and no row is ever deleted.
- `RatesOfOnePublication`, `OneCheckADay` and the action property `RatesOnlyGoForward`, while processes do
  not overlap (`InTurn`, the condition the properties state themselves). `TurnInv`: the running process has
  read the table as it is and knows nothing older (`ReadsTheTable`), who was told rates has left them
  there (`LeavesRates`), nothing is of the future. A process killed leaves the table as its last
  commit made it, and that is all a crash needs.

**`TripsProofs`**, for any trips, stores, products and times, and any initial database:

- `TypeCorrect`; `ReservationsLast`, the action property `ReservationsStand`.
- `TimesInOrder`: a PATCH checks the row it has loaded. `PatchesApart`: if the PATCHes of a trip do not
  overlap, that row is the stored one.
- `EditsLast`: `EditInv` says of each column an acknowledged edit has set that it has that value or that
  an edit which follows or overlaps has set it too. It holds column by column, because the
  UPDATE does not name the columns that have not changed.
- `StaleChoicesRefused`: a reservation looks at store, shelf and wish in three SELECTs. `ShelfInv` says that
  what is there was given last (`LastGiven`), `FindInv` what a handler has found so far.

**`PurchasesProofs`**:

- `TypeCorrect`; `RowsInv` says what rows tell of the calls made: a receipt tells the trip it was
  captured for and a method that somebody records (`ReceiptInv`), an acknowledged method counts from then on (`RefundInv`), marks are those of the last
  review (`MarkInv`), flights are stored in the order they were asked for (`FlightInv`).
- `EarlierPurchasesSeen`, `SentOnlyIfDue`, `WarnedInTime`: `ChecklistInv` follows a checklist through its
  SELECTs (`PurchasesRead`, `MarksRead`) to its answer (`AllCounted`, `DeadlineTold`).
- `DeadlineIsADate` and `OverdueIsExceeding`: three months after a date is a date of the calendar, and
  comparing as the code does is exceeding the deadline as `DeadlineWarned` states it.
  `OlderPurchasesExceedToo`: a departure on a later day than the deadline of a purchase exceeds that of every
  earlier purchase. By days, because by the hour it is false: a purchase on 29 November at 23:00 and
  one on 30 November at 01:00 have deadlines on 28 February at 23:00 and at 01:00.
- `RecordedOnce`: recording a refund does not move the eligibility, whatever the finite set of purchases.
  The total is a fold over a set (`SumsExist`, `SumWithout`, `SumsAgree`). Where an induction on its size
  would be used, the proof takes the least number for which the claim fails (`LeastNumber`)
  and shows that there is a smaller one.

**`RecommendationsProofs`**, for any requests, any finite catalogue, any limits and any answer of the provider:

- `TypeCorrect` of `TypeOK`, of which no run is a check by itself.
- `BoughtIsNotRecommended`, `StoresSellWhatIsRecommended`, `WishesAreFirst`, `NearerStoresAreFirst`: `FeedInv` is
  what the tables tell of the calls (`DataInv`), what a handler has read and by when (`ReadInv`),
  what it offers the provider (`OfferInv`) and what it answers (`TellInv`).
- The last two are about cuts at a limit. `ForemostCount`: the first `n` of a finite ordered set are `n`, or all
  of them. `LeftOutMeansFull`: what goes before an element that was taken and is not taken itself
  does not exist, so a cut that leaves out a wish is full of wishes (`WishCutByWishes`). The
  orders of the code are shown to be orders (`SoonerIsTransitive`).

**`MyPageProofs`**:

- `ConvertedPartsAddUp`, for every price, refund, rate and scale: the converted refund and rest make up the
  converted price to a cent and neither exceeds it. `HigherPriceStaysHigher`: a higher price
  is not the lower one after its refund. Both rest on the bounds of half-up rounding, its
  order, and the rounding of a sum.
- `PagesAddUp`: `[]QuotesAddUp`, the same for the quotes of every page, whatever rate comes between its steps: the
  amounts of a quote are half-up roundings at one rate that may have been cached when the page was
  read, or none is. `RateInv` says that what is cached was published last, or is what there was
  at the start (`CachedLast`), and that each quote was made with such a rate (`WellQuoted`).
- `AllListedOnce`: `[]PurchasesListedOnce`. `PageInv`: what was stored is there to be read (`Stored`), a page past
  the SELECT that reads it has a line for it (`Shown`), and no line twice (`Once`).

**`RecognitionProofs`**, for any requests, catalogue and similarities:

- `TypeCorrect`; `NobodyElseIsNamed`: `[]OnlyEnabledProductsNamed`. `SeedInv`: what is enabled was so from the start or
  by a seed that none which switched it off has come after (`LastEnabled`), and what a frame has read or named
  was so when it looked (`MayName`), which is after every seed before it.
- `NoHalfIndexings`: `[]IndexingsAreWhole`, for indexings that overlap, stop anywhere or repeat a product.
  `WholeInv`: a DELETE has seen all rows of a turn or none (`Together`), every row stored is of a
  turn that has ended (`Old`), of two turns of a product none outlives a later one, and what a turn is going to remove contains every earlier
  row of its product (`TurnInv`).
- `MatchesClear`: the action property that the named product is the one with a vector near enough and nearer, by
  the margin, than any of another candidate. The code keeps the two best products of a scan; the lemmas
  show that there are such (`TopTwoExists`), and that the winner's margin over the second is one over
  all (`ConvincingWins`, `WinnersConvince`).
- `ShownProductsAreFound`: `[]KnownProductsAreFound`. `KnownInv`: an indexed and enabled product has a vector at
  every moment, as one transaction replaces the old ones, and is among the candidates while no more are
  enabled than the limit.

The last two assume `MarginThreshold > 0`: the settings admit 0 (`core/config.py:41`), and then
of two products equally near either one is named.

**`ConnectionPoolProofs`**, for every finite set of requests and any number of connections and threads:
`RefusedWithoutChange`, a request refused for want of a connection has committed nothing, and
`NoConnectionIsLost`, a request is refused only while as many others as there are connections are
being served. Both follow from `PoolInv`: types, `ChangedIsOver` (who has committed is over and
has succeeded, so it asks for nothing more; this is what `expire_on_commit=False` is for) and
`HoldersAreServed` (who holds a connection is between its first query and its close). The second
theorem then counts: a full pool has as many holders, none of which is the refused request, all of
which are being served.

What the proofs asked of the models: the catalogue is assumed finite and distances
natural (`CatalogueAssumption` of `Candidates`), which the tables of the code are.

## 5. Model-checked only

`EveryCallAnswered`, `RatesKeepNoServerDown` and `EveryRequestEnds` are liveness under fairness, which is outside
what the proof system does; they stay with TLC on the instances of section 3. So do the three runs that show
a violation.

The proof system cannot instantiate theorems of induction with an operator, so whatever
needs an induction over sets or numbers is argued from a least counterexample, as in `RecordedOnce`,
`ForemostCount` and `Nearest`.

## 6. Plan

The modules planned are written and their safety properties proved. What may follow:

1. An abstract specification of the index script, in which a run replaces the vectors of a product at one
   instant, and a proof that `Recognition` implements it, as `HandlersAreAtomic` does for `SessionLedger`.
2. The same for `ConnectionPool`: a pool as a number of permits.
3. What holds of overlapping processes of `ExchangeRates` beyond `BothOrNeither`: that each stored rate is
   one of some publication.

## 7. Composition

`Shopping` holds sessions and wishlist together because reviews write both in one
transaction. The others take what they read from their neighbours as calls that commit in one step:
`Trips` has wishlist calls and the seed scripts, `Purchases` and `MyPage` reviews, `Recommendations` all
four writers, `Recognition` the catalogue. The steps inside those writers are in their own module; what a reader can see of them
is their commit.

## 8. Not modelled

- The network that turns an image into a vector, and the distance of vectors: numerical code, a table
  in `Recognition`. The haversine formula likewise.
- Images, schemas, configuration, error formatting and health: stateless, settled before or after
  what the models describe. The ranges the schemas enforce are the types of the calls; a refused
  upload is an answer in `Recognition` and `ConnectionPool`. The debug image of a frame is written
  to a file that nothing reads.
- The other endpoints that only read: a session's products, trips, reservations, stores, purchases, the
  wishlist, and the parts of the page of the user besides the purchases. Each is one look at the tables,
  mapped to a response, and decides nothing.
- Two runs of one seed script at once: they are started by hand.
- Migrations and the single-user seed: run before the server. The constraints are part of the models.
- Logging and telemetry.
- The loading of the OpenCLIP model: it succeeds or fails at any time after the check (`ExchangeRates`).
- Users: the backend has one, so no table is keyed by user.
- Purchases dated in the last months of the year 9999, whose deadline has no date in Python.
- A PostgreSQL server in another time zone than UTC: `last_checked_at` and the date of today would
  be compared in two calendars; the repository's image runs in UTC.
- Loss of the connection to the database, except in `ExchangeRates`, where it is one of the failures
  of a start.
