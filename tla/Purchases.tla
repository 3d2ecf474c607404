----------------------------- MODULE Purchases -----------------------------
(***************************************************************************)
(* Receipts and flights, captured by a document provider that reads an     *)
(* image, edited by the user, and read by the refund checklist. Analysing  *)
(* runs on the event loop and awaits the provider; the other handlers run  *)
(* on threads, each SELECT a step of its own: READ COMMITTED gives a       *)
(* checklist no common snapshot of what it reads.                          *)
(***************************************************************************)
EXTENDS Requests, Columns, Refunds, Sequences

CONSTANTS
    Trip,          \* trips, which are never deleted
    NoTrip,        \* the id of no trip
    Product,
    ItemName,      \* names on receipts, as they compare after normalising
    NamedBy,       \* NamedBy[n]: the products of the catalogue with name n
    Instant,       \* dates of purchases and departures
    Amount,        \* totals on receipts
    Readable,      \* what the provider may read of a receipt or a flight
    None           \* no row

Currency == {"KRW", "USD"}

Receipt ==
    [trip : Trip \cup {Null}, method : RefundMethod,
     purchased : Instant \cup {Null}, amount : Amount \cup {Null},
     currency : Currency \cup {Null}, products : SUBSET Product]

FlightFields == {"departs", "lands"}

Flight ==
    [trip : Trip \cup {Null},
     departs : Instant \cup {Null}, lands : Instant \cup {Null}]

\* What the user may change of a flight.
Changes == UNION {[fields -> Instant \cup {Null}] : fields \in SUBSET FlightFields}

Extraction ==
    [kind : {"receipt"}, purchased : Instant \cup {Null},
     amount : Amount \cup {Null}, currency : Currency \cup {Null},
     names : (SUBSET ItemName) \ {{}}]
      \cup [kind : {"flight"}, departs : Instant \cup {Null},
            lands : Instant \cup {Null}]

Call ==
    [op : {"receipt", "flight"}, trip : Trip \cup {Null, NoTrip}]
      \cup [op : {"departure"}, flight : Req, changes : Changes]
      \cup [op : {"refund"}, purchase : Req, method : RefundMethod]
      \cup [op : {"review"}, purchased : SUBSET Product]
      \cup [op : {"checklist"}, trip : Trip \cup {NoTrip}]

ASSUME PurchasesAssumption ==
    /\ Null \notin Trip /\ Null \notin Instant /\ Null \notin Amount
    /\ NoTrip \notin Trip \cup {Null} /\ None \notin Receipt
    /\ Amount \subseteq Nat /\ Instant \subseteq Date
    /\ NamedBy \in [ItemName -> SUBSET Product]
    /\ Readable \subseteq Extraction
    /\ CallsOf \in [Req -> SUBSET Call]
    /\ Before \in [Req -> SUBSET Req]

VARIABLES
    receipts,      \* receipts by the request that inserted them
    flights,       \* flights in order of created_at, with their request
    marks,         \* session_products with purchase_state PURCHASED
    seen,          \* the row a PATCH has read, the rows a checklist has
    told           \* what a checklist answered

database == <<receipts, flights, marks>>
vars     == <<database, pc, call, answer, seen, told>>

NothingTold == [status |-> "", items |-> {}]

TypeOK ==
    /\ receipts \in [Req -> Receipt \cup {None}]
    /\ \A i \in DOMAIN flights :
          flights[i].by \in Req /\ flights[i].row \in Flight
    /\ marks \subseteq Product
    /\ pc \in [Req -> {"idle", "receipt", "flight", "departure", "refund",
                       "marks", "latest flight", "done"}]
    /\ call \in [Req -> Call \cup {NoCall}]
    /\ answer \in [Req -> {"", "200", "201", "404", "503"}]
    /\ \A r \in Req : told[r] # NothingTold =>
          /\ told[r].status \in {"NO_ELIGIBLE_PURCHASES",
                                 "IMMEDIATE_REFUND_ONLY", "ACTION_REQUIRED"}
          /\ told[r].items \subseteq
                Papers \cup {"receive-refund", "export-deadline-warning"}

Init ==
    /\ receipts = [r \in Req |-> None]
    /\ flights = <<>>
    /\ marks = {}
    /\ RequestInit
    /\ seen = [r \in Req |-> None]
    /\ told = [r \in Req |-> NothingTold]

Asked(r, c, op) == c.op = op /\ Send(r, c)

-----------------------------------------------------------------------------
(* POST /me/receipts/analyze and /me/flights/analyze                       *)

\* The trip is looked up before the provider is asked.
AnalyzeStart(r) ==
    /\ \E c \in CallsOf[r] :
          /\ c.op \in {"receipt", "flight"}
          /\ Send(r, c)
          /\ IF c.trip = NoTrip THEN Reply(r, "404") ELSE Goto(r, c.op)
    /\ UNCHANGED <<database, seen, told>>

\* The provider timed out, failed, or returned what the schema refuses.
ProviderFails(r) ==
    /\ pc[r] \in {"receipt", "flight"}
    /\ Reply(r, "503")
    /\ UNCHANGED <<database, call, seen, told>>

\* A plausible bug: the names are stored where products belong.
MatchedNames(names) == names

\* Items are matched to the catalogue by names only one product has.
Matched(names) ==
    UNION {NamedBy[n] : n \in {m \in names : Cardinality(NamedBy[m]) = 1}}

ReceiptStore(r) ==
    /\ pc[r] = "receipt"
    /\ \E e \in Readable :
          /\ e.kind = "receipt"
          /\ receipts' = [receipts EXCEPT ![r] =
                [trip |-> call[r].trip, method |-> "UNKNOWN",
                 purchased |-> e.purchased, amount |-> e.amount,
                 currency |-> e.currency, products |-> Matched(e.names)]]
    /\ Reply(r, "201")
    /\ UNCHANGED <<flights, marks, call, seen, told>>

FlightStore(r) ==
    /\ pc[r] = "flight"
    /\ \E e \in Readable :
          /\ e.kind = "flight"
          /\ flights' = Append(flights,
                [by |-> r, row |-> [trip |-> call[r].trip,
                                    departs |-> e.departs, lands |-> e.lands]])
    /\ Reply(r, "201")
    /\ UNCHANGED <<receipts, marks, call, seen, told>>

-----------------------------------------------------------------------------
(* PATCH /me/flights/{flightId} and /me/purchases/{purchaseId}             *)

FlightsOf(q) == {i \in DOMAIN flights : flights[i].by = q}

DepartureRead(r) ==
    /\ \E c \in CallsOf[r] :
          /\ Asked(r, c, "departure")
          /\ IF FlightsOf(c.flight) = {} THEN Reply(r, "404") /\ UNCHANGED seen
             ELSE /\ Goto(r, "departure")
                  /\ \E i \in FlightsOf(c.flight) :
                        seen' = [seen EXCEPT ![r] = flights[i].row]
    /\ UNCHANGED <<database, told>>

Changed(row, changes) ==
    [f \in DOMAIN row |-> IF f \in DOMAIN changes THEN changes[f] ELSE row[f]]

DepartureCommit(r) ==
    /\ pc[r] = "departure"
    /\ \E i \in FlightsOf(call[r].flight) :
          flights' = [flights EXCEPT ![i].row =
                        PatchRow(@, seen[r], Changed(seen[r], call[r].changes))]
    /\ Reply(r, "200")
    /\ UNCHANGED <<receipts, marks, call, seen, told>>

RefundRead(r) ==
    /\ \E c \in CallsOf[r] :
          /\ Asked(r, c, "refund")
          /\ IF receipts[c.purchase] = None THEN Reply(r, "404") /\ UNCHANGED seen
             ELSE /\ Goto(r, "refund")
                  /\ seen' = [seen EXCEPT ![r] = receipts[c.purchase]]
    /\ UNCHANGED <<database, told>>

RefundCommit(r) ==
    LET c == call[r]
    IN  /\ pc[r] = "refund"
        /\ receipts' = [receipts EXCEPT ![c.purchase] =
              PatchRow(@, seen[r], [seen[r] EXCEPT !.method = c.method])]
        /\ Reply(r, "200")
        /\ UNCHANGED <<flights, marks, call, seen, told>>

\* The review of a shopping session, as Shopping has it.
Review(r) ==
    /\ \E c \in CallsOf[r] : Asked(r, c, "review") /\ marks' = c.purchased
    /\ Reply(r, "200")
    /\ UNCHANGED <<receipts, flights, seen, told>>

-----------------------------------------------------------------------------
(* GET /me/trips/{tripId}/refund-checklist: four SELECTs. The first, of    *)
(* the trip, commutes with everything, as trips are never deleted.         *)

\* A plausible bug: the receipts of the user, whatever their trip.
OnAnyTrip(t) == {q \in Req : receipts[q] # None}

OnTrip(t) == {q \in Req : receipts[q] # None /\ receipts[q].trip = t}

ChecklistReceipts(r) ==
    /\ \E c \in CallsOf[r] :
          /\ Asked(r, c, "checklist")
          /\ IF c.trip = NoTrip THEN Reply(r, "404") /\ UNCHANGED seen
             ELSE /\ Goto(r, "marks")
                  /\ seen' = [seen EXCEPT ![r] =
                        [purchases |-> [q \in OnTrip(c.trip) |-> receipts[q]],
                         marks |-> {}]]
    /\ UNCHANGED <<database, told>>

ChecklistMarks(r) ==
    /\ pc[r] = "marks"
    /\ IF Status(seen[r].purchases, marks) = "NO_ELIGIBLE_PURCHASES"
       THEN /\ told' = [told EXCEPT ![r] =
                          [status |-> "NO_ELIGIBLE_PURCHASES", items |-> {}]]
            /\ Reply(r, "200")
            /\ UNCHANGED seen
       ELSE /\ seen' = [seen EXCEPT ![r].marks = marks]
            /\ Goto(r, "latest flight")
            /\ UNCHANGED told
    /\ UNCHANGED <<database, call>>

\* The departure of the flight of the trip that was stored last.
Departure(t) ==
    LET on == {i \in DOMAIN flights : flights[i].row.trip = t}
    IN  IF on = {} THEN Null ELSE flights[Max(on)].row.departs

ChecklistFlight(r) ==
    LET P == seen[r].purchases
        m == seen[r].marks
    IN  /\ pc[r] = "latest flight"
        /\ told' = [told EXCEPT ![r] =
              [status |-> Status(P, m),
               items  |-> Items(P, m, Departure(call[r].trip))]]
        /\ Reply(r, "200")
        /\ UNCHANGED <<database, call, seen>>

-----------------------------------------------------------------------------

Proceed(r) ==
    \/ ReceiptStore(r) \/ FlightStore(r) \/ ProviderFails(r)
    \/ DepartureCommit(r) \/ RefundCommit(r)
    \/ ChecklistMarks(r) \/ ChecklistFlight(r)

Next ==
    \/ \E r \in Req :
          \/ AnalyzeStart(r) \/ DepartureRead(r) \/ RefundRead(r) \/ Review(r)
          \/ ChecklistReceipts(r)
          \/ Proceed(r)
    \/ AllAnswered /\ UNCHANGED vars

Spec == Init /\ [][Next]_vars

-----------------------------------------------------------------------------
(* Correctness.                                                            *)

\* A checklist was answered for trip t.
Answered(r, t) == told[r] # NothingTold /\ call[r].trip = t

\* The refund methods receipt q may have had when r read it.
MethodsSeen(q, r) ==
    LET recording == {u \in Req : call[u].op = "refund" /\ call[u].purchase = q}
    IN  {call[u].method : u \in recording}
          \cup (IF \E u \in recording \cap Before[r] : answer[u] = "200"
                THEN {} ELSE {"UNKNOWN"})

\* Nothing bought before the checklist is asked for is overlooked
\* (RefundChecklistService.build). A receipt is a purchase; unless it may be an
\* immediate refund, the papers are asked for; and if the refund is still to be
\* had, so is that step: no method recorded for one purchase hides another. A
\* product marked as purchased counts as a purchase whose refund is still to
\* be had, unless a later review took the mark away.
ChecklistSeesEarlierPurchases ==
    \A t \in Trip, r \in Req : Answered(r, t) =>
        \A q \in Before[r] :
            /\ call[q].op = "receipt" /\ call[q].trip = t /\ answer[q] = "201" =>
                /\ told[r].status # "NO_ELIGIBLE_PURCHASES"
                /\ "IMMEDIATE" \notin MethodsSeen(q, r) =>
                      told[r].status = "ACTION_REQUIRED" /\ Papers \subseteq told[r].items
                /\ MethodsSeen(q, r) \subseteq {"AIRPORT", "UNKNOWN"} =>
                      "receive-refund" \in told[r].items
            /\ /\ call[q].op = "review" /\ call[q].purchased # {}
               /\ \A u \in Req \ {q} : call[u].op = "review" => u \in Before[q]
               => told[r].status = "ACTION_REQUIRED" /\ "receive-refund" \in told[r].items

\* Nobody is sent to a refund counter for nothing: a receipt of this trip may
\* still be unrefunded, or a product was marked.
RefundOnlyIfDue ==
    \A t \in Trip, r \in Req :
        Answered(r, t) /\ "receive-refund" \in told[r].items =>
            \/ \E q \in Req : /\ call[q].op = "receipt" /\ call[q].trip = t
                            /\ MethodsSeen(q, r) \cap {"AIRPORT", "UNKNOWN"} # {}
            \/ \E q \in Req : call[q].op = "review" /\ call[q].purchased # {}

\* The calendar's own account of a departure more than three months after a
\* purchase.
Overdue(purchased, departs) ==
    LET from == 12 * purchased.year + purchased.month + ExportDeadlineMonths
        to   == 12 * departs.year + departs.month
        last == departs.day = DaysIn(departs.year, departs.month)
    IN  \/ to > from
        \/ to = from /\ departs.day > purchased.day
        \/ /\ to = from /\ departs.time > purchased.time
           /\ \/ departs.day = purchased.day
              \/ last /\ purchased.day > departs.day

\* The checklist warns exactly when the flight stored last leaves more than
\* three months after a purchase of the trip, for flights that are stored and
\* edited before it is asked for.
DeadlineWarned ==
    \A t \in Trip, r \in Req : Answered(r, t) =>
        \A i \in DOMAIN flights :
            LET f       == flights[i].by
                departs == flights[i].row.departs
                due(q)  == /\ receipts[q] # None /\ receipts[q].trip = t
                           /\ receipts[q].purchased # Null /\ departs # Null
                           /\ Overdue(receipts[q].purchased, departs)
            IN  /\ f \in Before[r] /\ call[f].trip = t
                /\ \A g \in Req \ {f} :
                      /\ call[g].op = "flight" /\ call[g].trip = t => g \in Before[f]
                      /\ call[g].op = "departure" => g \in Before[r]
                => /\ "export-deadline-warning" \in told[r].items =>
                         \E q \in Req : due(q)
                   /\ (\E q \in Before[r] : due(q)) =>
                         "export-deadline-warning" \in told[r].items

\* Recording how a purchase was refunded does not change whether its amount
\* would have allowed an immediate refund: it counts once among the others
\* either way (_potential_immediate_eligibility).
RecordingDoesNotMoveEligibility ==
    \A t \in Trip :
        LET P == [q \in OnTrip(t) |-> receipts[q]]
        IN  \A q \in DOMAIN P :
                Eligible([P EXCEPT ![q].method = "IMMEDIATE"], q)
                  = Eligible([P EXCEPT ![q].method = "AIRPORT"], q)
=============================================================================
