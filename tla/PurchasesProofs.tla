--------------------------- MODULE PurchasesProofs ---------------------------
(***************************************************************************)
(* The export deadline for all dates, Purchases for every set of requests, *)
(* trips, products and readings of the provider, and the total of refunds. *)
(***************************************************************************)
EXTENDS Purchases, FiniteSetTheorems, TLAPS

\* A month has 28 to 31 days.
LEMMA DaysInBounds ==
    ASSUME NEW year \in Nat, NEW month \in 1 .. 12
    PROVE  DaysIn(year, month) \in 28 .. 31
BY DEF DaysIn

\* Three months later is a date of the calendar, on the same day or, at the
\* end of a shorter month, on its last day (_add_months).
THEOREM DeadlineIsADate ==
    ASSUME NEW d \in Date
    PROVE  AddMonths(d, ExportDeadlineMonths) \in Date
<1> DEFINE year  == d.year + (d.month - 1 + 3) \div 12
           month == ((d.month - 1 + 3) % 12) + 1
           days  == DaysIn(year, month)
           day   == IF days < d.day THEN days ELSE d.day
<1>1. d.year \in Nat /\ d.month \in 1 .. 12 /\ d.day \in 1 .. 31 /\ d.time \in Nat
  BY DEF Date
<1>2. year \in Nat /\ month \in 1 .. 12
  BY <1>1
<1>3. days \in 28 .. 31
  BY <1>2, DaysInBounds
<1>4. day \in 1 .. 31 /\ day <= days
  <2> HIDE DEF year, month, days
  <2> QED
    BY <1>1, <1>3
<1>5. AddMonths(d, ExportDeadlineMonths)
        = [year |-> year, month |-> month, day |-> day, time |-> d.time]
  BY Zenon DEF AddMonths, ExportDeadlineMonths
<1> HIDE DEF year, month, day
<1>6. QED
  BY <1>1, <1>2, <1>4, <1>5 DEF Date

\* Whoever departs on a day after the deadline of a purchase is warned of
\* every purchase that is not later than that one (_exceeds_export_deadline).
\* The day matters: two purchases on the last days of a month have deadlines
\* on one day, and there the hour of the later purchase may be the earlier.
THEOREM OlderPurchasesExceedToo ==
    ASSUME NEW p \in Date, NEW q \in Date, ~Later(p, q), NEW departs \in Date,
           LaterDay(departs, AddMonths(q, ExportDeadlineMonths))
    PROVE  ExceedsExportDeadline(p, departs)
<1> DEFINE P == AddMonths(p, 3)
           Q == AddMonths(q, 3)
<1>1. P \in Date /\ Q \in Date
  BY DeadlineIsADate DEF ExportDeadlineMonths
<1>2. /\ P.year \in Nat /\ P.month \in Nat /\ P.day \in Nat
      /\ Q.year \in Nat /\ Q.month \in Nat /\ Q.day \in Nat
      /\ departs.year \in Nat /\ departs.month \in Nat /\ departs.day \in Nat
  <2> HIDE DEF P, Q
  <2> QED
    BY <1>1 DEF Date
<1>3. /\ p.year \in Nat /\ p.month \in 1 .. 12 /\ p.day \in 1 .. 31
      /\ q.year \in Nat /\ q.month \in 1 .. 12 /\ q.day \in 1 .. 31
  BY DEF Date
<1>4. ~LaterDay(P, Q)
  <2>1. CASE p.year = q.year /\ p.month = q.month
    <3> DEFINE days == DaysIn(p.year + (p.month - 1 + 3) \div 12,
                             ((p.month - 1 + 3) % 12) + 1)
    <3>1. /\ P.year = Q.year /\ P.month = Q.month
          /\ P.day = IF days < p.day THEN days ELSE p.day
          /\ Q.day = IF days < q.day THEN days ELSE q.day
      BY <2>1 DEF AddMonths
    <3>2. days \in 28 .. 31
      BY <1>3, DaysInBounds
    <3>3. p.day <= q.day
      BY <1>3, <2>1 DEF Later, LaterDay
    <3> HIDE DEF P, Q, days
    <3>4. P.day <= Q.day
      BY <1>3, <3>1, <3>2, <3>3
    <3>5. QED
      BY <1>2, <3>1, <3>4 DEF LaterDay
  <2>2. CASE p.year < q.year \/ (p.year = q.year /\ p.month < q.month)
    <3>1. /\ P.year = p.year + (p.month - 1 + 3) \div 12
          /\ P.month = ((p.month - 1 + 3) % 12) + 1
          /\ Q.year = q.year + (q.month - 1 + 3) \div 12
          /\ Q.month = ((q.month - 1 + 3) % 12) + 1
      BY DEF AddMonths
    <3> HIDE DEF P, Q
    <3>2. P.year < Q.year \/ (P.year = Q.year /\ P.month < Q.month)
      BY <1>3, <2>2, <3>1
    <3>3. QED
      BY <1>2, <3>2 DEF LaterDay
  <2>3. QED
    BY <1>3, <2>1, <2>2 DEF Later, LaterDay
<1>5. LaterDay(departs, Q)
  BY DEF ExportDeadlineMonths
<1>6. LaterDay(departs, P)
  <2> HIDE DEF P, Q
  <2> QED
    BY <1>2, <1>4, <1>5 DEF LaterDay
<1>7. QED
  BY <1>6 DEF ExceedsExportDeadline, ExportDeadlineMonths, Later
\* The deadline of the code is the one of the calendar: months are counted, and
\* a day the later month does not have is its last one (_add_months).
LEMMA OverdueIsExceeding ==
    ASSUME NEW p \in Date, NEW d \in Date
    PROVE  ExceedsExportDeadline(p, d) <=> Overdue(p, d)
<1> DEFINE Q == AddMonths(p, 3)
           days == DaysIn(p.year + (p.month - 1 + 3) \div 12,
                          ((p.month - 1 + 3) % 12) + 1)
<1>1. Q \in Date
  BY DeadlineIsADate DEF ExportDeadlineMonths
<1>2. /\ p.year \in Nat /\ p.month \in 1 .. 12 /\ p.day \in 1 .. 31 /\ p.time \in Nat
      /\ d.year \in Nat /\ d.month \in 1 .. 12 /\ d.day \in 1 .. 31 /\ d.time \in Nat
      /\ d.day <= DaysIn(d.year, d.month)
  BY DEF Date
<1>3. /\ Q.year \in Nat /\ Q.month \in 1 .. 12
      /\ 12 * Q.year + Q.month = 12 * p.year + p.month + 3
      /\ Q.day = IF days < p.day THEN days ELSE p.day
      /\ Q.time = p.time /\ days = DaysIn(Q.year, Q.month)
  <2>1. /\ Q.year = p.year + (p.month - 1 + 3) \div 12
        /\ Q.month = ((p.month - 1 + 3) % 12) + 1
        /\ Q.day = IF days < p.day THEN days ELSE p.day
        /\ Q.time = p.time
    BY DEF AddMonths
  <2>2. Q.year \in Nat /\ Q.month \in 1 .. 12
    <3> HIDE DEF Q
    <3> QED
      BY <1>1 DEF Date
  <2>3. days = DaysIn(Q.year, Q.month)
    BY <2>1
  <2> HIDE DEF Q, days
  <2> QED
    BY <1>2, <2>1, <2>2, <2>3
<1>4. days \in 28 .. 31
  BY <1>3, DaysInBounds
<1>5. /\ ExceedsExportDeadline(p, d) <=> Later(d, Q)
      /\ Overdue(p, d) <=>
           LET from == 12 * p.year + p.month + 3
               to   == 12 * d.year + d.month
               last == d.day = DaysIn(d.year, d.month)
           IN  \/ to > from
               \/ to = from /\ d.day > p.day
               \/ /\ to = from /\ d.time > p.time
                  /\ \/ d.day = p.day
                     \/ last /\ p.day > d.day
  BY DEF ExceedsExportDeadline, Overdue, ExportDeadlineMonths
<1> HIDE DEF Q, days
<1>6. CASE d.year = Q.year /\ d.month = Q.month
  <2>1. d.day <= days /\ 12 * d.year + d.month = 12 * p.year + p.month + 3
    BY <1>2, <1>3, <1>6
  <2>2. Later(d, Q) <=> d.day > Q.day \/ (d.day = Q.day /\ d.time > p.time)
    BY <1>2, <1>3, <1>6 DEF Later, LaterDay
  <2>3. Overdue(p, d) <=> \/ d.day > p.day
                          \/ /\ d.time > p.time
                             /\ d.day = p.day \/ (d.day = days /\ p.day > d.day)
    BY <1>2, <1>3, <1>5, <1>6, <2>1
  <2> QED
    BY <1>2, <1>3, <1>4, <1>5, <2>1, <2>2, <2>3
<1>7. CASE ~(d.year = Q.year /\ d.month = Q.month)
  <2>1. Later(d, Q) <=> d.year > Q.year \/ (d.year = Q.year /\ d.month > Q.month)
    BY <1>2, <1>3, <1>7 DEF Later, LaterDay
  <2>2. Overdue(p, d) <=> 12 * d.year + d.month > 12 * p.year + p.month + 3
    <3>1. 12 * d.year + d.month # 12 * p.year + p.month + 3
      BY <1>2, <1>3, <1>7
    <3> QED
      BY <1>5, <3>1
  <2> QED
    BY <1>2, <1>3, <1>5, <1>7, <2>1, <2>2
<1> QED
  BY <1>6, <1>7

-----------------------------------------------------------------------------
(* Type correctness. A handler's step tells which call it serves; a row it *)
(* has read is still there when it writes.                                 *)

Entry == [by : Req, row : Flight]

\* What a checklist has read.
View == [purchases : UNION {[S -> Receipt] : S \in SUBSET Req},
         marks : SUBSET Product]

Begun(r) ==
    LET c == call[r]
    IN  /\ IF pc[r] = "idle" THEN c = NoCall ELSE c \in Call
        /\ pc[r] # "done" => /\ answer[r] = "" /\ told[r] = NothingTold
                             /\ receipts[r] = None /\ FlightsOf(r) = {}
        /\ pc[r] \in {"receipt", "flight"} => c.op = pc[r] /\ c.trip # NoTrip
        /\ pc[r] = "departure" => /\ c.op = "departure"
                                  /\ seen[r] \in Flight /\ FlightsOf(c.flight) # {}
        /\ pc[r] = "refund" => /\ c.op = "refund"
                               /\ seen[r] \in Receipt /\ receipts[c.purchase] # None
        /\ pc[r] \in {"marks", "latest flight"} =>
              c.op = "checklist" /\ c.trip # NoTrip /\ seen[r] \in View
        /\ told[r] # NothingTold => c.op = "checklist"

TypeInv ==
    /\ TypeOK
    /\ flights \in Seq(Entry)
    /\ DOMAIN seen = Req /\ DOMAIN told = Req
    /\ \A r \in Req : Begun(r)

\* The first step of a handler, which sends its call, and a later one.
Arrive(r) ==
    \/ AnalyzeStart(r) \/ DepartureRead(r) \/ RefundRead(r) \/ Review(r)
    \/ ChecklistReceipts(r)

Acts(r) == Arrive(r) \/ Proceed(r)

Step == {"receipt", "flight", "departure", "refund", "marks", "latest flight"}

\* The fields of a call, by its operation.
LEMMA CallFields ==
    ASSUME NEW c \in Call
    PROVE  /\ c.op \in {"receipt", "flight"} => c.trip \in Trip \cup {Null, NoTrip}
           /\ c.op = "departure" => c.flight \in Req /\ c.changes \in Changes
           /\ c.op = "refund" => c.purchase \in Req /\ c.method \in RefundMethod
           /\ c.op = "review" => c.purchased \subseteq Product
           /\ c.op = "checklist" => c.trip \in Trip \cup {NoTrip}
           /\ c # NoCall
  BY DEF Call, NoCall

\* What a request sends is one of its calls.
LEMMA SendType ==
    ASSUME TypeInv, NEW r \in Req, NEW c \in CallsOf[r], Send(r, c)
    PROVE  /\ c \in Call /\ pc[r] = "idle" /\ call[r] = NoCall
           /\ call' \in [Req -> Call \cup {NoCall}]
           /\ call'[r] = c
           /\ \A q \in Req \ {r} : call'[q] = call[q]
           /\ \A q \in Before[r] : pc[q] = "done"
<1>1. c \in Call
  BY PurchasesAssumption
<1>2. /\ call' = [call EXCEPT ![r] = c] /\ pc[r] = "idle"
      /\ \A q \in Before[r] : pc[q] = "done"
  BY DEF Send
<1>3. call[r] = NoCall
  BY <1>2 DEF TypeInv, Begun
<1> QED
  BY <1>1, <1>2, <1>3 DEF TypeInv, TypeOK

\* A request that goes on.
LEMMA GotoType ==
    ASSUME TypeInv, NEW r \in Req, NEW step \in Step, Goto(r, step)
    PROVE  /\ pc' \in [Req -> Step \cup {"idle", "done"}]
           /\ UNCHANGED answer /\ pc'[r] = step
           /\ \A q \in Req \ {r} : pc'[q] = pc[q]
<1>1. pc \in [Req -> Step \cup {"idle", "done"}] /\ pc' = [pc EXCEPT ![r] = step]
  BY DEF TypeInv, TypeOK, Goto, Step
<1> QED
  BY <1>1 DEF Goto

\* One that answers.
LEMMA ReplyType ==
    ASSUME TypeInv, NEW r \in Req, NEW code \in {"200", "201", "404", "503"},
           Reply(r, code)
    PROVE  /\ pc' \in [Req -> Step \cup {"idle", "done"}]
           /\ answer' \in [Req -> {"", "200", "201", "404", "503"}]
           /\ pc'[r] = "done" /\ answer'[r] = code
           /\ \A q \in Req \ {r} : pc'[q] = pc[q] /\ answer'[q] = answer[q]
<1>1. /\ pc \in [Req -> Step \cup {"idle", "done"}]
      /\ answer \in [Req -> {"", "200", "201", "404", "503"}]
      /\ pc' = [pc EXCEPT ![r] = "done"] /\ answer' = [answer EXCEPT ![r] = code]
  BY DEF TypeInv, TypeOK, Reply, Step
<1> QED
  BY <1>1

Moves(r) ==
    /\ pc' \in [Req -> Step \cup {"idle", "done"}] /\ pc'[r] # "idle"
    /\ answer' \in [Req -> {"", "200", "201", "404", "503"}]
    /\ call' \in [Req -> Call \cup {NoCall}] /\ call'[r] \in Call
    /\ DOMAIN seen' = Req /\ DOMAIN told' = Req
    /\ pc[r] # "done"
    /\ pc[r] # "idle" => call'[r] = call[r]
    /\ pc[r] = "idle" => /\ call[r] = NoCall
                         /\ \A q \in Before[r] : pc[q] = "done"
    /\ answer'[r] # "" => pc'[r] = "done"
    /\ \A q \in Req \ {r} :
          /\ pc'[q] = pc[q] /\ call'[q] = call[q] /\ answer'[q] = answer[q]
          /\ seen'[q] = seen[q] /\ told'[q] = told[q]

\* A step of a handler is one of a request under way, and moves no other.
LEMMA OneMoves ==
    ASSUME TypeInv, NEW r \in Req, Acts(r)
    PROVE  Moves(r)
<1>1. /\ DOMAIN seen' = Req /\ DOMAIN told' = Req
      /\ \A q \in Req \ {r} : seen'[q] = seen[q] /\ told'[q] = told[q]
  <2>1. UNCHANGED told \/ \E v : told' = [told EXCEPT ![r] = v]
    BY DEF Acts, Arrive, Proceed, AnalyzeStart, DepartureRead, RefundRead, Review,
       ChecklistReceipts, ReceiptStore, FlightStore, ProviderFails, DepartureCommit,
       RefundCommit, ChecklistMarks, ChecklistFlight
  <2>2. UNCHANGED seen \/ \E v : seen' = [seen EXCEPT ![r] = v]
    <3>1. CASE ChecklistMarks(r)
      <4>1. UNCHANGED seen \/ seen' = [seen EXCEPT ![r] = [seen[r] EXCEPT !.marks = marks]]
        BY <3>1 DEF ChecklistMarks, TypeInv
      <4> QED
        BY <4>1
    <3>2. CASE ~ChecklistMarks(r)
      BY <3>2 DEF Acts, Arrive, Proceed, AnalyzeStart, DepartureRead, RefundRead,
         Review, ChecklistReceipts, ReceiptStore, FlightStore, ProviderFails,
         DepartureCommit, RefundCommit, ChecklistFlight
    <3> QED
      BY <3>1, <3>2
  <2> QED
    BY <2>1, <2>2 DEF TypeInv
<1>2. \/ \E step \in Step : Goto(r, step)
      \/ \E code \in {"200", "201", "404", "503"} : Reply(r, code)
  BY DEF Acts, Arrive, Proceed, AnalyzeStart, DepartureRead, RefundRead, Review,
     ChecklistReceipts, ReceiptStore, FlightStore, ProviderFails, DepartureCommit,
     RefundCommit, ChecklistMarks, ChecklistFlight, Step
<1>3. /\ pc' \in [Req -> Step \cup {"idle", "done"}] /\ pc'[r] # "idle"
      /\ answer' \in [Req -> {"", "200", "201", "404", "503"}]
      /\ \A q \in Req \ {r} : pc'[q] = pc[q] /\ answer'[q] = answer[q]
      /\ pc'[r] = "done" \/ UNCHANGED answer
  <2>1. ASSUME NEW step \in Step, Goto(r, step)
        PROVE  /\ pc' \in [Req -> Step \cup {"idle", "done"}] /\ pc'[r] = step
               /\ UNCHANGED answer
               /\ \A q \in Req \ {r} : pc'[q] = pc[q]
    BY <2>1, GotoType
  <2>2. ASSUME NEW code \in {"200", "201", "404", "503"}, Reply(r, code)
        PROVE  /\ pc' \in [Req -> Step \cup {"idle", "done"}] /\ pc'[r] = "done"
               /\ answer' \in [Req -> {"", "200", "201", "404", "503"}]
               /\ \A q \in Req \ {r} : pc'[q] = pc[q] /\ answer'[q] = answer[q]
    BY <2>2, ReplyType
  <2>3. "idle" \notin Step /\ answer \in [Req -> {"", "200", "201", "404", "503"}]
    BY DEF Step, TypeInv, TypeOK
  <2> HIDE DEF Step
  <2> QED
    BY <1>2, <2>1, <2>2, <2>3
<1>4. CASE Arrive(r)
  <2>1. PICK c \in CallsOf[r] : Send(r, c)
    BY <1>4 DEF Arrive, AnalyzeStart, DepartureRead, RefundRead, Review,
       ChecklistReceipts, Asked
  <2>2. /\ c \in Call /\ pc[r] = "idle" /\ call[r] = NoCall
        /\ call' \in [Req -> Call \cup {NoCall}]
        /\ call'[r] = c
        /\ \A q \in Req \ {r} : call'[q] = call[q]
        /\ \A q \in Before[r] : pc[q] = "done"
    BY <2>1, SendType
  <2>3. answer[r] = ""
    BY <2>2 DEF TypeInv, Begun
  <2> QED
    BY <1>1, <1>3, <2>2, <2>3 DEF Moves
<1>5. CASE Proceed(r)
  <2>1. pc[r] \in Step /\ UNCHANGED call
    BY <1>5 DEF Proceed, ReceiptStore, FlightStore, ProviderFails, DepartureCommit,
       RefundCommit, ChecklistMarks, ChecklistFlight, Step
  <2>2. answer[r] = "" /\ call[r] \in Call
    BY <2>1 DEF TypeInv, Begun, Step
  <2> QED
    BY <1>1, <1>3, <2>1, <2>2 DEF Moves, Step, TypeInv, TypeOK
<1> QED
  BY <1>4, <1>5 DEF Acts

\* Products of a receipt are products of the catalogue.
LEMMA MatchedType ==
    ASSUME NEW names \in SUBSET ItemName
    PROVE  Matched(names) \subseteq Product
  BY PurchasesAssumption DEF Matched

\* The receipt a refund method is recorded in.
Recorded(stored, before, method) ==
    PatchRow(stored, before, [before EXCEPT !.method = method])

\* Recording a refund changes the method and nothing else.
LEMMA RecordedRow ==
    ASSUME NEW stored \in Receipt, NEW before \in Receipt, NEW method \in RefundMethod
    PROVE  LET row == Recorded(stored, before, method)
           IN  /\ row \in Receipt
               /\ row.trip = stored.trip /\ row.purchased = stored.purchased
<1>0. PICK row : row = Recorded(stored, before, method)
  OBVIOUS
<1> DEFINE new == [before EXCEPT !.method = method]
           stays == [stored EXCEPT !.method = Column(stored.method, before.method, method)]
           fields == {"trip", "method", "purchased", "amount", "currency", "products"}
<1>1. DOMAIN stored = fields /\ DOMAIN before = fields
  BY DEF Receipt
<1>2. row = [f \in fields |-> Column(stored[f], before[f], new[f])]
  BY <1>0, <1>1 DEF PatchRow, Recorded
<1>3. \A f \in fields : f # "method" => Column(stored[f], before[f], new[f]) = stored[f]
  BY <1>1 DEF Column
<1>4. new["method"] = method
  BY <1>1
<1>5. stays \in Receipt
  BY DEF Receipt, Column
<1>6. stays = [f \in fields |-> stays[f]]
  BY <1>5 DEF Receipt
<1>7. \A f \in fields : stays[f] = Column(stored[f], before[f], new[f])
  BY <1>1, <1>3, <1>4
<1>8. row = stays
  BY <1>2, <1>6, <1>7
<1> QED
  BY <1>0, <1>5, <1>8 DEF Receipt

\* And the method as the ORM writes a column.
LEMMA RecordedMethod ==
    ASSUME NEW stored \in Receipt, NEW before \in Receipt, NEW method \in RefundMethod
    PROVE  Recorded(stored, before, method).method
             = Column(stored.method, before.method, method)
<1>1. "method" \in DOMAIN stored /\ [before EXCEPT !.method = method].method = method
  BY DEF Receipt
<1> QED
  BY <1>1 DEF Recorded, PatchRow

ReceiptsMove(r) ==
    /\ receipts' \in [Req -> Receipt \cup {None}]
    /\ \A q \in Req : receipts[q] # None =>
          /\ receipts'[q] # None
          /\ receipts'[q].trip = receipts[q].trip
          /\ receipts'[q].purchased = receipts[q].purchased
    /\ \A q \in Req : receipts[q] = None /\ receipts'[q] # None =>
          /\ q = r /\ pc[r] = "receipt"
          /\ receipts'[r].trip = call[r].trip /\ receipts'[r].method = "UNKNOWN"
    /\ RefundCommit(r) \/ \A q \in Req : receipts[q] # None => receipts'[q] = receipts[q]
    /\ ReceiptStore(r) => receipts'[r] # None

\* Receipts are stored by their request, for its trip, and keep trip and date.
LEMMA StepReceipts ==
    ASSUME TypeInv, NEW r \in Req, Acts(r)
    PROVE  ReceiptsMove(r)
<1> USE DEF TypeInv, TypeOK
<1>1. CASE ReceiptStore(r)
  <2>1. PICK e \in Readable :
           /\ e.kind = "receipt"
           /\ receipts' = [receipts EXCEPT ![r] =
                [trip |-> call[r].trip, method |-> "UNKNOWN",
                 purchased |-> e.purchased, amount |-> e.amount,
                 currency |-> e.currency, products |-> Matched(e.names)]]
    BY <1>1 DEF ReceiptStore
  <2>2. pc[r] = "receipt" /\ receipts[r] = None
    BY <1>1 DEF ReceiptStore, Begun
  <2>3. call[r].trip \in Trip \cup {Null}
    <3>1. call[r] \in Call /\ call[r].op = "receipt" /\ call[r].trip # NoTrip
      BY <2>2 DEF Begun
    <3> QED
      BY <3>1, CallFields
  <2>4. /\ e.purchased \in Instant \cup {Null} /\ e.amount \in Amount \cup {Null}
        /\ e.currency \in Currency \cup {Null} /\ e.names \in SUBSET ItemName
    BY <2>1, PurchasesAssumption DEF Extraction
  <2>5. PICK row : row = [trip |-> call[r].trip, method |-> "UNKNOWN",
                          purchased |-> e.purchased, amount |-> e.amount,
                          currency |-> e.currency, products |-> Matched(e.names)]
    OBVIOUS
  <2>6. row \in Receipt /\ row.trip = call[r].trip /\ row.method = "UNKNOWN"
    BY <2>3, <2>4, <2>5, MatchedType DEF Receipt, RefundMethod
  <2>7. receipts' = [receipts EXCEPT ![r] = row] /\ row # None
    BY <2>1, <2>5, <2>6, PurchasesAssumption
  <2> QED
    BY <2>2, <2>6, <2>7 DEF ReceiptsMove
<1>2. CASE RefundCommit(r)
  <2>1. pc[r] = "refund"
    BY <1>2 DEF RefundCommit
  <2>2. PICK p : p = call[r].purchase
    OBVIOUS
  <2>3. /\ p \in Req /\ call[r].method \in RefundMethod
        /\ seen[r] \in Receipt /\ receipts[p] \in Receipt
    <3>1. call[r] \in Call /\ call[r].op = "refund"
      BY <2>1 DEF Begun
    <3>2. seen[r] \in Receipt /\ receipts[p] # None
      BY <2>1, <2>2 DEF Begun
    <3> QED
      BY <2>2, <3>1, <3>2, CallFields
  <2>4. PICK row : row = PatchRow(receipts[p], seen[r],
                                  [seen[r] EXCEPT !.method = call[r].method])
    OBVIOUS
  <2>5. /\ row \in Receipt
        /\ row.trip = receipts[p].trip /\ row.purchased = receipts[p].purchased
    <3>1. PICK stored \in Receipt, before \in Receipt, method \in RefundMethod :
             stored = receipts[p] /\ before = seen[r] /\ method = call[r].method
      BY <2>3
    <3>2. row = Recorded(stored, before, method)
      BY <2>4, <3>1 DEF Recorded
    <3>3. /\ row \in Receipt
          /\ row.trip = stored.trip /\ row.purchased = stored.purchased
      BY <3>2, RecordedRow
    <3> QED
      BY <3>1, <3>3
  <2>6. receipts' = [receipts EXCEPT ![p] = row]
    BY <1>2, <2>2, <2>3, <2>4 DEF RefundCommit
  <2>7. None \notin Receipt /\ ~ReceiptStore(r)
    BY <2>1, PurchasesAssumption DEF ReceiptStore
  <2> QED
    BY <1>2, <2>3, <2>5, <2>6, <2>7 DEF ReceiptsMove
<1>3. CASE ~ReceiptStore(r) /\ ~RefundCommit(r)
  <2>1. UNCHANGED receipts
    BY <1>3 DEF Acts, Arrive, Proceed, AnalyzeStart, DepartureRead, RefundRead, Review,
       ChecklistReceipts, FlightStore, ProviderFails, DepartureCommit,
       ChecklistMarks, ChecklistFlight, database
  <2> QED
    BY <1>3, <2>1 DEF ReceiptsMove
<1> QED
  BY <1>1, <1>2, <1>3

FlightsMove(r) ==
    /\ flights' \in Seq(Entry)
    /\ \A i \in DOMAIN flights :
          /\ i \in DOMAIN flights'
          /\ flights'[i].by = flights[i].by
          /\ flights'[i].row.trip = flights[i].row.trip
          /\ DepartureCommit(r) \/ flights'[i] = flights[i]
    /\ \A i \in DOMAIN flights' \ DOMAIN flights :
          /\ FlightStore(r) /\ i = Len(flights) + 1
          /\ flights'[i].by = r /\ flights'[i].row.trip = call[r].trip

\* A flight as it is edited stays one, of its trip.
LEMMA EditedRow ==
    ASSUME NEW stored \in Flight, NEW before \in Flight, NEW changes \in Changes,
           NEW row, row = PatchRow(stored, before, Changed(before, changes))
    PROVE  row \in Flight /\ row.trip = stored.trip
<1> DEFINE new == Changed(before, changes)
           fields == {"trip", "departs", "lands"}
<1>1. DOMAIN stored = fields /\ DOMAIN before = fields
  BY DEF Flight
<1>2. PICK dom \in SUBSET FlightFields : changes \in [dom -> Instant \cup {Null}]
  BY DEF Changes
<1>3. "trip" \notin dom /\ DOMAIN changes = dom
  BY <1>2 DEF FlightFields
<1>4. new = [f \in fields |-> IF f \in dom THEN changes[f] ELSE before[f]]
  BY <1>1, <1>3 DEF Changed
<1>5. /\ new.trip = before.trip
      /\ new.departs \in Instant \cup {Null} /\ new.lands \in Instant \cup {Null}
  BY <1>2, <1>3, <1>4 DEF Flight
<1> HIDE DEF new
<1>6. row = [f \in fields |-> Column(stored[f], before[f], new[f])]
  BY <1>1 DEF PatchRow, new
<1>7. /\ row.trip = stored.trip
      /\ row.departs = Column(stored.departs, before.departs, new.departs)
      /\ row.lands = Column(stored.lands, before.lands, new.lands)
  BY <1>5, <1>6 DEF Column
<1>8. row = [trip |-> row.trip, departs |-> row.departs, lands |-> row.lands]
  BY <1>6
<1>9. /\ row.trip \in Trip \cup {Null}
      /\ row.departs \in Instant \cup {Null} /\ row.lands \in Instant \cup {Null}
  BY <1>5, <1>7 DEF Column, Flight
<1> QED
  BY <1>7, <1>8, <1>9 DEF Flight

\* Flights are stored at the end, by their request, for its trip.
LEMMA StepFlights ==
    ASSUME TypeInv, NEW r \in Req, Acts(r)
    PROVE  FlightsMove(r)
<1> USE DEF TypeInv
<1>1. CASE FlightStore(r)
  <2>1. PICK e \in Readable :
           /\ e.kind = "flight"
           /\ flights' = Append(flights,
                [by |-> r, row |-> [trip |-> call[r].trip,
                                    departs |-> e.departs, lands |-> e.lands]])
    BY <1>1 DEF FlightStore
  <2>2. call[r].trip \in Trip \cup {Null}
    <3>1. pc[r] = "flight"
      BY <1>1 DEF FlightStore
    <3>2. call[r] \in Call /\ call[r].op = "flight" /\ call[r].trip # NoTrip
      BY <3>1 DEF Begun
    <3> QED
      BY <3>2, CallFields
  <2>3. e.departs \in Instant \cup {Null} /\ e.lands \in Instant \cup {Null}
    BY <2>1, PurchasesAssumption DEF Extraction
  <2>4. PICK entry : entry = [by |-> r, row |-> [trip |-> call[r].trip,
                                    departs |-> e.departs, lands |-> e.lands]]
    OBVIOUS
  <2>5. entry \in Entry /\ entry.by = r /\ entry.row.trip = call[r].trip
    BY <2>2, <2>3, <2>4 DEF Entry, Flight
  <2>6. flights' = Append(flights, entry)
    BY <2>1, <2>4
  <2>7. /\ flights' \in Seq(Entry) /\ DOMAIN flights = 1 .. Len(flights)
        /\ DOMAIN flights' = 1 .. (Len(flights) + 1) /\ Len(flights) \in Nat
        /\ flights'[Len(flights) + 1] = entry
        /\ \A i \in 1 .. Len(flights) : flights'[i] = flights[i]
    BY <2>5, <2>6
  <2> QED
    BY <1>1, <2>5, <2>7 DEF FlightsMove
<1>2. CASE DepartureCommit(r)
  <2>1. pc[r] = "departure"
    BY <1>2 DEF DepartureCommit
  <2>2. PICK i \in FlightsOf(call[r].flight) :
           flights' = [flights EXCEPT ![i].row =
                        PatchRow(@, seen[r], Changed(seen[r], call[r].changes))]
    BY <1>2 DEF DepartureCommit
  <2>3. i \in DOMAIN flights
    BY DEF FlightsOf
  <2>4. flights[i] \in Entry
    BY <2>3
  <2>5. PICK stored \in Flight, before \in Flight, changes \in Changes :
           stored = flights[i].row /\ before = seen[r] /\ changes = call[r].changes
    <3>1. call[r] \in Call /\ call[r].op = "departure" /\ seen[r] \in Flight
      BY <2>1 DEF Begun
    <3> QED
      BY <2>4, <3>1, CallFields DEF Entry
  <2>6. PICK row : row = PatchRow(stored, before, Changed(before, changes))
    OBVIOUS
  <2>7. row \in Flight /\ row.trip = stored.trip
    BY <2>6, EditedRow
  <2>8. flights' = [flights EXCEPT ![i].row = row]
    BY <2>2, <2>5, <2>6
  <2>9. PICK entry \in Entry : entry = [flights[i] EXCEPT !.row = row]
    BY <2>4, <2>7 DEF Entry
  <2>10. flights' = [flights EXCEPT ![i] = entry]
    BY <2>8, <2>9
  <2>11. entry.by = flights[i].by /\ entry.row.trip = flights[i].row.trip
    BY <2>4, <2>5, <2>7, <2>9 DEF Entry
  <2>12. flights' \in Seq(Entry) /\ DOMAIN flights' = DOMAIN flights
    BY <2>3, <2>10
  <2>13. \A j \in DOMAIN flights : flights'[j] = IF j = i THEN entry ELSE flights[j]
    BY <2>3, <2>10
  <2> QED
    BY <1>2, <2>11, <2>12, <2>13 DEF FlightsMove
<1>3. CASE ~FlightStore(r) /\ ~DepartureCommit(r)
  <2>1. UNCHANGED flights
    BY <1>3 DEF Acts, Arrive, Proceed, AnalyzeStart, DepartureRead, RefundRead, Review,
       ChecklistReceipts, ReceiptStore, ProviderFails, RefundCommit,
       ChecklistMarks, ChecklistFlight, database
  <2> QED
    BY <2>1 DEF FlightsMove
<1> QED
  BY <1>1, <1>2, <1>3

\* Other handlers find what they have read still there.
LEMMA OthersStayBegun ==
    ASSUME TypeInv, NEW r \in Req, Acts(r), NEW x \in Req \ {r}
    PROVE  Begun(x)'
<1>1. Moves(r) /\ ReceiptsMove(r) /\ FlightsMove(r)
  BY OneMoves, StepReceipts, StepFlights
<1>2. Begun(x)
  BY DEF TypeInv
<1>3. /\ pc'[x] = pc[x] /\ call'[x] = call[x] /\ answer'[x] = answer[x]
      /\ seen'[x] = seen[x] /\ told'[x] = told[x]
  BY <1>1 DEF Moves
<1>4. receipts[x] = None => receipts'[x] = None
  BY <1>1 DEF ReceiptsMove
<1>5. \A q \in Req : receipts[q] # None => receipts'[q] # None
  BY <1>1 DEF ReceiptsMove
<1>6. FlightsOf(x) = {} => FlightsOf(x)' = {}
  BY <1>1 DEF FlightsMove, FlightsOf
<1>7. \A q \in Req : FlightsOf(q) # {} => FlightsOf(q)' # {}
  BY <1>1 DEF FlightsMove, FlightsOf
<1>8. /\ pc[x] = "refund" => call[x].purchase \in Req
      /\ pc[x] = "departure" => call[x].flight \in Req
  BY <1>2, CallFields DEF Begun
<1> QED
  BY <1>2, <1>3, <1>4, <1>5, <1>6, <1>7, <1>8 DEF Begun

\* What the checklist reads of the receipts is rows of receipts.
LEMMA ReadPurchases ==
    ASSUME TypeInv, NEW t
    PROVE  [purchases |-> [q \in OnTrip(t) |-> receipts[q]], marks |-> {}] \in View
<1>1. OnTrip(t) \in SUBSET Req
  BY DEF OnTrip
<1>2. \A q \in OnTrip(t) : receipts[q] \in Receipt
  BY DEF OnTrip, TypeInv, TypeOK
<1> HIDE DEF OnTrip
<1>3. [q \in OnTrip(t) |-> receipts[q]] \in [OnTrip(t) -> Receipt]
  BY <1>2
<1> QED
  BY <1>1, <1>3 DEF View

\* A handler that arrives has what its next step needs.
LEMMA ArriveBegun ==
    ASSUME TypeInv, NEW r \in Req, Arrive(r)
    PROVE  Begun(r)'
<1> USE DEF Step
<1>1. Moves(r) /\ ReceiptsMove(r) /\ FlightsMove(r) /\ UNCHANGED <<receipts, flights, told>>
  BY OneMoves, StepReceipts, StepFlights
  DEF Acts, Arrive, AnalyzeStart, DepartureRead, RefundRead, Review,
      ChecklistReceipts, database
<1>2. PICK c \in CallsOf[r] :
         \/ c.op \in {"receipt", "flight"} /\ Send(r, c) /\ AnalyzeStart(r)
               /\ IF c.trip = NoTrip THEN Reply(r, "404") ELSE Goto(r, c.op)
         \/ c.op = "departure" /\ Send(r, c)
               /\ IF FlightsOf(c.flight) = {} THEN Reply(r, "404") /\ UNCHANGED seen
                  ELSE /\ Goto(r, "departure")
                       /\ \E i \in FlightsOf(c.flight) :
                             seen' = [seen EXCEPT ![r] = flights[i].row]
         \/ c.op = "refund" /\ Send(r, c)
               /\ IF receipts[c.purchase] = None THEN Reply(r, "404") /\ UNCHANGED seen
                  ELSE /\ Goto(r, "refund")
                       /\ seen' = [seen EXCEPT ![r] = receipts[c.purchase]]
         \/ c.op = "review" /\ Send(r, c) /\ Reply(r, "200")
         \/ c.op = "checklist" /\ Send(r, c)
               /\ IF c.trip = NoTrip THEN Reply(r, "404") /\ UNCHANGED seen
                  ELSE /\ Goto(r, "marks")
                       /\ seen' = [seen EXCEPT ![r] =
                             [purchases |-> [q \in OnTrip(c.trip) |-> receipts[q]],
                              marks |-> {}]]
  BY DEF Arrive, AnalyzeStart, DepartureRead, RefundRead, Review, ChecklistReceipts,
     Asked
<1>3. Send(r, c)
  BY <1>2
<1>4. c \in Call /\ pc[r] = "idle" /\ call'[r] = c /\ c # NoCall
  BY <1>3, SendType, CallFields
<1>5. answer[r] = "" /\ told[r] = NothingTold /\ receipts[r] = None /\ FlightsOf(r) = {}
  BY <1>4 DEF TypeInv, Begun
<1>6. FlightsOf(r)' = {} /\ told'[r] = NothingTold /\ receipts'[r] = None
  BY <1>1, <1>5 DEF FlightsOf
<1>7. ASSUME NEW code \in {"200", "404"}, Reply(r, code) PROVE Begun(r)'
  BY <1>4, <1>6, <1>7, ReplyType DEF Begun
<1>8. CASE c.op \in {"receipt", "flight"} /\ c.trip # NoTrip
  <2>1. Goto(r, c.op)
    BY <1>2, <1>8
  <2>2. pc'[r] = c.op /\ answer'[r] = ""
    BY <1>5, <1>8, <2>1, GotoType
  <2> QED
    BY <1>4, <1>6, <1>8, <2>2 DEF Begun
<1>9. CASE c.op = "departure" /\ FlightsOf(c.flight) # {}
  <2>1. PICK i \in FlightsOf(c.flight) : seen' = [seen EXCEPT ![r] = flights[i].row]
    BY <1>2, <1>9
  <2>2. flights[i].row \in Flight
    BY DEF FlightsOf, TypeInv, TypeOK
  <2>3. seen'[r] \in Flight
    BY <2>1, <2>2 DEF TypeInv
  <2>4. Goto(r, "departure")
    BY <1>2, <1>9
  <2>5. pc'[r] = "departure" /\ answer'[r] = ""
    BY <1>5, <2>4, GotoType
  <2>6. FlightsOf(c.flight)' # {}
    BY <1>1, <1>9 DEF FlightsOf
  <2> QED
    BY <1>4, <1>6, <1>9, <2>3, <2>5, <2>6 DEF Begun
<1>10. CASE c.op = "refund" /\ receipts[c.purchase] # None
  <2>1. Goto(r, "refund") /\ seen' = [seen EXCEPT ![r] = receipts[c.purchase]]
    BY <1>2, <1>10
  <2>2. c.purchase \in Req
    BY <1>4, <1>10, CallFields
  <2>3. seen'[r] \in Receipt /\ receipts'[c.purchase] # None
    BY <1>1, <1>10, <2>1, <2>2 DEF TypeInv, TypeOK
  <2>4. pc'[r] = "refund" /\ answer'[r] = ""
    BY <1>5, <2>1, GotoType
  <2> QED
    BY <1>4, <1>6, <1>10, <2>3, <2>4 DEF Begun
<1>11. CASE c.op = "checklist" /\ c.trip # NoTrip
  <2>1. /\ Goto(r, "marks")
        /\ seen' = [seen EXCEPT ![r] =
              [purchases |-> [q \in OnTrip(c.trip) |-> receipts[q]], marks |-> {}]]
    BY <1>2, <1>11
  <2>2. PICK view \in View :
           view = [purchases |-> [q \in OnTrip(c.trip) |-> receipts[q]], marks |-> {}]
    BY ReadPurchases
  <2>3. seen'[r] \in View
    BY <2>1, <2>2 DEF TypeInv
  <2>4. pc'[r] = "marks" /\ answer'[r] = ""
    BY <1>5, <2>1, GotoType
  <2> QED
    BY <1>4, <1>6, <1>11, <2>3, <2>4 DEF Begun
<1> QED
  BY <1>2, <1>7, <1>8, <1>9, <1>10, <1>11

\* What a checklist answers.
Told == [status : {"NO_ELIGIBLE_PURCHASES", "IMMEDIATE_REFUND_ONLY", "ACTION_REQUIRED"},
         items : SUBSET (Papers \cup {"receive-refund", "export-deadline-warning"})]

\* And one that has answered nothing.
LEMMA AnsweredIsTold == NothingTold \notin Told
<1>1. NothingTold.status = ""
  BY DEF NothingTold
<1> QED
  BY <1>1 DEF Told

\* A view read in two steps is one.
LEMMA MarkedView ==
    ASSUME NEW view \in View, NEW m \in SUBSET Product
    PROVE  LET after == [view EXCEPT !.marks = m]
           IN  after \in View /\ after.purchases = view.purchases /\ after.marks = m
  BY DEF View

\* The step of a checklist leaves it with its view, or with an answer.
LEMMA ChecklistSteps ==
    ASSUME TypeInv, NEW r \in Req
    PROVE  /\ ChecklistMarks(r) =>
                \/ /\ Status(seen[r].purchases, marks) = "NO_ELIGIBLE_PURCHASES"
                   /\ told'[r] = [status |-> "NO_ELIGIBLE_PURCHASES", items |-> {}]
                   /\ Reply(r, "200") /\ UNCHANGED seen
                \/ /\ Status(seen[r].purchases, marks) # "NO_ELIGIBLE_PURCHASES"
                   /\ seen'[r] \in View /\ seen'[r].purchases = seen[r].purchases
                   /\ seen'[r].marks = marks
                   /\ Goto(r, "latest flight") /\ UNCHANGED told
           /\ ChecklistFlight(r) =>
                /\ told'[r] = [status |-> Status(seen[r].purchases, seen[r].marks),
                               items |-> Items(seen[r].purchases, seen[r].marks,
                                               Departure(call[r].trip))]
                /\ Reply(r, "200")
<1>1. ASSUME ChecklistMarks(r), Status(seen[r].purchases, marks) # "NO_ELIGIBLE_PURCHASES"
      PROVE  /\ seen'[r] \in View /\ seen'[r].purchases = seen[r].purchases
             /\ seen'[r].marks = marks
  <2>1. pc[r] = "marks" /\ seen' = [seen EXCEPT ![r].marks = marks]
    BY <1>1 DEF ChecklistMarks
  <2>2. PICK view \in View : view = seen[r]
    BY <2>1 DEF TypeInv, Begun
  <2>3. PICK m \in SUBSET Product : m = marks
    BY DEF TypeInv, TypeOK
  <2>4. PICK after : after = [view EXCEPT !.marks = m]
    OBVIOUS
  <2>5. seen'[r] = after
    BY <2>1, <2>2, <2>3, <2>4 DEF TypeInv
  <2> QED
    BY <2>2, <2>3, <2>4, <2>5, MarkedView
<1>2. ASSUME ChecklistMarks(r), Status(seen[r].purchases, marks) = "NO_ELIGIBLE_PURCHASES"
      PROVE  told'[r] = [status |-> "NO_ELIGIBLE_PURCHASES", items |-> {}]
  BY <1>2 DEF ChecklistMarks, TypeInv
<1>3. ASSUME ChecklistFlight(r)
      PROVE  told'[r] = [status |-> Status(seen[r].purchases, seen[r].marks),
                         items |-> Items(seen[r].purchases, seen[r].marks,
                                         Departure(call[r].trip))]
  BY <1>3 DEF ChecklistFlight, TypeInv
<1> QED
  BY <1>1, <1>2, <1>3 DEF ChecklistMarks, ChecklistFlight

\* What is told has its type.
LEMMA StatusType ==
    ASSUME NEW P, NEW m, NEW departs
    PROVE  [status |-> Status(P, m), items |-> Items(P, m, departs)] \in Told
<1>1. Status(P, m) \in {"NO_ELIGIBLE_PURCHASES", "IMMEDIATE_REFUND_ONLY", "ACTION_REQUIRED"}
  BY DEF Status
<1>2. Items(P, m, departs) \subseteq Papers \cup {"receive-refund", "export-deadline-warning"}
  BY DEF Items
<1> QED
  BY <1>1, <1>2 DEF Told

\* A handler that goes on too has what its next step needs.
LEMMA ProceedBegun ==
    ASSUME TypeInv, NEW r \in Req, Proceed(r)
    PROVE  Begun(r)' /\ (told'[r] = told[r] \/ told'[r] \in Told)
<1>1. Moves(r)
  BY OneMoves DEF Acts
<1>2. pc[r] \in Step /\ UNCHANGED call
  BY DEF Proceed, ReceiptStore, FlightStore, ProviderFails, DepartureCommit,
     RefundCommit, ChecklistMarks, ChecklistFlight, Step
<1>3. Begun(r) /\ call[r] \in Call
  BY <1>2 DEF TypeInv, Begun, Step
<1>4. told[r] = NothingTold
  BY <1>2, <1>3 DEF Begun, Step
<1>5. CASE ReceiptStore(r) \/ FlightStore(r) \/ ProviderFails(r)
            \/ DepartureCommit(r) \/ RefundCommit(r)
  <2>1. UNCHANGED told /\ \E code \in {"200", "201", "503"} : Reply(r, code)
    BY <1>5 DEF ReceiptStore, FlightStore, ProviderFails, DepartureCommit, RefundCommit
  <2>2. pc'[r] = "done"
    BY <2>1, ReplyType
  <2> QED
    BY <1>2, <1>3, <1>4, <2>1, <2>2 DEF Begun
<1>6. CASE ChecklistMarks(r)
  <2>1. pc[r] = "marks" /\ UNCHANGED <<receipts, flights>>
    BY <1>6 DEF ChecklistMarks, database
  <2>2. call[r].op = "checklist" /\ call[r].trip # NoTrip
    BY <1>3, <2>1 DEF Begun
  <2>3. CASE Reply(r, "200")
    <3>1. pc'[r] = "done"
      BY <2>3, ReplyType
    <3>2. told'[r] = told[r] \/ told'[r] \in Told
      <4>1. PICK none : none = [status |-> "NO_ELIGIBLE_PURCHASES", items |-> {}]
        OBVIOUS
      <4>2. none \in Told
        BY <4>1 DEF Told
      <4>3. UNCHANGED told \/ told'[r] = none
        BY <1>6, <4>1, ChecklistSteps
      <4> QED
        BY <4>2, <4>3
    <3> QED
      BY <1>2, <1>3, <2>2, <3>1, <3>2 DEF Begun
  <2>4. CASE ~Reply(r, "200")
    <3>1. /\ Goto(r, "latest flight") /\ UNCHANGED told /\ seen'[r] \in View
      BY <1>6, <2>4, ChecklistSteps
    <3>2. pc'[r] = "latest flight" /\ UNCHANGED answer
      BY <3>1, GotoType DEF Step
    <3>3. FlightsOf(r)' = FlightsOf(r)
      BY <2>1 DEF FlightsOf
    <3> QED
      BY <1>2, <1>3, <2>1, <2>2, <3>1, <3>2, <3>3 DEF Begun
  <2> QED
    BY <2>3, <2>4
<1>7. CASE ChecklistFlight(r)
  <2>1. pc[r] = "latest flight" /\ Reply(r, "200")
    BY <1>7 DEF ChecklistFlight
  <2>2. call[r].op = "checklist" /\ pc'[r] = "done"
    BY <1>3, <2>1, ReplyType DEF Begun
  <2>3. PICK P, m, departs : /\ P = seen[r].purchases /\ m = seen[r].marks
                             /\ departs = Departure(call[r].trip)
    OBVIOUS
  <2>4. told'[r] = [status |-> Status(P, m), items |-> Items(P, m, departs)]
    BY <1>7, <2>3, ChecklistSteps
  <2>5. told'[r] \in Told
    BY <2>4, StatusType
  <2> QED
    BY <1>2, <1>3, <2>2, <2>5 DEF Begun
<1> QED
  BY <1>5, <1>6, <1>7 DEF Proceed

\* The type invariant is inductive.
LEMMA StepKeepsType == TypeInv /\ [Next]_vars => TypeInv'
<1>1. ASSUME TypeInv, NEW r \in Req, Acts(r) PROVE TypeInv'
  <2>1. Moves(r) /\ ReceiptsMove(r) /\ FlightsMove(r)
    BY <1>1, OneMoves, StepReceipts, StepFlights
  <2>2. \A x \in Req : Begun(x)'
    BY <1>1, OthersStayBegun, ArriveBegun, ProceedBegun DEF Acts
  <2>3. marks' \subseteq Product
    <3>1. CASE Review(r)
      <4>1. PICK c \in CallsOf[r] : c.op = "review" /\ marks' = c.purchased
        BY <3>1 DEF Review, Asked
      <4>2. c \in Call
        BY PurchasesAssumption
      <4> QED
        BY <4>1, <4>2, CallFields
    <3>2. CASE ~Review(r)
      BY <1>1, <3>2 DEF Acts, Arrive, Proceed, AnalyzeStart, DepartureRead, RefundRead,
         ChecklistReceipts, ReceiptStore, FlightStore, ProviderFails, DepartureCommit,
         RefundCommit, ChecklistMarks, ChecklistFlight, database, TypeInv, TypeOK
    <3> QED
      BY <3>1, <3>2
  <2>4. \A x \in Req : told'[x] # NothingTold =>
           /\ told'[x].status \in {"NO_ELIGIBLE_PURCHASES",
                                   "IMMEDIATE_REFUND_ONLY", "ACTION_REQUIRED"}
           /\ told'[x].items \subseteq
                 Papers \cup {"receive-refund", "export-deadline-warning"}
    <3>1. \A x \in Req : told'[x] = told[x] \/ told'[x] \in Told
      <4>1. Arrive(r) => UNCHANGED told
        BY DEF Arrive, AnalyzeStart, DepartureRead, RefundRead, Review, ChecklistReceipts
      <4> QED
        BY <1>1, <2>1, <4>1, ProceedBegun DEF Acts, Moves
    <3> QED
      BY <1>1, <3>1 DEF Told, TypeInv, TypeOK
  <2>5. /\ pc' \in [Req -> {"idle", "receipt", "flight", "departure", "refund",
                            "marks", "latest flight", "done"}]
        /\ call' \in [Req -> Call \cup {NoCall}]
        /\ answer' \in [Req -> {"", "200", "201", "404", "503"}]
        /\ DOMAIN seen' = Req /\ DOMAIN told' = Req
    BY <2>1 DEF Moves, Step
  <2>6. flights' \in Seq(Entry) /\ receipts' \in [Req -> Receipt \cup {None}]
    BY <2>1 DEF FlightsMove, ReceiptsMove
  <2>7. \A i \in DOMAIN flights' : flights'[i].by \in Req /\ flights'[i].row \in Flight
    <3>1. \A e \in Entry : e.by \in Req /\ e.row \in Flight
      BY DEF Entry
    <3>2. \A i \in DOMAIN flights' : flights'[i] \in Entry
      BY <2>6
    <3> QED
      BY <3>1, <3>2
  <2> QED
    BY <2>2, <2>3, <2>4, <2>5, <2>6, <2>7 DEF TypeInv, TypeOK
<1>2. ASSUME TypeInv, UNCHANGED vars PROVE TypeInv'
  <2>1. /\ receipts' = receipts /\ flights' = flights /\ marks' = marks /\ pc' = pc
        /\ call' = call /\ answer' = answer /\ seen' = seen /\ told' = told
    BY <1>2 DEF vars, database
  <2>2. TypeOK'
    BY <1>2, <2>1 DEF TypeInv, TypeOK
  <2>3. ASSUME NEW x \in Req PROVE Begun(x)'
    <3>1. Begun(x) /\ \A q : FlightsOf(q)' = FlightsOf(q)
      BY <1>2, <2>1 DEF TypeInv, FlightsOf
    <3> QED
      BY <2>1, <3>1 DEF Begun
  <2> QED
    BY <1>2, <2>1, <2>2, <2>3 DEF TypeInv
<1> QED
  BY <1>1, <1>2 DEF Next, Acts, Arrive

\* It holds at the start.
LEMMA InitType == Init => TypeInv
<1> SUFFICES ASSUME Init PROVE TypeInv
  OBVIOUS
<1>1. DOMAIN flights = {} /\ flights \in Seq(Entry)
  BY DEF Init
<1>2. \A r \in Req : /\ pc[r] = "idle" /\ call[r] = NoCall /\ answer[r] = ""
                     /\ told[r] = NothingTold /\ receipts[r] = None
  BY DEF Init, RequestInit
<1>3. TypeOK
  BY <1>1, <1>2 DEF Init, RequestInit, TypeOK
<1>4. \A r \in Req : Begun(r)
  BY <1>1, <1>2 DEF Begun, FlightsOf
<1> QED
  BY <1>1, <1>3, <1>4 DEF Init, TypeInv

\* All rows and answers keep their types, whatever the provider reads.
THEOREM TypeCorrect == Spec => []TypeOK
<1>1. TypeInv => TypeOK
  BY DEF TypeInv
<1> QED
  BY <1>1, InitType, StepKeepsType, PTL DEF Spec

-----------------------------------------------------------------------------
(* What the rows tell of the calls that were made.                         *)

SentInTurn == \A r \in Req : pc[r] # "idle" => \A q \in Before[r] : pc[q] = "done"

Recording(q) == {u \in Req : call[u].op = "refund" /\ call[u].purchase = q}

\* The method of a receipt has been recorded, by somebody.
Settled(q) == receipts[q].method \in {call[u].method : u \in Recording(q)}

\* A receipt tells the trip it was captured for and a method that somebody
\* records, and is there once that was acknowledged.
ReceiptInv(q) ==
    /\ receipts[q] # None =>
          /\ call[q].op = "receipt" /\ receipts[q].trip = call[q].trip
          /\ receipts[q].method = "UNKNOWN" \/ Settled(q)
    /\ call[q].op = "receipt" /\ answer[q] = "201" => receipts[q] # None

\* An acknowledged method counts from then on. A PATCH that names the method it
\* has read writes nothing, and what it has read was already recorded.
RefundInv(u) ==
    LET q == call[u].purchase
    IN  /\ call[u].op = "refund" /\ answer[u] = "200" => receipts[q] # None /\ Settled(q)
        /\ pc[u] = "refund" /\ seen[u].method # "UNKNOWN" => Settled(q)

LastReview(q) ==
    /\ call[q].op = "review"
    /\ \A u \in Req \ {q} : call[u].op = "review" => u \in Before[q]

SomethingMarked == \E q \in Req : call[q].op = "review" /\ call[q].purchased # {}

\* The marks are those of the last review, if one is.
MarkInv ==
    /\ \A q \in Req : LastReview(q) => marks = call[q].purchased
    /\ marks # {} => SomethingMarked

\* Flights are stored in the order they were asked for, if there is one.
FlightInv ==
    /\ \A i \in DOMAIN flights :
          LET f == flights[i].by
          IN  call[f].op = "flight" /\ flights[i].row.trip = call[f].trip
    /\ \A i, j \in DOMAIN flights :
          /\ flights[i].by = flights[j].by => i = j
          /\ flights[i].by \in Before[flights[j].by] => i < j

RowsInv ==
    /\ TypeInv /\ SentInTurn /\ MarkInv /\ FlightInv
    /\ \A q \in Req : ReceiptInv(q) /\ RefundInv(q)

-----------------------------------------------------------------------------
(* What a checklist has read, and what it tells.                           *)

\* What it has read of the receipts is theirs as they were then.
PurchasesRead(r) ==
    LET P == seen[r].purchases
    IN  /\ \A q \in DOMAIN P : /\ receipts[q] # None /\ receipts[q].trip = call[r].trip
                               /\ P[q].purchased = receipts[q].purchased
                               /\ P[q].method \in MethodsSeen(q, r)
        /\ \A q \in Before[r] : receipts[q] # None /\ receipts[q].trip = call[r].trip =>
              q \in DOMAIN P

MarksRead(r) ==
    /\ \A q \in Before[r] : LastReview(q) /\ call[q].purchased # {} => seen[r].marks # {}
    /\ seen[r].marks # {} => SomethingMarked

\* A purchase with this method is accounted for.
Counted(method, list) ==
    /\ list.status # "NO_ELIGIBLE_PURCHASES"
    /\ method # "IMMEDIATE" => list.status = "ACTION_REQUIRED" /\ Papers \subseteq list.items
    /\ method \in {"AIRPORT", "UNKNOWN"} => "receive-refund" \in list.items

AllCounted(r) ==
    /\ \A q \in Before[r] : receipts[q] # None /\ receipts[q].trip = call[r].trip =>
          \E method \in MethodsSeen(q, r) : Counted(method, told[r])
    /\ \A q \in Before[r] : LastReview(q) /\ call[q].purchased # {} =>
          told[r].status = "ACTION_REQUIRED" /\ "receive-refund" \in told[r].items
    /\ "receive-refund" \in told[r].items =>
          \/ \E q \in Req : /\ receipts[q] # None /\ receipts[q].trip = call[r].trip
                            /\ MethodsSeen(q, r) \cap {"AIRPORT", "UNKNOWN"} # {}
          \/ SomethingMarked

\* The flight of entry i is the last one of the trip of r, and as it was when r
\* was sent.
LastFlight(i, r) ==
    LET f == flights[i].by
    IN  /\ f \in Before[r] /\ call[f].trip = call[r].trip
        /\ \A g \in Req \ {f} :
              /\ call[g].op = "flight" /\ call[g].trip = call[r].trip => g \in Before[f]
              /\ call[g].op = "departure" => g \in Before[r]

Due(q, r, departs) ==
    /\ receipts[q] # None /\ receipts[q].trip = call[r].trip
    /\ receipts[q].purchased # Null /\ departs # Null
    /\ Overdue(receipts[q].purchased, departs)

DeadlineTold(r) ==
    \A i \in DOMAIN flights : LastFlight(i, r) =>
        /\ "export-deadline-warning" \in told[r].items =>
              \E q \in Req : Due(q, r, flights[i].row.departs)
        /\ (\E q \in Before[r] : Due(q, r, flights[i].row.departs)) =>
              "export-deadline-warning" \in told[r].items

ListInv(r) ==
    /\ pc[r] \in {"marks", "latest flight"} => PurchasesRead(r)
    /\ pc[r] = "latest flight" => MarksRead(r)
    /\ told[r] # NothingTold => AllCounted(r) /\ DeadlineTold(r)

ChecklistInv == RowsInv /\ \A r \in Req : ListInv(r)

-----------------------------------------------------------------------------
(* The rows, step by step.                                                 *)

\* Calls that were sent stay, and requests that have ended are over.
LEMMA CallsStay ==
    ASSUME TypeInv, NEW r \in Req, Acts(r), NEW q \in Req
    PROVE  /\ pc[q] # "idle" => call'[q] = call[q]
           /\ pc[q] = "done" => /\ q # r /\ pc'[q] = "done" /\ answer'[q] = answer[q]
           /\ pc[q] = "idle" => call[q] = NoCall
<1>1. Moves(r)
  BY OneMoves
<1>2. Begun(q)
  BY DEF TypeInv
<1> QED
  BY <1>1, <1>2 DEF Moves, Begun

\* A call that was sent says what it is.
LEMMA SentIsCall ==
    ASSUME TypeInv, NEW q \in Req, call[q].op # "none"
    PROVE  pc[q] # "idle" /\ call[q] \in Call
<1>1. Begun(q)
  BY DEF TypeInv
<1>2. NoCall.op = "none"
  BY DEF NoCall
<1>3. call[q] # NoCall
  BY <1>2
<1> QED
  BY <1>1, <1>3 DEF Begun

\* Which steps a call can lead to.
LEMMA StepsOf ==
    ASSUME TypeInv, NEW r \in Req, Acts(r)
    PROVE  /\ call'[r].op = "receipt" =>
                AnalyzeStart(r) \/ ReceiptStore(r) \/ ProviderFails(r)
           /\ call'[r].op = "review" => Review(r)
           /\ call'[r].op = "refund" => RefundRead(r) \/ RefundCommit(r)
           /\ call'[r].op = "checklist" =>
                ChecklistReceipts(r) \/ ChecklistMarks(r) \/ ChecklistFlight(r)
<1>1. CASE Arrive(r)
  <2>1. ASSUME NEW c \in CallsOf[r], Send(r, c) PROVE call'[r] = c
    BY <2>1, SendType
  <2> QED
    BY <1>1, <2>1 DEF Arrive, AnalyzeStart, DepartureRead, RefundRead, Review,
       ChecklistReceipts, Asked
<1>2. CASE Proceed(r)
  <2>1. Begun(r)
    BY DEF TypeInv
  <2> QED
    BY <1>2, <2>1 DEF Proceed, ReceiptStore, FlightStore, ProviderFails,
       DepartureCommit, RefundCommit, ChecklistMarks, ChecklistFlight, Begun
<1> QED
  BY <1>1, <1>2 DEF Acts

\* Requests stay in turn.
LEMMA TurnsKept ==
    ASSUME RowsInv, NEW r \in Req, Acts(r)
    PROVE  SentInTurn'
<1> SUFFICES ASSUME NEW x \in Req, pc'[x] # "idle", NEW q \in Before[x]
             PROVE  pc'[q] = "done"
  BY DEF SentInTurn
<1>1. Moves(r) /\ q \in Req
  BY OneMoves, PurchasesAssumption DEF RowsInv
<1>2. pc[q] = "done"
  BY <1>1 DEF Moves, RowsInv, SentInTurn
<1> QED
  BY <1>1, <1>2, CallsStay DEF RowsInv

\* What was recorded stays recorded.
LEMMA RecordingGrows ==
    ASSUME TypeInv, NEW r \in Req, Acts(r), NEW q, NEW u \in Recording(q)
    PROVE  u \in Recording(q)' /\ call'[u] = call[u]
<1>1. u \in Req /\ call[u].op = "refund" /\ call[u].purchase = q
  BY DEF Recording
<1>2. call'[u] = call[u]
  BY <1>1, SentIsCall, CallsStay
<1> QED
  BY <1>1, <1>2 DEF Recording

\* A refund method is written to its receipt, and to no other.
LEMMA RefundWrites ==
    ASSUME TypeInv, NEW r \in Req, RefundCommit(r)
    PROVE  /\ call[r].op = "refund" /\ call[r].purchase \in Req
           /\ call[r] = call'[r] /\ pc[r] = "refund"
           /\ receipts[call[r].purchase] # None
           /\ receipts'[call[r].purchase].method =
                Column(receipts[call[r].purchase].method, seen[r].method, call[r].method)
           /\ \A q \in Req : q # call[r].purchase => receipts'[q] = receipts[q]
<1>1. pc[r] = "refund" /\ UNCHANGED call
  BY DEF RefundCommit
<1>2. /\ call[r] \in Call /\ call[r].op = "refund" /\ seen[r] \in Receipt
      /\ receipts[call[r].purchase] # None
  BY <1>1 DEF TypeInv, Begun
<1>3. PICK p : p = call[r].purchase
  OBVIOUS
<1>4. p \in Req /\ call[r].method \in RefundMethod /\ receipts[p] \in Receipt
  BY <1>2, <1>3, CallFields DEF TypeInv, TypeOK
<1>5. PICK stored \in Receipt, before \in Receipt, method \in RefundMethod :
         stored = receipts[p] /\ before = seen[r] /\ method = call[r].method
  BY <1>2, <1>4
<1>6. PICK row : row = Recorded(stored, before, method)
  OBVIOUS
<1>7. receipts' = [receipts EXCEPT ![p] = row]
  BY <1>3, <1>5, <1>6 DEF RefundCommit, Recorded
<1>8. row.method = Column(stored.method, before.method, method)
  BY <1>6, RecordedMethod
<1> QED
  BY <1>1, <1>2, <1>3, <1>4, <1>5, <1>7, <1>8 DEF TypeInv, TypeOK

\* A method that was recorded is only replaced by one that was.
LEMMA SettledStays ==
    ASSUME TypeInv, NEW r \in Req, Acts(r), NEW q \in Req,
           receipts[q] # None, Settled(q)
    PROVE  Settled(q)'
<1>1. PICK u \in Recording(q) : receipts[q].method = call[u].method
  BY DEF Settled
<1>2. u \in Recording(q)' /\ call'[u] = call[u]
  BY RecordingGrows
<1>3. receipts'[q].method = receipts[q].method => Settled(q)'
  BY <1>1, <1>2 DEF Settled
<1>4. CASE RefundCommit(r) /\ call[r].purchase = q
  <2>1. /\ call[r].op = "refund" /\ call[r] = call'[r]
        /\ receipts'[q].method = Column(receipts[q].method, seen[r].method, call[r].method)
    BY <1>4, RefundWrites
  <2>2. r \in Recording(q)'
    BY <1>4, <2>1 DEF Recording
  <2>3. receipts'[q].method = receipts[q].method \/ receipts'[q].method = call'[r].method
    BY <2>1 DEF Column
  <2> QED
    BY <1>3, <2>2, <2>3 DEF Settled
<1>5. CASE ~(RefundCommit(r) /\ call[r].purchase = q)
  <2>1. receipts'[q] = receipts[q]
    BY <1>5, StepReceipts, RefundWrites DEF ReceiptsMove
  <2> QED
    BY <1>3, <2>1
<1> QED
  BY <1>4, <1>5

\* Once a PATCH of a receipt has committed, its method was recorded.
LEMMA RefundSettles ==
    ASSUME RowsInv, NEW r \in Req, RefundCommit(r)
    PROVE  Settled(call[r].purchase)'
<1>1. PICK q : q = call[r].purchase
  OBVIOUS
<1>2. /\ call[r].op = "refund" /\ q \in Req /\ call[r] = call'[r] /\ pc[r] = "refund"
      /\ receipts[q] # None
      /\ receipts'[q].method = Column(receipts[q].method, seen[r].method, call[r].method)
  BY <1>1, RefundWrites DEF RowsInv
<1>3. Acts(r)
  BY DEF Acts, Proceed
<1>4. r \in Recording(q)' /\ call'[r].method = call[r].method
  BY <1>1, <1>2 DEF Recording
<1>5. CASE call[r].method # seen[r].method
  <2>1. receipts'[q].method = call'[r].method
    BY <1>2, <1>4, <1>5 DEF Column
  <2> QED
    BY <1>1, <1>2, <1>4, <2>1 DEF Settled
<1>6. CASE call[r].method = seen[r].method
  <2>1. receipts'[q].method = receipts[q].method
    BY <1>2, <1>6 DEF Column
  <2>2. Settled(q) => Settled(q)'
    BY <1>2, <1>3, SettledStays DEF RowsInv
  <2>3. seen[r].method # "UNKNOWN" => Settled(q)
    BY <1>1, <1>2 DEF RowsInv, RefundInv
  <2>4. receipts[q].method = "UNKNOWN" \/ Settled(q)
    BY <1>2 DEF RowsInv, ReceiptInv
  <2>5. CASE seen[r].method = "UNKNOWN" /\ receipts[q].method = "UNKNOWN"
    <3>1. receipts'[q].method = call'[r].method
      BY <1>4, <1>6, <2>1, <2>5
    <3> QED
      BY <1>1, <1>2, <1>4, <3>1 DEF Settled
  <2> QED
    BY <1>1, <1>2, <2>2, <2>3, <2>4, <2>5
<1> QED
  BY <1>5, <1>6

\* Receipts and refunds keep telling of each other.
LEMMA StepReceiptInv ==
    ASSUME RowsInv, NEW r \in Req, Acts(r), NEW q \in Req
    PROVE  ReceiptInv(q)'
<1> USE DEF RowsInv
<1>1. Moves(r) /\ ReceiptsMove(r) /\ ReceiptInv(q)
  BY OneMoves, StepReceipts
<1>2. CASE receipts[q] # None
  <2>1. call[q].op = "receipt" /\ receipts[q].trip = call[q].trip
    BY <1>1, <1>2 DEF ReceiptInv
  <2>2. call'[q] = call[q]
    BY <2>1, SentIsCall, CallsStay
  <2>3. receipts'[q] # None /\ receipts'[q].trip = receipts[q].trip
    BY <1>1, <1>2 DEF ReceiptsMove
  <2>4. receipts'[q].method = "UNKNOWN" \/ Settled(q)'
    <3>1. CASE Settled(q)
      BY <1>2, <3>1, SettledStays
    <3>2. CASE RefundCommit(r) /\ call[r].purchase = q
      <4>1. call'[r].purchase = q
        BY <3>2, RefundWrites
      <4> QED
        BY <3>2, <4>1, RefundSettles
    <3>3. CASE ~(RefundCommit(r) /\ call[r].purchase = q) /\ ~Settled(q)
      <4>1. receipts'[q] = receipts[q]
        BY <1>1, <1>2, <3>3, RefundWrites DEF ReceiptsMove
      <4> QED
        BY <1>1, <1>2, <3>3, <4>1 DEF ReceiptInv
    <3> QED
      BY <3>1, <3>2, <3>3
  <2> QED
    BY <2>1, <2>2, <2>3, <2>4 DEF ReceiptInv
<1>3. CASE receipts[q] = None /\ receipts'[q] # None
  <2>1. /\ q = r /\ pc[r] = "receipt"
        /\ receipts'[r].trip = call[r].trip /\ receipts'[r].method = "UNKNOWN"
    BY <1>1, <1>3 DEF ReceiptsMove
  <2>2. call[r].op = "receipt" /\ call'[r] = call[r]
    BY <1>1, <2>1 DEF Moves, TypeInv, Begun
  <2> QED
    BY <1>3, <2>1, <2>2 DEF ReceiptInv
<1>4. CASE receipts[q] = None /\ receipts'[q] = None
  <2>1. ASSUME call'[q].op = "receipt", answer'[q] = "201" PROVE FALSE
    <3>1. CASE q # r
      <4>1. call'[q] = call[q] /\ answer'[q] = answer[q]
        BY <1>1, <3>1 DEF Moves
      <4> QED
        BY <1>1, <1>4, <2>1, <4>1 DEF ReceiptInv
    <3>2. CASE q = r
      <4>1. answer[r] = ""
        BY <1>1 DEF Moves, TypeInv, Begun
      <4>2. ReceiptStore(r)
        <5>1. AnalyzeStart(r) \/ ReceiptStore(r) \/ ProviderFails(r)
          BY <2>1, <3>2, StepsOf
        <5>2. AnalyzeStart(r) => answer'[r] \in {"", "404"}
          <6>1. ASSUME NEW step \in Step, Goto(r, step) PROVE answer'[r] = ""
            BY <4>1, <6>1, GotoType
          <6>2. Reply(r, "404") => answer'[r] = "404"
            BY ReplyType
          <6> QED
            BY <6>1, <6>2 DEF AnalyzeStart, Step
        <5>3. ProviderFails(r) => answer'[r] = "503"
          BY ReplyType DEF ProviderFails
        <5> QED
          BY <2>1, <3>2, <5>1, <5>2, <5>3
      <4>3. receipts'[r] # None
        BY <1>1, <4>2 DEF ReceiptsMove
      <4> QED
        BY <1>4, <3>2, <4>3
    <3> QED
      BY <3>1, <3>2
  <2> QED
    BY <1>4, <2>1 DEF ReceiptInv
<1> QED
  BY <1>2, <1>3, <1>4

\* Of a refund method.
LEMMA StepRefundInv ==
    ASSUME RowsInv, NEW r \in Req, Acts(r), NEW u \in Req
    PROVE  RefundInv(u)'
<1> USE DEF RowsInv
<1>1. Moves(r) /\ ReceiptsMove(r) /\ RefundInv(u)
  BY OneMoves, StepReceipts
<1>2. CASE u # r
  <2>1. /\ call'[u] = call[u] /\ answer'[u] = answer[u]
        /\ pc'[u] = pc[u] /\ seen'[u] = seen[u]
    BY <1>1, <1>2 DEF Moves
  <2>2. ASSUME NEW q \in Req, receipts[q] # None, Settled(q)
        PROVE  receipts'[q] # None /\ Settled(q)'
    BY <1>1, <2>2, SettledStays DEF ReceiptsMove
  <2>3. CASE call[u].op = "refund"
    <3>1. PICK q \in Req : q = call[u].purchase
      BY <2>3, SentIsCall, CallFields
    <3>2. pc[u] = "refund" => receipts[q] # None
      BY <3>1 DEF TypeInv, Begun
    <3>3. /\ answer[u] = "200" => receipts'[q] # None /\ Settled(q)'
          /\ pc[u] = "refund" /\ seen[u].method # "UNKNOWN" => Settled(q)'
      BY <1>1, <2>2, <2>3, <3>1, <3>2 DEF RefundInv
    <3> QED
      BY <2>1, <3>1, <3>3 DEF RefundInv
  <2>4. CASE call[u].op # "refund"
    <3>1. pc[u] # "refund"
      BY <2>4 DEF TypeInv, Begun
    <3> QED
      BY <2>1, <2>4, <3>1 DEF RefundInv
  <2> QED
    BY <2>3, <2>4
<1>3. CASE u = r /\ RefundCommit(r)
  <2>1. pc'[r] = "done"
    BY <1>3, ReplyType DEF RefundCommit
  <2>2. PICK q : q = call[r].purchase
    OBVIOUS
  <2>3. q \in Req /\ call'[r] = call[r] /\ receipts'[q] # None /\ Settled(q)'
    BY <1>1, <1>3, <2>2, RefundWrites, RefundSettles DEF ReceiptsMove
  <2> QED
    BY <1>3, <2>1, <2>2, <2>3 DEF RefundInv
<1>4. CASE u = r /\ RefundRead(r)
  <2>1. PICK c \in CallsOf[r] :
           /\ c.op = "refund" /\ Send(r, c)
           /\ IF receipts[c.purchase] = None THEN Reply(r, "404")
              ELSE Goto(r, "refund") /\ seen' = [seen EXCEPT ![r] = receipts[c.purchase]]
    BY <1>4 DEF RefundRead, Asked
  <2>2. c \in Call /\ call'[r] = c /\ c.purchase \in Req /\ pc[r] = "idle"
    BY <2>1, SendType, CallFields
  <2>3. answer[r] = ""
    BY <2>2 DEF TypeInv, Begun
  <2>4. CASE receipts[c.purchase] = None
    <3>1. pc'[r] = "done" /\ answer'[r] = "404"
      BY <2>1, <2>4, ReplyType
    <3> QED
      BY <1>4, <3>1 DEF RefundInv
  <2>5. CASE receipts[c.purchase] # None
    <3>1. /\ pc'[r] = "refund" /\ answer'[r] = ""
          /\ seen'[r] = receipts[c.purchase]
      BY <2>1, <2>3, <2>5, GotoType DEF Step, TypeInv
    <3>2. receipts[c.purchase].method = "UNKNOWN" \/ Settled(c.purchase)
      BY <2>2, <2>5 DEF ReceiptInv
    <3>3. seen'[r].method # "UNKNOWN" => Settled(c.purchase)'
      BY <2>2, <2>5, <3>1, <3>2, SettledStays
    <3> QED
      BY <1>4, <2>2, <3>1, <3>3 DEF RefundInv
  <2> QED
    BY <2>4, <2>5
<1>5. CASE u = r /\ ~RefundCommit(r) /\ ~RefundRead(r)
  <2>1. call'[r].op # "refund"
    BY <1>5, StepsOf
  <2>2. TypeInv'
    BY StepKeepsType DEF Next, Acts, Arrive
  <2>3. pc'[r] # "refund"
    BY <2>1, <2>2 DEF TypeInv, Begun
  <2> QED
    BY <1>5, <2>1, <2>3 DEF RefundInv
<1> QED
  BY <1>2, <1>3, <1>4, <1>5

\* Of the marks.
LEMMA StepMarkInv ==
    ASSUME RowsInv, NEW r \in Req, Acts(r)
    PROVE  MarkInv'
<1> USE DEF RowsInv
<1>1. Moves(r)
  BY OneMoves
<1>2. CASE Review(r)
  <2>1. PICK c \in CallsOf[r] : c.op = "review" /\ Send(r, c) /\ marks' = c.purchased
    BY <1>2 DEF Review, Asked
  <2>2. call'[r] = c /\ pc[r] = "idle"
    BY <2>1, SendType
  <2>3. ASSUME NEW q \in Req, LastReview(q)' PROVE q = r
    <3>1. SUFFICES ASSUME q # r PROVE FALSE
      OBVIOUS
    <3>2. r \in Before[q] /\ call'[q].op = "review"
      BY <2>1, <2>2, <2>3, <3>1 DEF LastReview
    <3>3. call[q] = call'[q]
      BY <1>1, <3>1 DEF Moves
    <3>4. pc[q] # "idle"
      BY <3>2, <3>3, SentIsCall
    <3> QED
      BY <2>2, <3>2, <3>4 DEF SentInTurn
  <2>4. marks' # {} => SomethingMarked'
    BY <2>1, <2>2 DEF SomethingMarked
  <2> QED
    BY <2>1, <2>2, <2>3, <2>4 DEF MarkInv
<1>3. CASE ~Review(r)
  <2>1. UNCHANGED marks
    BY <1>3 DEF Acts, Arrive, Proceed, AnalyzeStart, DepartureRead, RefundRead,
       ChecklistReceipts, ReceiptStore, FlightStore, ProviderFails, DepartureCommit,
       RefundCommit, ChecklistMarks, ChecklistFlight, database
  <2>2. ASSUME NEW q \in Req, LastReview(q)'
        PROVE  LastReview(q) /\ call'[q] = call[q]
    <3>1. call'[q].op = "review"
      BY <2>2 DEF LastReview
    <3>2. q # r
      BY <1>3, <3>1, StepsOf
    <3>3. call'[q] = call[q]
      BY <1>1, <3>2 DEF Moves
    <3>4. ASSUME NEW x \in Req \ {q}, call[x].op = "review" PROVE x \in Before[q]
      <4>1. call'[x] = call[x]
        BY <3>4, SentIsCall, CallsStay
      <4> QED
        BY <2>2, <3>4, <4>1 DEF LastReview
    <3> QED
      BY <3>1, <3>3, <3>4 DEF LastReview
  <2>3. SomethingMarked => SomethingMarked'
    BY SentIsCall, CallsStay DEF SomethingMarked
  <2> QED
    BY <2>1, <2>2, <2>3 DEF MarkInv
<1> QED
  BY <1>2, <1>3

\* Of the flights.
LEMMA StepFlightInv ==
    ASSUME RowsInv, NEW r \in Req, Acts(r)
    PROVE  FlightInv'
<1> USE DEF RowsInv
<1>1. Moves(r) /\ FlightsMove(r)
  BY OneMoves, StepFlights
<1>2. ASSUME NEW i \in DOMAIN flights
      PROVE  /\ flights'[i].by = flights[i].by /\ flights[i].by \in Req
             /\ flights'[i].row.trip = flights[i].row.trip
             /\ call[flights[i].by].op = "flight" /\ pc[flights[i].by] # "idle"
             /\ call'[flights[i].by] = call[flights[i].by]
             /\ flights[i].row.trip = call[flights[i].by].trip
  <2>1. /\ flights[i].by \in Req /\ call[flights[i].by].op = "flight"
        /\ flights[i].row.trip = call[flights[i].by].trip
    BY DEF TypeInv, TypeOK, FlightInv
  <2> QED
    BY <1>1, <2>1, SentIsCall, CallsStay DEF FlightsMove
<1>3. ASSUME NEW i \in DOMAIN flights' \ DOMAIN flights
      PROVE  /\ i = Len(flights) + 1 /\ flights'[i].by = r
             /\ flights'[i].row.trip = call'[r].trip /\ call'[r].op = "flight"
             /\ pc[r] = "flight" /\ FlightsOf(r) = {}
  <2>1. /\ FlightStore(r) /\ i = Len(flights) + 1
        /\ flights'[i].by = r /\ flights'[i].row.trip = call[r].trip
    BY <1>1 DEF FlightsMove
  <2>2. pc[r] = "flight" /\ call' = call
    BY <2>1 DEF FlightStore
  <2> QED
    BY <2>1, <2>2 DEF TypeInv, Begun
<1>4. ASSUME NEW i \in DOMAIN flights'
      PROVE  /\ call'[flights'[i].by].op = "flight"
             /\ flights'[i].row.trip = call'[flights'[i].by].trip
  BY <1>2, <1>3
<1>5. ASSUME NEW i \in DOMAIN flights', NEW j \in DOMAIN flights'
      PROVE  /\ flights'[i].by = flights'[j].by => i = j
             /\ flights'[i].by \in Before[flights'[j].by] => i < j
  <2>1. DOMAIN flights = 1 .. Len(flights) /\ Len(flights) \in Nat
    BY DEF TypeInv
  <2>2. CASE i \in DOMAIN flights /\ j \in DOMAIN flights
    BY <1>2, <2>2 DEF FlightInv
  <2>3. CASE i \in DOMAIN flights /\ j \notin DOMAIN flights
    <3>1. i < j
      BY <1>3, <2>1, <2>3
    <3>2. flights'[i].by # flights'[j].by
      BY <1>2, <1>3, <2>3 DEF FlightsOf
    <3> QED
      BY <3>1, <3>2
  <2>4. CASE i \notin DOMAIN flights /\ j \in DOMAIN flights
    <3>1. flights'[i].by # flights'[j].by
      BY <1>2, <1>3, <2>4 DEF FlightsOf
    <3>2. flights'[i].by \notin Before[flights'[j].by]
      BY <1>2, <1>3, <2>4 DEF SentInTurn
    <3> QED
      BY <3>1, <3>2
  <2>5. CASE i \notin DOMAIN flights /\ j \notin DOMAIN flights
    <3>1. i = j /\ flights'[i].by = r /\ flights'[j].by = r
      BY <1>3, <2>5
    <3>2. r \notin Before[r]
      BY <1>3, <2>5 DEF SentInTurn
    <3> QED
      BY <3>1, <3>2
  <2> QED
    BY <2>2, <2>3, <2>4, <2>5
<1> QED
  BY <1>4, <1>5 DEF FlightInv

\* So the rows always tell of the calls.
LEMMA StepRowsInv ==
    ASSUME RowsInv, NEW r \in Req, Acts(r)
    PROVE  RowsInv'
<1>1. TypeInv'
  BY StepKeepsType DEF RowsInv, Next, Acts, Arrive
<1> QED
  BY <1>1, TurnsKept, StepReceiptInv, StepRefundInv, StepMarkInv, StepFlightInv
  DEF RowsInv

-----------------------------------------------------------------------------
(* The checklists, step by step.                                           *)

\* What a request finds done when it is sent stays as it was.
LEMMA PastStays ==
    ASSUME RowsInv, NEW r \in Req, Acts(r), NEW x \in Req, pc[x] # "idle"
    PROVE  /\ call'[x] = call[x] /\ r \notin Before[x]
           /\ \A q \in Before[x] : q \in Req /\ call'[q] = call[q] /\ answer'[q] = answer[q]
           /\ \A q \in Req : MethodsSeen(q, x) \subseteq MethodsSeen(q, x)'
           /\ \A q \in Before[x] : LastReview(q)' => LastReview(q)
           /\ SomethingMarked => SomethingMarked'
<1> USE DEF RowsInv
<1>1. \A q \in Before[x] : q \in Req /\ pc[q] = "done"
  BY PurchasesAssumption DEF SentInTurn
<1>2. /\ call'[x] = call[x]
      /\ \A q \in Before[x] : call'[q] = call[q] /\ answer'[q] = answer[q] /\ q # r
  BY <1>1, CallsStay
<1>3. ASSUME NEW q \in Req PROVE MethodsSeen(q, x) \subseteq MethodsSeen(q, x)'
  <2>1. /\ MethodsSeen(q, x) =
             {call[u].method : u \in Recording(q)}
               \cup (IF \E u \in Recording(q) \cap Before[x] : answer[u] = "200"
                     THEN {} ELSE {"UNKNOWN"})
        /\ MethodsSeen(q, x)' =
             {call'[u].method : u \in Recording(q)'}
               \cup (IF \E u \in Recording(q)' \cap Before[x] : answer'[u] = "200"
                     THEN {} ELSE {"UNKNOWN"})
    BY DEF MethodsSeen, Recording
  <2>2. \A u \in Recording(q) : u \in Recording(q)' /\ call'[u] = call[u]
    BY RecordingGrows
  <2>3. ASSUME NEW u \in Recording(q)' \cap Before[x]
        PROVE  u \in Recording(q) \cap Before[x] /\ answer'[u] = answer[u]
    BY <1>1, <1>2 DEF Recording
  <2> QED
    BY <2>1, <2>2, <2>3
<1>4. ASSUME NEW q \in Before[x], LastReview(q)' PROVE LastReview(q)
  <2>1. call[q].op = "review"
    BY <1>2, <1>4 DEF LastReview
  <2>2. ASSUME NEW u \in Req \ {q}, call[u].op = "review" PROVE u \in Before[q]
    <3>1. call'[u] = call[u]
      BY <2>2, SentIsCall, CallsStay
    <3> QED
      BY <1>4, <2>2, <3>1 DEF LastReview
  <2> QED
    BY <2>1, <2>2 DEF LastReview
<1>5. SomethingMarked => SomethingMarked'
  BY SentIsCall, CallsStay DEF SomethingMarked
<1> QED
  BY <1>1, <1>2, <1>3, <1>4, <1>5

\* A receipt stays, and one stored before a request was before its steps.
LEMMA ReceiptsStay ==
    ASSUME RowsInv, NEW r \in Req, Acts(r), NEW x \in Req, pc[x] # "idle", NEW q \in Req
    PROVE  /\ receipts[q] # None =>
                /\ receipts'[q] # None /\ receipts'[q].trip = receipts[q].trip
                /\ receipts'[q].purchased = receipts[q].purchased
           /\ q \in Before[x] /\ receipts'[q] # None => receipts[q] # None
<1>1. ReceiptsMove(r) /\ r \notin Before[x]
  BY StepReceipts, PastStays DEF RowsInv
<1> QED
  BY <1>1 DEF ReceiptsMove

\* What a checklist has read stays true of the receipts.
LEMMA PurchasesReadStay ==
    ASSUME RowsInv, NEW r \in Req, Acts(r), NEW x \in Req, pc[x] # "idle",
           seen[x] \in View, PurchasesRead(x), seen'[x].purchases = seen[x].purchases
    PROVE  PurchasesRead(x)'
<1>1. PICK P : P = seen[x].purchases
  OBVIOUS
<1>2. DOMAIN P \subseteq Req
  BY <1>1 DEF View
<1>3. call'[x] = call[x] /\ Before[x] \subseteq Req
  BY PastStays
<1>4. ASSUME NEW q \in DOMAIN P
      PROVE  /\ receipts'[q] # None /\ receipts'[q].trip = call'[x].trip
             /\ P[q].purchased = receipts'[q].purchased
             /\ P[q].method \in MethodsSeen(q, x)'
  BY <1>1, <1>2, <1>3, PastStays, ReceiptsStay DEF PurchasesRead
<1>5. ASSUME NEW q \in Before[x], receipts'[q] # None, receipts'[q].trip = call'[x].trip
      PROVE  q \in DOMAIN P
  BY <1>1, <1>3, <1>5, ReceiptsStay DEF PurchasesRead
<1> QED
  BY <1>1, <1>4, <1>5 DEF PurchasesRead

\* So do the marks it has read, and the answer it gave of both.
LEMMA MarksReadStay ==
    ASSUME RowsInv, NEW r \in Req, Acts(r), NEW x \in Req, pc[x] # "idle",
           MarksRead(x), seen'[x] = seen[x]
    PROVE  MarksRead(x)'
  BY PastStays DEF MarksRead

LEMMA CountedStays ==
    ASSUME RowsInv, NEW r \in Req, Acts(r), NEW x \in Req, pc[x] # "idle",
           AllCounted(x), told'[x] = told[x]
    PROVE  AllCounted(x)'
<1>1. call'[x] = call[x] /\ Before[x] \subseteq Req
  BY PastStays
<1>2. ASSUME NEW q \in Before[x], receipts'[q] # None, receipts'[q].trip = call'[x].trip
      PROVE  \E method \in MethodsSeen(q, x)' : Counted(method, told'[x])
  <2>1. receipts[q] # None /\ receipts[q].trip = call[x].trip
    BY <1>1, <1>2, ReceiptsStay
  <2>2. PICK method \in MethodsSeen(q, x) : Counted(method, told[x])
    BY <2>1 DEF AllCounted
  <2>3. method \in MethodsSeen(q, x)'
    BY <1>1, PastStays
  <2>4. Counted(method, told'[x])
    BY <2>2 DEF Counted
  <2> QED
    BY <2>3, <2>4
<1>3. ASSUME NEW q \in Before[x], LastReview(q)', call'[q].purchased # {}
      PROVE  told'[x].status = "ACTION_REQUIRED" /\ "receive-refund" \in told'[x].items
  BY <1>3, PastStays DEF AllCounted
<1>4. ASSUME NEW q \in Req, receipts[q] # None, receipts[q].trip = call[x].trip,
             MethodsSeen(q, x) \cap {"AIRPORT", "UNKNOWN"} # {}
      PROVE  /\ receipts'[q] # None /\ receipts'[q].trip = call'[x].trip
             /\ MethodsSeen(q, x)' \cap {"AIRPORT", "UNKNOWN"} # {}
  <2>1. MethodsSeen(q, x) \subseteq MethodsSeen(q, x)'
    BY PastStays
  <2> QED
    BY <1>1, <1>4, <2>1, ReceiptsStay
<1>5. SomethingMarked => SomethingMarked'
  BY PastStays
<1> QED
  BY <1>2, <1>3, <1>4, <1>5 DEF AllCounted

\* The last flight of a checklist was, and departs when it did.
LEMMA LastFlightStays ==
    ASSUME RowsInv, NEW r \in Req, Acts(r), NEW x \in Req, pc[x] # "idle",
           NEW i \in DOMAIN flights', LastFlight(i, x)'
    PROVE  i \in DOMAIN flights /\ LastFlight(i, x) /\ flights'[i] = flights[i]
<1>1. FlightsMove(r) /\ r \notin Before[x] /\ call'[x] = call[x]
  BY StepFlights, PastStays DEF RowsInv
<1>2. flights'[i].by \in Before[x]
  BY DEF LastFlight
<1>3. i \in DOMAIN flights /\ flights'[i].by = flights[i].by
  BY <1>1, <1>2 DEF FlightsMove
<1>4. PICK f \in Req : f = flights[i].by /\ f = flights'[i].by
  BY <1>3 DEF RowsInv, TypeInv, TypeOK
<1>5. f \in Before[x] /\ call'[f] = call[f] /\ call'[f].trip = call'[x].trip
  BY <1>2, <1>4, PastStays DEF LastFlight
<1>6. ASSUME NEW g \in Req \ {f}
      PROVE  /\ call[g].op = "flight" /\ call[g].trip = call[x].trip => g \in Before[f]
             /\ call[g].op = "departure" => g \in Before[x]
  <2>1. call[g].op \in {"flight", "departure"} => call'[g] = call[g]
    BY SentIsCall, CallsStay DEF RowsInv
  <2> QED
    BY <1>1, <1>4, <1>6, <2>1 DEF LastFlight
<1>7. LastFlight(i, x)
  BY <1>1, <1>4, <1>5, <1>6 DEF LastFlight
<1>8. ~DepartureCommit(r)
  <2>1. SUFFICES ASSUME DepartureCommit(r) PROVE FALSE
    OBVIOUS
  <2>2. call[r].op = "departure"
    BY <2>1 DEF DepartureCommit, RowsInv, TypeInv, Begun
  <2> QED
    BY <1>1, <1>4, <1>5, <1>6, <2>2
<1> QED
  BY <1>1, <1>3, <1>7, <1>8 DEF FlightsMove

\* A purchase that is due stays so.
LEMMA DueStays ==
    ASSUME RowsInv, NEW r \in Req, Acts(r), NEW x \in Req, pc[x] # "idle",
           NEW q \in Req, NEW departs
    PROVE  /\ Due(q, x, departs) => Due(q, x, departs)'
           /\ q \in Before[x] /\ Due(q, x, departs)' => Due(q, x, departs)
<1>1. call'[x] = call[x]
  BY PastStays
<1>2. receipts[q] # None =>
        /\ receipts'[q] # None /\ receipts'[q].trip = receipts[q].trip
        /\ receipts'[q].purchased = receipts[q].purchased
  BY ReceiptsStay
<1>3. q \in Before[x] /\ receipts'[q] # None => receipts[q] # None
  BY ReceiptsStay
<1>4. PICK due, due2 : due = receipts[q].purchased /\ due2 = receipts'[q].purchased
  OBVIOUS
<1>5. /\ Due(q, x, departs) <=> /\ receipts[q] # None /\ receipts[q].trip = call[x].trip
                                /\ due # Null /\ departs # Null /\ Overdue(due, departs)
      /\ Due(q, x, departs)' <=> /\ receipts'[q] # None /\ receipts'[q].trip = call'[x].trip
                                 /\ due2 # Null /\ departs # Null /\ Overdue(due2, departs)
  BY <1>4 DEF Due
<1> QED
  BY <1>1, <1>2, <1>3, <1>4, <1>5

\* The answer about the deadline stays the right one.
LEMMA DeadlineStays ==
    ASSUME RowsInv, NEW r \in Req, Acts(r), NEW x \in Req, pc[x] # "idle",
           DeadlineTold(x), told'[x] = told[x]
    PROVE  DeadlineTold(x)'
<1> SUFFICES ASSUME NEW i \in DOMAIN flights', LastFlight(i, x)'
             PROVE  /\ "export-deadline-warning" \in told'[x].items =>
                          \E q \in Req : Due(q, x, flights[i].row.departs)'
                    /\ (\E q \in Before[x] : Due(q, x, flights[i].row.departs)') =>
                          "export-deadline-warning" \in told'[x].items
  BY DEF DeadlineTold
<1>1. i \in DOMAIN flights /\ LastFlight(i, x) /\ flights'[i] = flights[i]
  BY LastFlightStays
<1>2. PICK departs : departs = flights[i].row.departs /\ departs = flights'[i].row.departs
  BY <1>1
<1>3. /\ "export-deadline-warning" \in told[x].items => \E q \in Req : Due(q, x, departs)
      /\ (\E q \in Before[x] : Due(q, x, departs)) => "export-deadline-warning" \in told[x].items
  BY <1>1, <1>2 DEF DeadlineTold
<1>4. \A q : Due(q, x, flights[i].row.departs)' <=> Due(q, x, departs)'
  BY <1>2 DEF Due
<1>5. Before[x] \subseteq Req
  BY PurchasesAssumption
<1> QED
  BY <1>3, <1>4, <1>5, DueStays

\* So other handlers find and leave the checklists right.
LEMMA OthersListInv ==
    ASSUME ChecklistInv, NEW r \in Req, Acts(r), NEW x \in Req,
           UNCHANGED <<pc[x], seen[x], told[x]>>
    PROVE  ListInv(x)'
<1>1. ListInv(x) /\ Begun(x) /\ RowsInv
  BY DEF ChecklistInv, RowsInv, TypeInv
<1>2. told[x] # NothingTold => pc[x] = "done"
  BY <1>1 DEF Begun
<1>3. pc[x] \in {"marks", "latest flight"} => seen[x] \in View
  BY <1>1 DEF Begun
<1> QED
  BY <1>1, <1>2, <1>3, PurchasesReadStay, MarksReadStay, CountedStays, DeadlineStays
  DEF ListInv

\* What a receipt says is one of the methods that may be seen.
LEMMA MethodIsSeen ==
    ASSUME RowsInv', NEW r \in Req, NEW q \in Req, receipts'[q] # None
    PROVE  receipts'[q].method \in MethodsSeen(q, r)'
<1>1. ReceiptInv(q)' /\ \A u \in Req : RefundInv(u)'
  BY DEF RowsInv
<1>2. MethodsSeen(q, r)' =
        {call'[u].method : u \in Recording(q)'}
          \cup (IF \E u \in Recording(q)' \cap Before[r] : answer'[u] = "200"
                THEN {} ELSE {"UNKNOWN"})
  BY DEF MethodsSeen, Recording
<1>3. Settled(q)' => receipts'[q].method \in {call'[u].method : u \in Recording(q)'}
  BY DEF Settled
<1>4. ASSUME NEW u \in Recording(q)', answer'[u] = "200" PROVE Settled(q)'
  BY <1>1, <1>4 DEF Recording, RefundInv
<1>5. receipts'[q].method = "UNKNOWN" \/ Settled(q)'
  BY <1>1 DEF ReceiptInv
<1> QED
  BY <1>2, <1>3, <1>4, <1>5

\* The first SELECT reads every receipt of the trip that is there.
LEMMA ReceiptsAreRead ==
    ASSUME ChecklistInv, RowsInv', NEW r \in Req, ChecklistReceipts(r)
    PROVE  ListInv(r)'
<1>1. PICK c \in CallsOf[r] :
         /\ c.op = "checklist" /\ Send(r, c)
         /\ IF c.trip = NoTrip THEN Reply(r, "404") /\ UNCHANGED seen
            ELSE /\ Goto(r, "marks")
                 /\ seen' = [seen EXCEPT ![r] =
                       [purchases |-> [q \in OnTrip(c.trip) |-> receipts[q]],
                        marks |-> {}]]
  BY DEF ChecklistReceipts, Asked
<1>2. TypeInv /\ UNCHANGED <<receipts, told>>
  BY DEF ChecklistInv, RowsInv, ChecklistReceipts, database
<1>3. call'[r] = c /\ pc[r] = "idle"
  BY <1>1, <1>2, SendType
<1>4. told'[r] = NothingTold
  BY <1>2, <1>3 DEF TypeInv, Begun
<1>5. CASE c.trip = NoTrip
  <2>1. pc'[r] = "done"
    BY <1>1, <1>2, <1>5, ReplyType
  <2> QED
    BY <1>4, <2>1 DEF ListInv
<1>6. CASE c.trip # NoTrip
  <2>1. pc'[r] = "marks"
    BY <1>1, <1>2, <1>6, GotoType DEF Step
  <2>2. PICK P : P = [q \in OnTrip(c.trip) |-> receipts[q]]
    OBVIOUS
  <2>3. seen'[r].purchases = P
    BY <1>1, <1>2, <1>6, <2>2 DEF TypeInv
  <2>4. DOMAIN P = OnTrip(c.trip) /\ \A q \in OnTrip(c.trip) : P[q] = receipts'[q]
    BY <1>2, <2>2
  <2>5. /\ OnTrip(c.trip) \subseteq Req /\ Before[r] \subseteq Req
        /\ \A q \in Req : q \in OnTrip(c.trip) <=> receipts'[q] # None /\ receipts'[q].trip = c.trip
    BY <1>2, PurchasesAssumption DEF OnTrip
  <2>6. \A q \in OnTrip(c.trip) : P[q].method \in MethodsSeen(q, r)'
    BY <2>4, <2>5, MethodIsSeen
  <2>7. PurchasesRead(r)'
    BY <1>3, <2>3, <2>4, <2>5, <2>6 DEF PurchasesRead
  <2> QED
    BY <1>4, <2>1, <2>7 DEF ListInv
<1> QED
  BY <1>5, <1>6

\* The second reads the marks, or finds that there is nothing to refund.
LEMMA MarksAreRead ==
    ASSUME ChecklistInv, RowsInv', NEW r \in Req, ChecklistMarks(r)
    PROVE  ListInv(r)'
<1>1. RowsInv /\ TypeInv /\ Acts(r) /\ pc[r] = "marks" /\ UNCHANGED marks
  BY DEF ChecklistInv, RowsInv, Acts, Proceed, ChecklistMarks, database
<1>2. seen[r] \in View /\ PurchasesRead(r) /\ told[r] = NothingTold
  BY <1>1 DEF ChecklistInv, ListInv, TypeInv, Begun
<1>3. \A q \in Req : LastReview(q)' => marks' = call'[q].purchased
  BY DEF RowsInv, MarkInv
<1>4. marks' # {} => SomethingMarked'
  BY DEF RowsInv, MarkInv
<1>5. Before[r] \subseteq Req
  BY PurchasesAssumption
<1>6. CASE Status(seen[r].purchases, marks) = "NO_ELIGIBLE_PURCHASES"
  <2>1. PICK P : P = seen[r].purchases
    OBVIOUS
  <2>2. Methods(P, marks) = {}
    BY <1>6, <2>1 DEF Status
  <2>3. DOMAIN P = {} /\ marks = {}
    BY <2>2 DEF Methods
  <2>4. Reply(r, "200") /\ UNCHANGED seen
        /\ told'[r] = [status |-> "NO_ELIGIBLE_PURCHASES", items |-> {}]
    BY <1>1, <1>6, ChecklistSteps
  <2>5. pc'[r] = "done"
    BY <1>1, <2>4, ReplyType
  <2>6. PurchasesRead(r)'
    BY <1>1, <1>2, <2>4, PurchasesReadStay
  <2>7. \A q \in Before[r] : ~(receipts'[q] # None /\ receipts'[q].trip = call'[r].trip)
    BY <2>1, <2>3, <2>4, <2>6 DEF PurchasesRead
  <2>8. \A q \in Before[r] : ~(LastReview(q)' /\ call'[q].purchased # {})
    BY <1>1, <1>3, <1>5, <2>3
  <2>9. told'[r].items = {}
    BY <2>4
  <2>10. AllCounted(r)'
    BY <2>7, <2>8, <2>9 DEF AllCounted
  <2>11. DeadlineTold(r)'
    BY <2>7, <2>9 DEF DeadlineTold, Due
  <2> QED
    BY <2>5, <2>10, <2>11 DEF ListInv
<1>7. CASE Status(seen[r].purchases, marks) # "NO_ELIGIBLE_PURCHASES"
  <2>1. /\ seen'[r].purchases = seen[r].purchases /\ seen'[r].marks = marks
        /\ Goto(r, "latest flight") /\ UNCHANGED told
    BY <1>1, <1>7, ChecklistSteps
  <2>2. PurchasesRead(r)'
    BY <1>1, <1>2, <2>1, PurchasesReadStay
  <2>3. MarksRead(r)'
    BY <1>1, <1>3, <1>4, <1>5, <2>1 DEF MarksRead
  <2> QED
    BY <1>2, <2>1, <2>2, <2>3 DEF ListInv
<1> QED
  BY <1>6, <1>7

\* What the list says of the purchases, the marks and the departure.
LEMMA ListCounts ==
    ASSUME NEW P, NEW m, NEW departs
    PROVE  LET list == [status |-> Status(P, m), items |-> Items(P, m, departs)]
           IN  /\ \A q \in DOMAIN P : Counted(P[q].method, list)
               /\ m # {} => /\ list.status = "ACTION_REQUIRED"
                            /\ "receive-refund" \in list.items
               /\ "receive-refund" \in list.items =>
                     m # {} \/ \E q \in DOMAIN P : P[q].method \in {"AIRPORT", "UNKNOWN"}
               /\ "export-deadline-warning" \in list.items <=> Warned(P, departs)
<1>1. PICK list : list = [status |-> Status(P, m), items |-> Items(P, m, departs)]
  OBVIOUS
<1>2. list.status = Status(P, m) /\ list.items = Items(P, m, departs)
  BY <1>1
<1>3. ASSUME NEW q \in DOMAIN P PROVE Counted(P[q].method, list)
  <2>1. P[q].method \in Methods(P, m)
    BY DEF Methods
  <2> QED
    BY <1>2, <2>1 DEF Counted, Status, Items
<1>4. m # {} => "UNKNOWN" \in Methods(P, m)
  BY DEF Methods
<1>5. m # {} => list.status = "ACTION_REQUIRED" /\ "receive-refund" \in list.items
  BY <1>2, <1>4 DEF Status, Items
<1>6. "receive-refund" \in list.items <=> Methods(P, m) \cap {"AIRPORT", "UNKNOWN"} # {}
  BY <1>2 DEF Items, Papers
<1>7. Methods(P, m) \cap {"AIRPORT", "UNKNOWN"} # {} =>
         m # {} \/ \E q \in DOMAIN P : P[q].method \in {"AIRPORT", "UNKNOWN"}
  BY DEF Methods
<1>8. "export-deadline-warning" \in list.items <=> Warned(P, departs)
  BY <1>2 DEF Items, Papers
<1> QED
  BY <1>1, <1>3, <1>5, <1>6, <1>7, <1>8

\* The flight stored last is the one whose departure counts.
LEMMA LastDeparts ==
    ASSUME RowsInv, NEW r \in Req, NEW i \in DOMAIN flights, LastFlight(i, r)
    PROVE  Departure(call[r].trip) = flights[i].row.departs
<1>1. PICK t : t = call[r].trip
  OBVIOUS
<1>2. PICK f \in Req : f = flights[i].by
  BY DEF RowsInv, TypeInv, TypeOK
<1>3. DOMAIN flights = 1 .. Len(flights) /\ Len(flights) \in Nat
  BY DEF RowsInv, TypeInv
<1> DEFINE on == {j \in DOMAIN flights : flights[j].row.trip = t}
<1>4. i \in on
  BY <1>1, <1>2 DEF RowsInv, FlightInv, LastFlight
<1>5. ASSUME NEW j \in on PROVE j <= i
  <2>1. PICK g \in Req : g = flights[j].by
    BY DEF RowsInv, TypeInv, TypeOK
  <2>2. call[g].op = "flight" /\ call[g].trip = t
    BY <2>1 DEF RowsInv, FlightInv
  <2>3. g = f \/ g \in Before[f]
    BY <1>1, <1>2, <2>1, <2>2 DEF LastFlight
  <2>4. j = i \/ j < i
    BY <1>2, <2>1, <2>3 DEF RowsInv, FlightInv
  <2> QED
    BY <1>3, <2>4
<1>6. \A j \in on : j \in Nat
  BY <1>3
<1> HIDE DEF on
<1>7. Max(on) = i
  BY <1>4, <1>5, <1>6 DEF Max
<1>8. Departure(t) = IF on = {} THEN Null ELSE flights[Max(on)].row.departs
  BY DEF Departure, on
<1> QED
  BY <1>1, <1>4, <1>7, <1>8

\* The last SELECT reads the departure, and the answer accounts for all three.
LEMMA FlightIsTold ==
    ASSUME ChecklistInv, RowsInv', NEW r \in Req, ChecklistFlight(r)
    PROVE  ListInv(r)'
<1>1. /\ RowsInv /\ TypeInv /\ Acts(r) /\ pc[r] = "latest flight"
      /\ receipts' = receipts /\ flights' = flights /\ call' = call /\ seen' = seen
  BY DEF ChecklistInv, RowsInv, Acts, Proceed, ChecklistFlight, database
<1>2. /\ seen[r] \in View /\ PurchasesRead(r) /\ MarksRead(r)
  BY <1>1 DEF ChecklistInv, ListInv, TypeInv, Begun
<1>3. PurchasesRead(r)' /\ MarksRead(r)'
  BY <1>1, <1>2, PurchasesReadStay, MarksReadStay
<1>4. PICK P, m, departs : /\ P = seen[r].purchases /\ m = seen[r].marks
                           /\ departs = Departure(call[r].trip)
  OBVIOUS
<1>5. PICK list : list = [status |-> Status(P, m), items |-> Items(P, m, departs)]
  OBVIOUS
<1>6. told'[r] = list
  BY <1>1, <1>4, <1>5, ChecklistSteps
<1>7. /\ \A q \in DOMAIN P : Counted(P[q].method, list)
      /\ m # {} => list.status = "ACTION_REQUIRED" /\ "receive-refund" \in list.items
      /\ "receive-refund" \in list.items =>
            m # {} \/ \E q \in DOMAIN P : P[q].method \in {"AIRPORT", "UNKNOWN"}
      /\ "export-deadline-warning" \in list.items <=> Warned(P, departs)
  BY <1>5, ListCounts
<1>8. /\ DOMAIN P \subseteq Req /\ Before[r] \subseteq Req
      /\ \A q \in DOMAIN P : P[q] \in Receipt
  BY <1>2, <1>4, PurchasesAssumption DEF View
<1>9. /\ \A q \in DOMAIN P :
            /\ receipts'[q] # None /\ receipts'[q].trip = call'[r].trip
            /\ P[q].purchased = receipts'[q].purchased
            /\ P[q].method \in MethodsSeen(q, r)'
      /\ \A q \in Before[r] : receipts'[q] # None /\ receipts'[q].trip = call'[r].trip =>
            q \in DOMAIN P
  BY <1>1, <1>3, <1>4 DEF PurchasesRead
<1>10. AllCounted(r)'
  <2>1. ASSUME NEW q \in Before[r], receipts'[q] # None, receipts'[q].trip = call'[r].trip
        PROVE  \E method \in MethodsSeen(q, r)' : Counted(method, told'[r])
    BY <1>6, <1>7, <1>9, <2>1
  <2>2. ASSUME NEW q \in Before[r], LastReview(q)', call'[q].purchased # {}
        PROVE  told'[r].status = "ACTION_REQUIRED" /\ "receive-refund" \in told'[r].items
    BY <1>1, <1>3, <1>4, <1>6, <1>7, <2>2 DEF MarksRead
  <2>3. ASSUME "receive-refund" \in told'[r].items
        PROVE  \/ \E q \in Req : /\ receipts'[q] # None /\ receipts'[q].trip = call'[r].trip
                                 /\ MethodsSeen(q, r)' \cap {"AIRPORT", "UNKNOWN"} # {}
               \/ SomethingMarked'
    <3>1. m # {} => SomethingMarked'
      BY <1>1, <1>3, <1>4 DEF MarksRead
    <3>2. ASSUME NEW q \in DOMAIN P, P[q].method \in {"AIRPORT", "UNKNOWN"}
          PROVE  /\ q \in Req /\ receipts'[q] # None /\ receipts'[q].trip = call'[r].trip
                 /\ MethodsSeen(q, r)' \cap {"AIRPORT", "UNKNOWN"} # {}
      BY <1>8, <1>9, <3>2
    <3> QED
      BY <1>6, <1>7, <2>3, <3>1, <3>2
  <2> QED
    BY <2>1, <2>2, <2>3 DEF AllCounted
<1>11. DeadlineTold(r)'
  <2> SUFFICES ASSUME NEW i \in DOMAIN flights, LastFlight(i, r)
               PROVE  /\ Warned(P, departs) => \E q \in Req : Due(q, r, departs)
                      /\ (\E q \in Before[r] : Due(q, r, departs)) => Warned(P, departs)
                      /\ departs = flights[i].row.departs
    <3>1. /\ \A i : LastFlight(i, r)' <=> LastFlight(i, r)
          /\ \A q : Due(q, r, departs)' <=> Due(q, r, departs)
          /\ \A i, q : departs = flights[i].row.departs =>
                (Due(q, r, flights[i].row.departs)' <=> Due(q, r, departs)')
      BY <1>1 DEF LastFlight, Due
    <3> QED
      BY <1>1, <1>6, <1>7, <3>1 DEF DeadlineTold
  <2>1. departs = flights[i].row.departs
    BY <1>1, <1>4, LastDeparts
  <2>2. departs \in Instant \cup {Null}
    <3>1. flights[i].row \in Flight
      BY <1>1 DEF TypeInv, TypeOK
    <3> QED
      BY <2>1, <3>1 DEF Flight
  <2>3. ASSUME NEW q \in DOMAIN P
        PROVE  P[q].purchased # Null /\ departs # Null
                  /\ ExceedsExportDeadline(P[q].purchased, departs)
                <=> Due(q, r, departs)
    <3>1. PICK p : p = P[q].purchased
      OBVIOUS
    <3>2. /\ p \in Instant \cup {Null} /\ p = receipts[q].purchased
          /\ receipts[q] # None /\ receipts[q].trip = call[r].trip
      BY <1>1, <1>8, <1>9, <3>1 DEF Receipt
    <3>3. p # Null /\ departs # Null => (ExceedsExportDeadline(p, departs) <=> Overdue(p, departs))
      BY <2>2, <3>2, OverdueIsExceeding, PurchasesAssumption
    <3> QED
      BY <3>1, <3>2, <3>3 DEF Due
  <2>4. ASSUME NEW q \in Before[r], Due(q, r, departs) PROVE q \in DOMAIN P
    BY <1>1, <1>9, <2>4 DEF Due
  <2> QED
    BY <1>8, <2>1, <2>3, <2>4 DEF Warned
<1> QED
  BY <1>1, <1>3, <1>10, <1>11, ReplyType DEF ListInv, ChecklistFlight

\* A handler of another call answers no checklist.
LEMMA NoChecklist ==
    ASSUME RowsInv, RowsInv', NEW r \in Req, Acts(r),
           ~ChecklistReceipts(r), ~ChecklistMarks(r), ~ChecklistFlight(r)
    PROVE  ListInv(r)'
<1>1. call'[r].op # "checklist"
  BY StepsOf DEF RowsInv
<1>2. Begun(r)'
  BY DEF RowsInv, TypeInv
<1>3. pc'[r] \notin {"marks", "latest flight"} /\ told'[r] = NothingTold
  BY <1>1, <1>2 DEF Begun
<1> QED
  BY <1>3 DEF ListInv

\* The invariant of the checklists is inductive.
LEMMA StepKeepsChecklists == ChecklistInv /\ [Next]_vars => ChecklistInv'
<1>1. ASSUME ChecklistInv, NEW r \in Req, Acts(r) PROVE ChecklistInv'
  <2>1. RowsInv /\ RowsInv' /\ Moves(r)
    BY <1>1, StepRowsInv, OneMoves DEF ChecklistInv, RowsInv
  <2>2. ASSUME NEW x \in Req \ {r} PROVE ListInv(x)'
    BY <1>1, <2>1, OthersListInv DEF Moves
  <2>3. ListInv(r)'
    BY <1>1, <2>1, ReceiptsAreRead, MarksAreRead, FlightIsTold, NoChecklist
  <2> QED
    BY <2>1, <2>2, <2>3 DEF ChecklistInv
<1>2. ASSUME ChecklistInv, UNCHANGED vars PROVE ChecklistInv'
  <2>1. /\ receipts' = receipts /\ flights' = flights /\ marks' = marks /\ pc' = pc
        /\ call' = call /\ answer' = answer /\ seen' = seen /\ told' = told
    BY <1>2 DEF vars, database
  <2>2. TypeInv'
    BY <1>2, StepKeepsType DEF ChecklistInv, RowsInv
  <2>3. \A q : LastReview(q)' <=> LastReview(q)
    BY <2>1 DEF LastReview
  <2>4. /\ SomethingMarked' <=> SomethingMarked
        /\ \A q : Settled(q)' <=> Settled(q)
        /\ \A q, x : MethodsSeen(q, x)' = MethodsSeen(q, x)
        /\ \A i, x : LastFlight(i, x)' <=> LastFlight(i, x)
    BY <2>1 DEF SomethingMarked, Settled, Recording, MethodsSeen, LastFlight
  <2>5. SentInTurn' /\ MarkInv' /\ FlightInv'
    BY <1>2, <2>1, <2>3, <2>4 DEF ChecklistInv, RowsInv, SentInTurn, MarkInv, FlightInv
  <2>6. ASSUME NEW q \in Req PROVE ReceiptInv(q)' /\ RefundInv(q)'
    <3>1. ReceiptInv(q) /\ RefundInv(q)
      BY <1>2 DEF ChecklistInv, RowsInv
    <3> QED
      BY <2>1, <2>4, <3>1 DEF ReceiptInv, RefundInv
  <2>7. ASSUME NEW x \in Req PROVE ListInv(x)'
    <3>1. ListInv(x)
      BY <1>2 DEF ChecklistInv
    <3>2. PurchasesRead(x)' <=> PurchasesRead(x)
      BY <2>1, <2>4 DEF PurchasesRead
    <3>3. MarksRead(x)' <=> MarksRead(x)
      BY <2>1, <2>3, <2>4 DEF MarksRead
    <3>4. AllCounted(x)' <=> AllCounted(x)
      BY <2>1, <2>3, <2>4 DEF AllCounted, Counted
    <3>5. DeadlineTold(x)' <=> DeadlineTold(x)
      <4>1. \A i, q : Due(q, x, flights[i].row.departs)' <=> Due(q, x, flights[i].row.departs)
        BY <2>1 DEF Due
      <4> QED
        BY <2>1, <2>4, <4>1 DEF DeadlineTold
    <3> QED
      BY <2>1, <3>1, <3>2, <3>3, <3>4, <3>5 DEF ListInv
  <2> QED
    BY <2>2, <2>5, <2>6, <2>7 DEF ChecklistInv, RowsInv
<1> QED
  BY <1>1, <1>2 DEF Next, Acts, Arrive

\* It holds at the start.
LEMMA InitChecklists == Init => ChecklistInv
<1> SUFFICES ASSUME Init PROVE ChecklistInv
  OBVIOUS
<1>1. \A q \in Req : /\ pc[q] = "idle" /\ call[q] = NoCall /\ answer[q] = ""
                     /\ told[q] = NothingTold /\ receipts[q] = None
  BY DEF Init, RequestInit
<1>2. NoCall.op = "none"
  BY DEF NoCall
<1>3. DOMAIN flights = {} /\ marks = {}
  BY DEF Init
<1>4. \A q \in Req : call[q].op \notin {"review", "receipt", "refund"}
  BY <1>1, <1>2
<1>5. SentInTurn /\ MarkInv /\ FlightInv
  BY <1>1, <1>3, <1>4 DEF SentInTurn, MarkInv, LastReview, FlightInv
<1>6. \A q \in Req : ReceiptInv(q) /\ RefundInv(q)
  BY <1>1, <1>4 DEF ReceiptInv, RefundInv
<1>7. \A x \in Req : ListInv(x)
  BY <1>1 DEF ListInv
<1> QED
  BY InitType, <1>5, <1>6, <1>7 DEF ChecklistInv, RowsInv

\* So it always holds.
LEMMA ChecklistsRight == Spec => []ChecklistInv
  BY InitChecklists, StepKeepsChecklists, PTL DEF Spec

\* No purchase that was acknowledged before the checklist was asked for is
\* overlooked (RefundChecklistService.build), whatever is stored, recorded and
\* reviewed between its SELECTs.
THEOREM EarlierPurchasesSeen == Spec => []ChecklistSeesEarlierPurchases
<1>1. ASSUME ChecklistInv PROVE ChecklistSeesEarlierPurchases
  <2> SUFFICES ASSUME NEW t \in Trip, NEW r \in Req, Answered(r, t), NEW q \in Before[r]
               PROVE  /\ call[q].op = "receipt" /\ call[q].trip = t /\ answer[q] = "201" =>
                          /\ told[r].status # "NO_ELIGIBLE_PURCHASES"
                          /\ "IMMEDIATE" \notin MethodsSeen(q, r) =>
                                told[r].status = "ACTION_REQUIRED" /\ Papers \subseteq told[r].items
                          /\ MethodsSeen(q, r) \subseteq {"AIRPORT", "UNKNOWN"} =>
                                "receive-refund" \in told[r].items
                      /\ LastReview(q) /\ call[q].purchased # {} =>
                          told[r].status = "ACTION_REQUIRED" /\ "receive-refund" \in told[r].items
    BY DEF ChecklistSeesEarlierPurchases, LastReview
  <2>1. q \in Req
    BY PurchasesAssumption
  <2>2. AllCounted(r) /\ call[r].trip = t
    BY <1>1 DEF ChecklistInv, ListInv, Answered
  <2>3. ASSUME call[q].op = "receipt", call[q].trip = t, answer[q] = "201"
        PROVE  \E method \in MethodsSeen(q, r) : Counted(method, told[r])
    <3>1. receipts[q] # None /\ receipts[q].trip = t
      BY <1>1, <2>1, <2>3 DEF ChecklistInv, RowsInv, ReceiptInv
    <3> QED
      BY <2>2, <3>1 DEF AllCounted
  <2> QED
    BY <2>2, <2>3 DEF AllCounted, Counted
<1> QED
  BY <1>1, ChecklistsRight, PTL

\* Nobody is sent to a refund counter for nothing.
THEOREM SentOnlyIfDue == Spec => []RefundOnlyIfDue
<1>1. ASSUME ChecklistInv PROVE RefundOnlyIfDue
  <2> SUFFICES ASSUME NEW t \in Trip, NEW r \in Req, Answered(r, t),
                      "receive-refund" \in told[r].items
               PROVE  \/ \E q \in Req :
                            /\ call[q].op = "receipt" /\ call[q].trip = t
                            /\ MethodsSeen(q, r) \cap {"AIRPORT", "UNKNOWN"} # {}
                      \/ \E q \in Req : call[q].op = "review" /\ call[q].purchased # {}
    BY DEF RefundOnlyIfDue
  <2>1. AllCounted(r) /\ call[r].trip = t
    BY <1>1 DEF ChecklistInv, ListInv, Answered
  <2>2. ASSUME NEW q \in Req, receipts[q] # None, receipts[q].trip = t
        PROVE  call[q].op = "receipt" /\ call[q].trip = t
    BY <1>1, <2>2 DEF ChecklistInv, RowsInv, ReceiptInv
  <2> QED
    BY <2>1, <2>2 DEF AllCounted, SomethingMarked
<1> QED
  BY <1>1, ChecklistsRight, PTL

\* The warning is given exactly when the flight stored last leaves more than
\* three calendar months after a purchase of the trip.
THEOREM WarnedInTime == Spec => []DeadlineWarned
<1>1. ASSUME ChecklistInv PROVE DeadlineWarned
  <2> SUFFICES ASSUME NEW t \in Trip, NEW r \in Req, Answered(r, t),
                      NEW i \in DOMAIN flights, LastFlight(i, r)
               PROVE  /\ "export-deadline-warning" \in told[r].items =>
                            \E q \in Req : Due(q, r, flights[i].row.departs)
                      /\ (\E q \in Before[r] : Due(q, r, flights[i].row.departs)) =>
                            "export-deadline-warning" \in told[r].items
    BY DEF DeadlineWarned, LastFlight, Due, Answered
  <2>1. DeadlineTold(r)
    BY <1>1 DEF ChecklistInv, ListInv, Answered
  <2> QED
    BY <2>1 DEF DeadlineTold
<1> QED
  BY <1>1, ChecklistsRight, PTL

-----------------------------------------------------------------------------
(* The total of immediate refunds, which is a fold over a set: what it has *)
(* for a set and one more element, by the least set that had another.      *)

\* A set of numbers has a least one.
LEMMA LeastNumber ==
    ASSUME NEW S \in SUBSET Nat, S # {}
    PROVE  \E n \in S : \A m \in S : ~(m < n)
<1>1. PICK n \in S : \A m \in S : ~(<<m, n>> \in OpToRel(<, Nat))
  BY NatLessThanWellFounded, WFMin
<1> QED
  BY <1>1 DEF OpToRel

Pick(s) == CHOOSE x \in s : TRUE

\* What one step of the fold adds to what it has.
Added(f, g, s) == IF s = {} THEN 0 ELSE f[Pick(s)] + g[s \ {Pick(s)}]

\* g[s] is the sum of f over s, for every part s of S.
SumsUp(g, f, S) == g = [s \in SUBSET S |-> Added(f, g, s)]

\* The parts of a finite set, and what is left of one without an element.
LEMMA PartsType ==
    ASSUME NEW S, IsFiniteSet(S), NEW s \in SUBSET S
    PROVE  /\ IsFiniteSet(s) /\ Cardinality(s) \in Nat
           /\ s # {} => Pick(s) \in s
           /\ \A x \in s : s \ {x} \in SUBSET S /\ Cardinality(s \ {x}) = Cardinality(s) - 1
           /\ Cardinality(s) = 0 <=> s = {}
<1>1. IsFiniteSet(s) /\ Cardinality(s) \in Nat
  BY FS_Subset, FS_CardinalityType
<1>2. ASSUME NEW x \in s PROVE s \ {x} \in SUBSET S /\ Cardinality(s \ {x}) = Cardinality(s) - 1
  BY <1>1, FS_RemoveElement
<1>3. Cardinality(s) = 0 <=> s = {}
  BY <1>1, FS_EmptySet
<1>4. s # {} => Pick(s) \in s
  BY DEF Pick
<1> QED
  BY <1>1, <1>2, <1>3, <1>4

\* There is such a function, made of those for smaller and smaller parts.
LEMMA SumsExist ==
    ASSUME NEW S, IsFiniteSet(S), NEW f \in [S -> Nat]
    PROVE  \E g : SumsUp(g, f, S)
<1> DEFINE Upto(g, n) == \A s \in SUBSET S :
                            ~(n < Cardinality(s)) => g[s] \in Nat /\ g[s] = Added(f, g, s)
           wrong == {n \in Nat : ~\E g : Upto(g, n)}
<1>1. wrong = {}
  <2> SUFFICES ASSUME wrong # {} PROVE FALSE
    OBVIOUS
  <2>1. PICK n \in wrong : \A m \in wrong : ~(m < n)
    BY LeastNumber
  <2>2. n # 0
    <3>1. PICK g : g = [s \in SUBSET S |-> 0]
      OBVIOUS
    <3>2. Upto(g, 0)
      BY <3>1, PartsType DEF Added
    <3> QED
      BY <2>1, <3>2
  <2>3. PICK g : Upto(g, n - 1)
    <3>1. n - 1 \in Nat /\ n - 1 < n
      BY <2>1, <2>2
    <3> QED
      BY <2>1, <3>1
  <2>4. PICK h : h = [s \in SUBSET S |->
                        IF n - 1 < Cardinality(s) THEN Added(f, g, s) ELSE g[s]]
    OBVIOUS
  <2>5. ASSUME NEW s \in SUBSET S, ~(n < Cardinality(s))
        PROVE  h[s] \in Nat /\ h[s] = Added(f, h, s)
    <3>1. n \in Nat /\ Cardinality(s) \in Nat
      BY <2>1, PartsType
    <3>2. CASE s = {}
      <4>1. Cardinality(s) = 0 /\ Added(f, g, s) = 0 /\ Added(f, h, s) = 0
        BY <3>2, PartsType DEF Added
      <4> QED
        BY <2>2, <2>3, <2>4, <3>1, <4>1
    <3>3. CASE s # {}
      <4>0. Pick(s) \in s
        BY <3>3, PartsType
      <4>1. PICK x, t : x \in s /\ x = Pick(s) /\ t = s \ {x}
        BY <4>0
      <4>2. t \in SUBSET S /\ Cardinality(t) = Cardinality(s) - 1
        BY <4>1, PartsType
      <4>3. g[t] \in Nat /\ h[t] = g[t]
        BY <2>3, <2>4, <2>5, <3>1, <4>2
      <4>4. Added(f, g, s) = f[x] + g[t] /\ Added(f, h, s) = f[x] + h[t] /\ f[x] \in Nat
        BY <3>3, <4>1 DEF Added
      <4> QED
        BY <2>3, <2>4, <3>1, <4>3, <4>4
    <3> QED
      BY <3>2, <3>3
  <2>6. Upto(h, n)
    BY <2>5
  <2> QED
    BY <2>1, <2>6
<1>2. PICK g : Upto(g, Cardinality(S))
  <2>1. Cardinality(S) \in Nat
    BY FS_CardinalityType
  <2> QED
    BY <1>1, <2>1
<1>3. \A s \in SUBSET S : g[s] = Added(f, g, s)
  <2>1. \A s \in SUBSET S : Cardinality(s) \in Nat /\ Cardinality(S) \in Nat /\ Cardinality(s) <= Cardinality(S)
    BY FS_Subset, FS_CardinalityType
  <2> QED
    BY <1>2, <2>1
<1>4. PICK h : h = [s \in SUBSET S |-> g[s]]
  OBVIOUS
<1>5. ASSUME NEW s \in SUBSET S PROVE h[s] = Added(f, h, s)
  <2>1. s # {} => s \ {Pick(s)} \in SUBSET S
    OBVIOUS
  <2>2. Added(f, h, s) = Added(f, g, s)
    BY <1>4, <2>1 DEF Added
  <2> QED
    BY <1>3, <1>4, <2>2
<1>6. h = [s \in SUBSET S |-> Added(f, h, s)]
  BY <1>4, <1>5
<1> QED
  BY <1>6 DEF SumsUp

\* The sum over a part is that without any one of its elements, and it.
LEMMA SumWithout ==
    ASSUME NEW S, IsFiniteSet(S), NEW f \in [S -> Nat], NEW g, SumsUp(g, f, S)
    PROVE  \A s \in SUBSET S : /\ g[s] \in Nat
                               /\ \A x \in s : g[s] = f[x] + g[s \ {x}]
<1> DEFINE Right(s) == g[s] \in Nat /\ \A x \in s : g[s] = f[x] + g[s \ {x}]
           wrong == {Cardinality(s) : s \in {t \in SUBSET S : ~Right(t)}}
<1>0. \A s \in SUBSET S : g[s] = Added(f, g, s)
  BY DEF SumsUp
<1> SUFFICES ASSUME wrong # {} PROVE FALSE
  OBVIOUS
<1>1. wrong \in SUBSET Nat
  BY PartsType
<1>2. PICK n \in wrong : \A m \in wrong : ~(m < n)
  BY <1>1, LeastNumber
<1>3. PICK s \in SUBSET S : ~Right(s) /\ Cardinality(s) = n
  BY <1>2
<1>4. ASSUME NEW t \in SUBSET S, Cardinality(t) < Cardinality(s) PROVE Right(t)
  BY <1>2, <1>3, <1>4
<1> HIDE DEF wrong
<1>5. s # {}
  <2>1. s = {} => g[s] = 0
    BY <1>0 DEF Added
  <2> QED
    BY <1>3, <2>1
<1>6. PICK y, t : y \in s /\ y = Pick(s) /\ t = s \ {y}
  <2>1. Pick(s) \in s
    BY <1>5, PartsType
  <2> QED
    BY <2>1
<1>7. t \in SUBSET S /\ Right(t) /\ g[s] = f[y] + g[t] /\ f[y] \in Nat
  <2>1. t \in SUBSET S /\ Cardinality(t) < Cardinality(s)
    BY <1>6, PartsType
  <2> QED
    BY <1>0, <1>4, <1>5, <1>6, <2>1 DEF Added
<1>8. ASSUME NEW x \in s PROVE g[s] = f[x] + g[s \ {x}]
  <2>1. CASE x = y
    BY <1>6, <1>7, <2>1
  <2>2. CASE x # y
    <3>1. PICK u, v : u = s \ {x} /\ v = t \ {x}
      OBVIOUS
    <3>2. x \in t /\ y \in u /\ u \ {y} = v /\ u \in SUBSET S /\ v \in SUBSET S
      BY <1>6, <2>2, <3>1
    <3>3. Right(u)
      <4>1. Cardinality(u) < Cardinality(s)
        BY <3>1, PartsType
      <4> QED
        BY <1>4, <3>2, <4>1
    <3>4. g[t] = f[x] + g[v] /\ g[u] = f[y] + g[v]
      BY <1>7, <3>1, <3>2, <3>3
    <3>5. g[v] \in Nat
      <4>1. Cardinality(v) < Cardinality(s)
        <5>1. Cardinality(t) = Cardinality(s) - 1 /\ Cardinality(s) \in Nat
          BY <1>6, PartsType
        <5>2. Cardinality(v) = Cardinality(t) - 1
          BY <1>7, <3>1, <3>2, PartsType
        <5> QED
          BY <5>1, <5>2
      <4> QED
        BY <1>4, <3>2, <4>1
    <3>6. f[x] \in Nat
      OBVIOUS
    <3>7. g[s] = f[y] + (f[x] + g[v]) /\ f[x] + g[u] = f[x] + (f[y] + g[v])
      BY <1>7, <3>4
    <3> QED
      BY <1>7, <3>1, <3>5, <3>6, <3>7
  <2> QED
    BY <2>1, <2>2
<1>9. g[s] \in Nat
  BY <1>7
<1> QED
  BY <1>3, <1>8, <1>9

\* Sums of the same numbers over the same part agree.
LEMMA SumsAgree ==
    ASSUME NEW S, IsFiniteSet(S), NEW f \in [S -> Nat], NEW g, SumsUp(g, f, S),
           NEW T \in SUBSET S, NEW e \in [T -> Nat], NEW h, SumsUp(h, e, T),
           \A x \in T : e[x] = f[x]
    PROVE  h[T] = g[T]
<1> DEFINE wrong == {Cardinality(s) : s \in {t \in SUBSET T : h[t] # g[t]}}
<1> SUFFICES ASSUME wrong # {} PROVE FALSE
  OBVIOUS
<1>0. IsFiniteSet(T)
  BY FS_Subset
<1>1. wrong \in SUBSET Nat
  BY <1>0, PartsType
<1>2. PICK n \in wrong : \A m \in wrong : ~(m < n)
  BY <1>1, LeastNumber
<1>3. PICK s \in SUBSET T : h[s] # g[s] /\ Cardinality(s) = n
  BY <1>2
<1>4. h[s] = Added(e, h, s) /\ g[s] = Added(f, g, s)
  BY DEF SumsUp
<1>5. s # {}
  BY <1>3, <1>4 DEF Added
<1>6. PICK x, t : x \in s /\ x = Pick(s) /\ t = s \ {x}
  BY <1>0, <1>5, PartsType
<1>7. t \in SUBSET T /\ Cardinality(t) < Cardinality(s)
  BY <1>0, <1>6, PartsType
<1>8. h[t] = g[t]
  BY <1>2, <1>3, <1>7
<1> QED
  BY <1>3, <1>4, <1>5, <1>6, <1>8 DEF Added
\* The purchases that the known total adds up.
Immediate(P) == {q \in DOMAIN P : P[q].method = "IMMEDIATE" /\ KnownTotal(P[q])}

\* The known total of purchases is such a sum, of the amounts f.
LEMMA TotalIsSum ==
    ASSUME NEW P, IsFiniteSet(Immediate(P)), NEW f \in [Immediate(P) -> Nat],
           \A q \in Immediate(P) : f[q] = P[q].amount
    PROVE  \E g : /\ SumsUp(g, f, Immediate(P))
                  /\ KnownImmediateTotal(P) = g[Immediate(P)]
<1> DEFINE S == Immediate(P)
           Fold(g) == g = [s \in SUBSET S |-> IF s = {} THEN 0
                                              ELSE P[Pick(s)].amount + g[s \ {Pick(s)}]]
<1>1. KnownImmediateTotal(P) = (CHOOSE g : Fold(g))[S]
  BY DEF KnownImmediateTotal, Immediate, MapThenSumSet, MapThenFoldSet, Pick
<1>2. \A g : Fold(g) <=> SumsUp(g, f, S)
  <2>1. \A s \in SUBSET S : s # {} => P[Pick(s)].amount = f[Pick(s)]
    BY PartsType
  <2> QED
    BY <2>1 DEF SumsUp, Added
<1>3. \E g : Fold(g)
  BY <1>2, SumsExist
<1> HIDE DEF Fold
<1>4. Fold(CHOOSE g : Fold(g))
  BY <1>3
<1> QED
  BY <1>1, <1>2, <1>4

\* A purchase with a known total counts once, however it was refunded.
LEMMA CountsOnce ==
    ASSUME NEW P, IsFiniteSet(DOMAIN P),
           \A p \in DOMAIN P : KnownTotal(P[p]) => P[p].amount \in Nat,
           NEW q \in DOMAIN P, KnownTotal(P[q]),
           NEW I, NEW A, DOMAIN I = DOMAIN P, DOMAIN A = DOMAIN P,
           \A p \in DOMAIN P \ {q} : I[p] = P[p] /\ A[p] = P[p],
           /\ I[q].method = "IMMEDIATE" /\ I[q].amount = P[q].amount
           /\ I[q].currency = P[q].currency,
           /\ A[q].method = "AIRPORT" /\ A[q].amount = P[q].amount
           /\ A[q].currency = P[q].currency
    PROVE  Projected(I, q) = Projected(A, q)
<1>1. PICK S, T : S = Immediate(I) /\ T = Immediate(A)
  OBVIOUS
<1>2. KnownTotal(I[q]) /\ KnownTotal(A[q])
  BY DEF KnownTotal
<1>3. q \in S /\ T = S \ {q} /\ S \subseteq DOMAIN P
  <2>1. \A p \in DOMAIN P \ {q} : p \in S <=> p \in T
    BY <1>1 DEF Immediate
  <2>2. q \in S /\ q \notin T
    BY <1>1, <1>2 DEF Immediate
  <2>3. S \subseteq DOMAIN P /\ T \subseteq DOMAIN P
    BY <1>1 DEF Immediate
  <2> QED
    BY <2>1, <2>2, <2>3
<1>4. \A p \in S : I[p].amount = P[p].amount /\ P[p].amount \in Nat
  <2>1. ASSUME NEW p \in S \ {q} PROVE I[p] = P[p] /\ KnownTotal(P[p])
    BY <1>1, <1>3 DEF Immediate
  <2> QED
    BY <1>3, <2>1
<1>5. PICK f, e : f = [p \in S |-> I[p].amount] /\ e = [p \in T |-> A[p].amount]
  OBVIOUS
<1>6. /\ f \in [S -> Nat] /\ e \in [T -> Nat] /\ \A p \in T : e[p] = f[p]
      /\ \A p \in S : f[p] = I[p].amount
      /\ \A p \in T : e[p] = A[p].amount
  BY <1>3, <1>4, <1>5
<1>7. IsFiniteSet(S) /\ IsFiniteSet(T)
  <2>1. S \in SUBSET (DOMAIN P) /\ T \in SUBSET (DOMAIN P)
    BY <1>3
  <2> QED
    BY <2>1, FS_Subset
<1>8. PICK g : SumsUp(g, f, S) /\ KnownImmediateTotal(I) = g[S]
  BY <1>1, <1>6, <1>7, TotalIsSum
<1>9. PICK h : SumsUp(h, e, T) /\ KnownImmediateTotal(A) = h[T]
  BY <1>1, <1>6, <1>7, TotalIsSum
<1>10. h[T] = g[T] /\ g[S] = f[q] + g[T] /\ g[T] \in Nat /\ f[q] \in Nat
  <2>1. T \in SUBSET S /\ S \in SUBSET S
    BY <1>3
  <2>2. h[T] = g[T]
    BY <1>6, <1>7, <1>8, <1>9, <2>1, SumsAgree
  <2>3. \A s \in SUBSET S : g[s] \in Nat /\ \A x \in s : g[s] = f[x] + g[s \ {x}]
    BY <1>6, <1>7, <1>8, SumWithout
  <2> QED
    BY <1>3, <1>6, <2>1, <2>2, <2>3
<1>11. f[q] = A[q].amount
  BY <1>3, <1>6
<1> QED
  BY <1>8, <1>9, <1>10, <1>11 DEF Projected

\* Recording a refund as immediate or not does not change whether the amount
\* would have allowed it: the purchase counts once either way
\* (_potential_immediate_eligibility). Requests are finitely many, or a trip
\* would have no total.
THEOREM RecordedOnce ==
    ASSUME IsFiniteSet(Req)
    PROVE  Spec => []RecordingDoesNotMoveEligibility
<1>1. ASSUME TypeInv PROVE RecordingDoesNotMoveEligibility
  <2> SUFFICES ASSUME NEW t \in Trip, NEW P, P = [p \in OnTrip(t) |-> receipts[p]],
                      NEW q \in DOMAIN P
               PROVE  Eligible([P EXCEPT ![q].method = "IMMEDIATE"], q)
                        = Eligible([P EXCEPT ![q].method = "AIRPORT"], q)
    BY DEF RecordingDoesNotMoveEligibility
  <2>1. DOMAIN P \in SUBSET Req /\ \A p \in DOMAIN P : P[p] \in Receipt
    BY <1>1 DEF TypeInv, TypeOK, OnTrip
  <2>2. IsFiniteSet(DOMAIN P)
    BY <2>1, FS_Subset
  <2>3. \A p \in DOMAIN P : KnownTotal(P[p]) => P[p].amount \in Nat
    BY <2>1, PurchasesAssumption DEF Receipt, KnownTotal
  <2>4. PICK row \in Receipt : row = P[q]
    BY <2>1
  <2>5. PICK immediate, later : /\ immediate = [row EXCEPT !.method = "IMMEDIATE"]
                                /\ later = [row EXCEPT !.method = "AIRPORT"]
    OBVIOUS
  <2>6. /\ immediate.method = "IMMEDIATE" /\ later.method = "AIRPORT"
        /\ immediate.amount = row.amount /\ immediate.currency = row.currency
        /\ later.amount = row.amount /\ later.currency = row.currency
    BY <2>5 DEF Receipt
  <2>7. PICK I, A : /\ I = [P EXCEPT ![q] = immediate]
                    /\ A = [P EXCEPT ![q] = later]
    OBVIOUS
  <2>8. /\ [P EXCEPT ![q].method = "IMMEDIATE"] = I
        /\ [P EXCEPT ![q].method = "AIRPORT"] = A
    BY <2>4, <2>5, <2>7
  <2>9. /\ DOMAIN I = DOMAIN P /\ DOMAIN A = DOMAIN P
        /\ \A p \in DOMAIN P \ {q} : I[p] = P[p] /\ A[p] = P[p]
        /\ I[q] = immediate /\ A[q] = later
    BY <2>7
  <2>10. KnownTotal(P[q]) => Projected(I, q) = Projected(A, q)
    BY <2>2, <2>3, <2>4, <2>6, <2>9, CountsOnce
  <2>11. /\ KnownTotal(I[q]) <=> KnownTotal(P[q])
         /\ KnownTotal(A[q]) <=> KnownTotal(P[q])
         /\ I[q].amount = A[q].amount
    BY <2>4, <2>6, <2>9 DEF KnownTotal
  <2>12. Eligible(I, q) = Eligible(A, q)
    BY <2>10, <2>11 DEF Eligible
  <2> QED
    BY <2>8, <2>12
<1> QED
  BY <1>1, InitType, StepKeepsType, PTL DEF Spec

=============================================================================
