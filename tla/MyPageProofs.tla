----------------------------- MODULE MyPageProofs -----------------------------
(***************************************************************************)
(* Quotes for all prices, refunds and rates, and the page of the user for  *)
(* every set of requests, products and sessions.                           *)
(***************************************************************************)
EXTENDS MyPage, TLAPS

\* Half-up rounding brackets the quotient by a half on either side.
LEMMA HalfUpBounds ==
    ASSUME NEW n \in Nat, NEW d \in Nat \ {0}
    PROVE  /\ HalfUp(n, d) \in Nat
           /\ 2 * (d * HalfUp(n, d)) <= 2 * n + d
           /\ 2 * n + d < 2 * (d * HalfUp(n, d)) + 2 * d
<1> DEFINE h == (2 * n + d) \div (2 * d)
<1>1. h \in Nat /\ (2 * d) * h <= 2 * n + d /\ 2 * n + d < (2 * d) * (h + 1)
  OBVIOUS
<1>2. (2 * d) * h = 2 * (d * h) /\ (2 * d) * (h + 1) = 2 * (d * h) + 2 * d
  <2>1. h \in Nat /\ d \in Nat
    BY <1>1
  <2> HIDE DEF h
  <2>2. \A x, y \in Nat : (2 * x) * y = 2 * (x * y) /\ x * (y + 1) = x * y + x
    OBVIOUS
  <2>3. (2 * d) * (h + 1) = (2 * d) * h + 2 * d
    BY <2>1, <2>2
  <2>4. QED
    BY <2>1, <2>2, <2>3
<1>3. QED
  BY <1>1, <1>2 DEF HalfUp

\* Two roundings differ from the rounding of the sum by at most one unit.
LEMMA HalfUpOfSum ==
    ASSUME NEW m \in Nat, NEW n \in Nat, NEW d \in Nat \ {0}
    PROVE  HalfUp(m, d) + HalfUp(n, d) - HalfUp(m + n, d) \in -1 .. 1
<1> DEFINE a == HalfUp(m, d)
           b == HalfUp(n, d)
           c == HalfUp(m + n, d)
           e == a + b - c
<1>1. /\ a \in Nat /\ 2 * (d * a) <= 2 * m + d /\ 2 * m + d < 2 * (d * a) + 2 * d
      /\ b \in Nat /\ 2 * (d * b) <= 2 * n + d /\ 2 * n + d < 2 * (d * b) + 2 * d
      /\ c \in Nat /\ 2 * (d * c) <= 2 * (m + n) + d
      /\ 2 * (m + n) + d < 2 * (d * c) + 2 * d
  <2>1. m + n \in Nat
    OBVIOUS
  <2> QED
    BY <2>1, HalfUpBounds, Zenon
<1> HIDE DEF a, b, c
<1>2. d * a + d * b - d * c = d * e
  BY <1>1
<1>3. e \in Int
  BY <1>1
<1> HIDE DEF e
<1>4. d * e < 2 * d /\ -(2 * d) < d * e
  BY <1>1, <1>2, <1>3
<1>5. e < 2 /\ -2 < e
  BY <1>3, <1>4
<1>6. QED
  BY <1>3, <1>5 DEF a, b, c, e

\* Rounding keeps the order.
LEMMA HalfUpMonotone ==
    ASSUME NEW m \in Nat, NEW n \in Nat, m <= n, NEW d \in Nat \ {0}
    PROVE  HalfUp(m, d) <= HalfUp(n, d)
<1> DEFINE a == HalfUp(m, d)
           b == HalfUp(n, d)
<1>1. /\ a \in Nat /\ 2 * (d * a) <= 2 * m + d
      /\ b \in Nat /\ 2 * n + d < 2 * (d * b) + 2 * d
  BY HalfUpBounds
<1> HIDE DEF a, b
<1>2. d * a < d * (b + 1)
  <2>1. d * (b + 1) = d * b + d
    BY <1>1
  <2>2. QED
    BY <1>1, <2>1
<1>3. a < b + 1
  BY <1>1, <1>2
<1>4. QED
  BY <1>1, <1>3 DEF a, b

\* The refund of the policy is at most the price, and a higher price is never
\* the lower one after the refund (calculate_estimated_refund_krw).
THEOREM HigherPriceStaysHigher ==
    ASSUME NEW p \in Nat, NEW q \in Nat, p <= q
    PROVE  /\ EstimatedRefund(p) \in 0 .. p
           /\ p - EstimatedRefund(p) <= q - EstimatedRefund(q)
BY DEF EstimatedRefund, HalfUp

\* The converted refund and the converted price after it make up the converted
\* price to a cent, and neither exceeds it, at every rate (PricingService.quote).
THEOREM ConvertedPartsAddUp ==
    ASSUME NEW price \in Nat, NEW refund \in 0 .. price, NEW at \in Nat, at # Null
    PROVE  LET q == QuoteOf(price, refund, at)
           IN  /\ q.refund + q.rest = q.price
               /\ q.inRefund + q.inRest - q.inPrice \in -1 .. 1
               /\ q.inRefund <= q.inPrice /\ q.inRest <= q.inPrice
<1> DEFINE rest == price - refund
           a == 100 * refund * at
           b == 100 * rest * at
<1>1. rest \in Nat /\ refund \in Nat
  OBVIOUS
<1>2. a \in Nat /\ b \in Nat /\ a + b = 100 * price * at
  BY <1>1
<1>3. /\ Converted(refund, at) = HalfUp(a, Scale)
      /\ Converted(rest, at) = HalfUp(b, Scale)
      /\ Converted(price, at) = HalfUp(a + b, Scale)
  BY <1>2 DEF Converted
<1> HIDE DEF a, b
<1>4. /\ HalfUp(a, Scale) + HalfUp(b, Scale) - HalfUp(a + b, Scale) \in -1 .. 1
      /\ HalfUp(a, Scale) <= HalfUp(a + b, Scale)
      /\ HalfUp(b, Scale) <= HalfUp(a + b, Scale)
  <2>1. a <= a + b /\ b <= a + b /\ a + b \in Nat
    BY <1>2
  <2>2. QED
    BY <1>2, <2>1, HalfUpOfSum, HalfUpMonotone, ScaleAssumption
<1>5. QED
  BY <1>1, <1>3, <1>4 DEF QuoteOf, Rest
-----------------------------------------------------------------------------
(* What is listed. A page waits for nothing it has not read, and tells of   *)
(* each line which call it serves.                                          *)

\* The quotes the page may show: they add up.
Quotes ==
    {q \in [price : Nat, refund : Nat, rest : Nat, inPrice : Nat \cup {Null},
            inRefund : Nat \cup {Null}, inRest : Nat \cup {Null}] :
        /\ q.refund \in 0 .. q.price /\ q.refund + q.rest = q.price
        /\ q.inPrice # Null =>
              /\ q.inRefund + q.inRest - q.inPrice \in -1 .. 1
              /\ q.inRest <= q.inPrice /\ q.inRefund <= q.inPrice}

Listed == [line : Line, quote : Quotes \cup {None}]

\* A line without a product of the catalogue is from a receipt.
Quotable(l) == l.row = None => l.from \in Req /\ l.price \in Amount \cup {Null}

Serves(r) ==
    /\ pc[r] = "idle" <=> call[r] = NoCall
    /\ pc[r] \in {"receipts", "marks"} => call[r].op = "page"
    /\ call[r].op # "page" => waiting[r] = {} /\ listed[r] = {}
    /\ pc[r] = "done" => waiting[r] = {}

TypeInv ==
    /\ TypeOK
    /\ call \in [Req -> Call \cup {NoCall}]
    /\ listed \in [Req -> SUBSET Listed]
    /\ \A r \in Req : \A l \in waiting[r] : Quotable(l)
    /\ \A r \in Req : Serves(r)

\* The quote of a price with a refund not above it, at any cached rate or none.
LEMMA QuoteOfAddsUp ==
    ASSUME NEW price \in Nat, NEW refund \in 0 .. price, NEW at \in Nat \cup {Null}
    PROVE  QuoteOf(price, refund, at) \in Quotes
<1>1. Null \notin Nat
  BY MyPageAssumption
<1>2. refund \in Nat /\ price - refund \in Nat
  OBVIOUS
<1>3. CASE at = Null
  BY <1>2, <1>3 DEF QuoteOf, Converted, Rest, Quotes
<1>4. CASE at # Null
  <2>1. \A krw \in Nat : Converted(krw, at) \in Nat
    <3>1. SUFFICES ASSUME NEW krw \in Nat
                   PROVE  HalfUp(100 * krw * at, Scale) \in Nat
      BY <1>4 DEF Converted
    <3>2. 100 * krw * at \in Nat
      BY <1>4
    <3> QED
      BY <3>2, HalfUpBounds, ScaleAssumption
  <2>2. LET q == QuoteOf(price, refund, at)
        IN  /\ q.refund + q.rest = q.price
            /\ q.inRefund + q.inRest - q.inPrice \in -1 .. 1
            /\ q.inRefund <= q.inPrice /\ q.inRest <= q.inPrice
    BY <1>4, ConvertedPartsAddUp
  <2>3. /\ Converted(price, at) \in Nat /\ Converted(refund, at) \in Nat
        /\ Converted(price - refund, at) \in Nat
    BY <1>2, <2>1
  <2>4. QuoteOf(price, refund, at) =
          [price |-> price, refund |-> refund, rest |-> price - refund,
           inPrice |-> Converted(price, at), inRefund |-> Converted(refund, at),
           inRest |-> Converted(price - refund, at)]
    BY DEF QuoteOf, Rest
  <2>5. PICK a \in Nat, b \in Nat, c \in Nat :
          /\ a = Converted(price, at) /\ b = Converted(refund, at)
          /\ c = Converted(price - refund, at)
    BY <2>3
  <2>6. b + c - a \in -1 .. 1 /\ b <= a /\ c <= a
    BY <2>2, <2>4, <2>5
  <2>7. a # Null
    BY <1>1, <2>5
  <2>8. QuoteOf(price, refund, at) =
          [price |-> price, refund |-> refund, rest |-> price - refund,
           inPrice |-> a, inRefund |-> b, inRest |-> c]
    BY <2>4, <2>5
  <2> QED
    BY <1>2, <2>6, <2>7, <2>8 DEF Quotes
<1> QED
  BY <1>3, <1>4

\* The refund of a product is not above its price.
LEMMA RowFields ==
    ASSUME NEW row \in ProductRow
    PROVE  row.price \in Nat /\ row.refund \in 0 .. row.price
<1>1. row \in [price : Amount, refund : Amount] /\ row.refund <= row.price
  BY DEF ProductRow
<1>2. row.price \in Nat /\ row.refund \in Nat
  BY <1>1, MyPageAssumption
<1> QED
  BY <1>1, <1>2

\* A line has no quote or one that adds up.
LEMMA QuoteOfLineType ==
    ASSUME TypeInv, NEW l \in Line, Quotable(l)
    PROVE  QuoteOfLine(l) \in Quotes \cup {None}
<1>1. rate \in Nat \cup {Null}
  BY MyPageAssumption DEF TypeInv, TypeOK
<1>2. Amount \subseteq Nat /\ None \notin ProductRow
  BY MyPageAssumption
<1>3. \A price \in Nat : QuotePrice(price, rate) \in Quotes
  BY <1>1, HigherPriceStaysHigher, QuoteOfAddsUp DEF QuotePrice
<1>4. CASE l.from \in Req /\ l.price \in {Null, 0}
  BY <1>4 DEF QuoteOfLine
<1>5. CASE ~(l.from \in Req /\ l.price \in {Null, 0}) /\ l.row # None
  <2>1. l.row \in ProductRow
    BY <1>5 DEF Line
  <2>2. l.row.price \in Nat /\ l.row.refund \in 0 .. l.row.price
    BY <2>1, RowFields
  <2>3. PICK price \in Nat : price = l.row.price
    BY <2>2
  <2>4. PICK refund \in 0 .. price : refund = l.row.refund
    BY <2>2, <2>3
  <2>5. Quote(l.row, rate) \in Quotes
    BY <1>1, <1>3, <2>3, <2>4, QuoteOfAddsUp DEF Quote
  <2> QED
    BY <1>5, <2>5 DEF QuoteOfLine
<1>6. CASE ~(l.from \in Req /\ l.price \in {Null, 0}) /\ l.row = None
  <2>1. l.price \in Nat
    BY <1>2, <1>6 DEF Quotable
  <2> QED
    BY <1>3, <1>6, <2>1 DEF QuoteOfLine
<1> QED
  BY <1>4, <1>5, <1>6

-----------------------------------------------------------------------------
(* Type correctness.                                                       *)

Acts(r) ==
    \/ StoreReceipt(r) \/ Review(r) \/ SeedProduct(r) \/ PublishRate(r)
    \/ PageReceipts(r) \/ QuoteLine(r) \/ PageMarks(r) \/ PageDone(r)

\* The fields of a call, by its operation.
LEMMA CallFields ==
    ASSUME NEW c \in Call
    PROVE  /\ c.op = "receipt" => c.item \in Item
           /\ c.op = "review" => c.session \in Session /\ c.purchased \subseteq Product
           /\ c.op = "seed" => c.product \in Product /\ c.row \in ProductRow
           /\ c.op = "publish" => c.rate \in Rate
           /\ c # NoCall
  BY DEF Call, NoCall

\* What a request sends is one of its calls, after the ones it waits for.
LEMMA AskedType ==
    ASSUME TypeInv, NEW r \in Req, NEW op, Asked(r, op)
    PROVE  /\ call'[r] \in Call /\ call'[r].op = op
           /\ call' \in [Req -> Call \cup {NoCall}]
           /\ \A q \in Req \ {r} : call'[q] = call[q]
           /\ pc[r] = "idle" /\ call[r] = NoCall
           /\ waiting[r] = {} /\ listed[r] = {}
           /\ \A q \in Before[r] : pc[q] = "done"
<1>1. PICK c \in CallsOf[r] : c.op = op /\ Send(r, c)
  BY DEF Asked
<1>2. c \in Call
  BY MyPageAssumption
<1>3. /\ call' = [call EXCEPT ![r] = c] /\ pc[r] = "idle"
      /\ \A q \in Before[r] : pc[q] = "done"
  BY <1>1 DEF Send
<1>4. call[r] = NoCall /\ waiting[r] = {} /\ listed[r] = {}
  BY <1>3 DEF TypeInv, Serves, NoCall
<1> QED
  BY <1>1, <1>2, <1>3, <1>4 DEF TypeInv

\* The step of a handler: where it goes.
LEMMA StepPc ==
    ASSUME TypeInv, NEW r \in Req, NEW step \in {"receipts", "marks", "done"},
           pc' = [pc EXCEPT ![r] = step]
    PROVE  /\ pc' \in [Req -> {"idle", "receipts", "marks", "done"}]
           /\ pc'[r] = step
           /\ \A q \in Req \ {r} : pc'[q] = pc[q]
  BY DEF TypeInv, TypeOK

Lines(r) == waiting[r] \cup {l.line : l \in listed[r]}

Moves(r) ==
    /\ pc' \in [Req -> {"idle", "receipts", "marks", "done"}] /\ pc'[r] # "idle"
    /\ call' \in [Req -> Call \cup {NoCall}] /\ call'[r] \in Call
    /\ pc[r] # "done" /\ (pc[r] # "idle" => call'[r] = call[r])
    /\ pc[r] = "idle" => /\ call[r] = NoCall /\ Lines(r) = {}
                         /\ \A q \in Before[r] : pc[q] = "done"
    /\ \A q \in Req \ {r} : /\ pc'[q] = pc[q] /\ call'[q] = call[q]
                            /\ waiting'[q] = waiting[q] /\ listed'[q] = listed[q]

\* A step is one of a request under way, and moves no other.
LEMMA OneMoves ==
    ASSUME TypeInv, NEW r \in Req, Acts(r)
    PROVE  Moves(r)
<1> USE DEF Moves
<1>1. ASSUME NEW op, Asked(r, op), NEW step \in {"receipts", "marks", "done"},
             pc' = [pc EXCEPT ![r] = step], UNCHANGED listed,
             UNCHANGED waiting \/ \E W : waiting' = [waiting EXCEPT ![r] = W]
      PROVE  Moves(r)
  <2>1. \A q \in Req \ {r} : waiting'[q] = waiting[q] /\ listed'[q] = listed[q]
    BY <1>1 DEF TypeInv, TypeOK
  <2>2. Lines(r) = {}
    BY <1>1, AskedType DEF Lines
  <2>3. /\ pc' \in [Req -> {"idle", "receipts", "marks", "done"}]
        /\ pc'[r] = step
        /\ \A q \in Req \ {r} : pc'[q] = pc[q]
    BY <1>1, StepPc
  <2>4. /\ call'[r] \in Call
        /\ call' \in [Req -> Call \cup {NoCall}]
        /\ \A q \in Req \ {r} : call'[q] = call[q]
        /\ pc[r] = "idle" /\ call[r] = NoCall
        /\ \A q \in Before[r] : pc[q] = "done"
    BY <1>1, AskedType
  <2> QED
    BY <2>1, <2>2, <2>3, <2>4
<1>2. CASE StoreReceipt(r) \/ Review(r) \/ SeedProduct(r) \/ PublishRate(r)
  BY <1>1, <1>2 DEF StoreReceipt, Review, SeedProduct, PublishRate, Reply
<1>3. CASE PageReceipts(r)
  BY <1>1, <1>3 DEF PageReceipts, Goto
<1>4. CASE QuoteLine(r)
  <2>1. /\ waiting[r] # {} /\ UNCHANGED <<pc, call>>
        /\ \E W : waiting' = [waiting EXCEPT ![r] = W]
        /\ \E L : listed' = [listed EXCEPT ![r] = L]
    BY <1>4 DEF QuoteLine
  <2>2. \A q \in Req \ {r} : waiting'[q] = waiting[q] /\ listed'[q] = listed[q]
    BY <2>1 DEF TypeInv, TypeOK
  <2>3. pc[r] \notin {"idle", "done"} /\ call[r] # NoCall /\ call[r] \in Call
    BY <2>1 DEF TypeInv, Serves, NoCall
  <2> QED
    BY <2>1, <2>2, <2>3 DEF TypeInv, TypeOK
<1>5. CASE PageMarks(r) \/ PageDone(r)
  <2>1. /\ pc[r] \in {"receipts", "marks"} /\ UNCHANGED <<call, listed>>
        /\ UNCHANGED waiting \/ \E W : waiting' = [waiting EXCEPT ![r] = W]
        /\ \E step \in {"marks", "done"} : pc' = [pc EXCEPT ![r] = step]
    BY <1>5 DEF PageMarks, PageDone, Goto, Reply
  <2>2. \A q \in Req \ {r} : waiting'[q] = waiting[q] /\ listed'[q] = listed[q]
    BY <2>1 DEF TypeInv, TypeOK
  <2>3. call[r] # NoCall /\ call[r] \in Call
    BY <2>1 DEF TypeInv, Serves
  <2>4. /\ pc' \in [Req -> {"idle", "receipts", "marks", "done"}]
        /\ pc'[r] # "idle"
        /\ \A q \in Req \ {r} : pc'[q] = pc[q]
    BY <2>1, StepPc
  <2> QED
    BY <2>1, <2>2, <2>3, <2>4 DEF TypeInv
<1> QED
  BY <1>2, <1>3, <1>4, <1>5 DEF Acts

\* The catalogue and what is waiting for a quote stay of their types.
LEMMA RowsKeepType ==
    ASSUME TypeInv, NEW r \in Req, Acts(r)
    PROVE  /\ catalogue' \in [Product -> ProductRow]
           /\ items' \in [Req -> Item \cup {None}]
           /\ marks' \subseteq Session \X Product
           /\ rate' \in Rate \cup {Null}
<1> USE DEF TypeInv, TypeOK
<1>1. CASE StoreReceipt(r)
  <2>1. call'[r].item \in Item
    BY <1>1, AskedType, CallFields DEF StoreReceipt
  <2> QED
    BY <1>1, <2>1 DEF StoreReceipt
<1>2. CASE Review(r)
  <2>1. call'[r].session \in Session /\ call'[r].purchased \subseteq Product
    BY <1>2, AskedType, CallFields DEF Review
  <2> QED
    BY <1>2, <2>1 DEF Review
<1>3. CASE SeedProduct(r)
  <2>1. call'[r].row \in ProductRow
    BY <1>3, AskedType, CallFields DEF SeedProduct
  <2> QED
    BY <1>3, <2>1 DEF SeedProduct
<1>4. CASE PublishRate(r)
  <2>1. call'[r].rate \in Rate
    BY <1>4, AskedType, CallFields DEF PublishRate
  <2> QED
    BY <1>4, <2>1, MyPageAssumption DEF PublishRate
<1>5. CASE PageReceipts(r) \/ QuoteLine(r) \/ PageMarks(r) \/ PageDone(r)
  BY <1>5 DEF PageReceipts, QuoteLine, PageMarks, PageDone, database
<1> QED
  BY <1>1, <1>2, <1>3, <1>4, <1>5 DEF Acts

\* What the page reads of the receipts is lines it can quote.
LEMMA ReceiptLines ==
    ASSUME TypeInv, NEW q \in Req, items[q] # None,
           NEW l, l = [from |-> q, product |-> items[q].product,
                       price |-> items[q].price, row |-> RowOf(items[q].product)]
    PROVE  l \in Line /\ Quotable(l)
<1>1. items[q] \in Item
  BY DEF TypeInv, TypeOK
<1>2. items[q].product \in Product \cup {Null} /\ items[q].price \in Amount \cup {Null}
  BY <1>1 DEF Item
<1>3. RowOf(items[q].product) \in ProductRow \cup {None}
  BY <1>2 DEF RowOf, TypeInv, TypeOK
<1>4. l \in Line
  BY <1>2, <1>3 DEF Line
<1> QED
  BY <1>2, <1>4 DEF Quotable

\* What it reads of the marks too.
LEMMA MarkLines ==
    ASSUME TypeInv, NEW m \in marks,
           NEW l, l = [from |-> m[1], product |-> m[2],
                       price |-> catalogue[m[2]].price, row |-> catalogue[m[2]]]
    PROVE  l \in Line /\ Quotable(l)
<1>1. m[1] \in Session /\ m[2] \in Product
  BY DEF TypeInv, TypeOK
<1>2. catalogue[m[2]] \in ProductRow
  BY <1>1 DEF TypeInv, TypeOK
<1>3. catalogue[m[2]].price \in Amount
  BY <1>2 DEF ProductRow
<1>4. l \in Line
  BY <1>1, <1>2, <1>3 DEF Line
<1>5. l.row # None
  BY <1>2, MyPageAssumption
<1> QED
  BY <1>4, <1>5 DEF Quotable

\* The lines of a page stay of their types.
LEMMA LinesKeepType ==
    ASSUME TypeInv, NEW r \in Req, Acts(r)
    PROVE  /\ waiting' \in [Req -> SUBSET Line]
           /\ listed' \in [Req -> SUBSET Listed]
           /\ \A q \in Req : \A l \in waiting'[q] : Quotable(l)
<1> USE DEF TypeInv, TypeOK
<1>1. ASSUME NEW W \in SUBSET Line, \A l \in W : Quotable(l),
             waiting' = [waiting EXCEPT ![r] = W]
      PROVE  /\ waiting' \in [Req -> SUBSET Line]
             /\ \A q \in Req : \A l \in waiting'[q] : Quotable(l)
  BY <1>1
<1>2. CASE StoreReceipt(r) \/ Review(r) \/ SeedProduct(r) \/ PublishRate(r)
           \/ PageDone(r)
  BY <1>2 DEF StoreReceipt, Review, SeedProduct, PublishRate, PageDone
<1>3. CASE PageReceipts(r)
  <2> DEFINE LineOf(q) ==
               [from |-> q, product |-> items[q].product, price |-> items[q].price,
                row |-> RowOf(items[q].product)]
             W == {LineOf(q) : q \in {q \in Req : items[q] # None}}
  <2>1. \A l \in W : l \in Line /\ Quotable(l)
    BY ReceiptLines
  <2>2. waiting' = [waiting EXCEPT ![r] = W] /\ UNCHANGED listed
    BY <1>3 DEF PageReceipts
  <2> HIDE DEF W
  <2> QED
    BY <1>1, <2>1, <2>2
<1>4. CASE QuoteLine(r)
  <2>1. PICK l \in waiting[r] :
           /\ waiting' = [waiting EXCEPT ![r] = @ \ {l}]
           /\ listed' = [listed EXCEPT
                           ![r] = @ \cup {[line |-> l, quote |-> QuoteOfLine(l)]}]
    BY <1>4 DEF QuoteLine
  <2>2. l \in Line /\ Quotable(l)
    OBVIOUS
  <2>3. PICK e : e = [line |-> l, quote |-> QuoteOfLine(l)]
    OBVIOUS
  <2>4. e \in Listed
    BY <2>2, <2>3, QuoteOfLineType DEF Listed
  <2>5. listed' = [listed EXCEPT ![r] = @ \cup {e}]
    BY <2>1, <2>3
  <2>6. PICK W : W = waiting[r] \ {l}
    OBVIOUS
  <2>7. waiting' = [waiting EXCEPT ![r] = W] /\ W \subseteq waiting[r]
    BY <2>1, <2>6
  <2> QED
    BY <1>1, <2>4, <2>5, <2>7
<1>5. CASE PageMarks(r)
  <2> DEFINE LineOf(m) == [from |-> m[1], product |-> m[2],
                           price |-> catalogue[m[2]].price, row |-> catalogue[m[2]]]
  <2>1. PICK M \in SUBSET marks :
           waiting' = [waiting EXCEPT ![r] = {LineOf(m) : m \in M}]
    BY <1>5 DEF PageMarks, NewlyMarked
  <2>2. PICK W : W = {LineOf(m) : m \in M}
    OBVIOUS
  <2>3. \A l \in W : l \in Line /\ Quotable(l)
    BY <2>2, MarkLines
  <2>4. waiting' = [waiting EXCEPT ![r] = W] /\ UNCHANGED listed
    BY <1>5, <2>1, <2>2 DEF PageMarks
  <2> QED
    BY <1>1, <2>3, <2>4
<1> QED
  BY <1>2, <1>3, <1>4, <1>5 DEF Acts

\* A handler's step leaves it serving its call.
LEMMA StepServes ==
    ASSUME TypeInv, NEW r \in Req, Acts(r)
    PROVE  Serves(r)'
<1>1. Moves(r)
  BY OneMoves
<1>2. call'[r] # NoCall
  BY <1>1, CallFields DEF Moves
<1>3. CASE StoreReceipt(r) \/ Review(r) \/ SeedProduct(r) \/ PublishRate(r)
  <2>1. pc'[r] = "done" /\ waiting'[r] = {} /\ listed'[r] = {}
    BY <1>3, AskedType, StepPc
    DEF StoreReceipt, Review, SeedProduct, PublishRate, Reply
  <2> QED
    BY <1>2, <2>1 DEF Serves
<1>4. CASE PageReceipts(r)
  <2>1. pc'[r] = "receipts" /\ call'[r].op = "page"
    BY <1>4, AskedType, StepPc DEF PageReceipts, Goto
  <2> QED
    BY <1>2, <2>1 DEF Serves
<1>5. CASE QuoteLine(r)
  <2>1. UNCHANGED <<pc, call>> /\ waiting[r] # {}
    BY <1>5 DEF QuoteLine
  <2>2. pc[r] \in {"receipts", "marks"} /\ call[r].op = "page"
    BY <2>1 DEF TypeInv, TypeOK, Serves, NoCall
  <2> QED
    BY <1>2, <2>1, <2>2 DEF Serves
<1>6. CASE PageMarks(r) \/ PageDone(r)
  <2>1. UNCHANGED call /\ pc[r] \in {"receipts", "marks"}
    BY <1>6 DEF PageMarks, PageDone
  <2>2. call'[r].op = "page" /\ pc'[r] \in {"marks", "done"}
    BY <1>6, <2>1, StepPc DEF PageMarks, PageDone, Goto, Reply, TypeInv, Serves
  <2>3. pc'[r] = "done" => waiting'[r] = {}
    BY <1>6, StepPc DEF PageMarks, PageDone, Goto, Reply
  <2> QED
    BY <1>2, <2>2, <2>3 DEF Serves
<1> QED
  BY <1>3, <1>4, <1>5, <1>6 DEF Acts

\* The type invariant is inductive.
LEMMA StepKeepsType == TypeInv /\ [Next]_vars => TypeInv'
<1>1. ASSUME TypeInv, NEW r \in Req, Acts(r) PROVE TypeInv'
  <2>1. Moves(r)
    BY <1>1, OneMoves
  <2>2. \A q \in Req \ {r} : Serves(q)'
    BY <1>1, <2>1 DEF Moves, TypeInv, Serves
  <2>3. \A q \in Req : Serves(q)'
    BY <1>1, <2>2, StepServes
  <2>4. \A q \in Req : \A l \in listed'[q] :
           l.line \in Line /\ (l.quote = None \/ l.quote.rest \in Nat)
    <3>1. listed' \in [Req -> SUBSET Listed]
      BY <1>1, LinesKeepType
    <3> QED
      BY <3>1 DEF Listed, Quotes
  <2> QED
    BY <1>1, <2>1, <2>3, <2>4, LinesKeepType, RowsKeepType
    DEF TypeInv, TypeOK, Moves
<1>2. ASSUME TypeInv, UNCHANGED vars PROVE TypeInv'
  BY <1>2 DEF vars, database, TypeInv, TypeOK, Serves
<1> QED
  BY <1>1, <1>2 DEF Next, Acts

\* It holds at the start.
LEMMA InitType == Init => TypeInv
<1> SUFFICES ASSUME Init PROVE TypeInv
  OBVIOUS
<1>1. InitRate \in Rate \cup {Null} /\ InitCatalogue \in [Product -> ProductRow]
  BY MyPageAssumption
<1>2. TypeOK
  BY <1>1 DEF Init, RequestInit, TypeOK
<1>3. \A r \in Req : Serves(r)
  BY DEF Init, RequestInit, Serves, NoCall
<1> QED
  BY <1>2, <1>3 DEF Init, RequestInit, TypeInv

-----------------------------------------------------------------------------
(* What a page lists, and how often.                                       *)

SentInTurn == \A r \in Req : pc[r] # "idle" => \A q \in Before[r] : pc[q] = "done"

\* A line is listed once; two of the same product are from receipts.
Once(r) ==
    /\ \A k, l \in listed[r] : k.line = l.line => k = l
    /\ \A l \in listed[r] : l.line \notin waiting[r]
    /\ \A k, l \in Lines(r) : k # l /\ k.product = l.product => {k.from, l.from} \subseteq Req
    /\ pc[r] = "receipts" => \A l \in Lines(r) : l.from \in Req

\* A later review, or one with nothing between, without the product.
Unmarked(q, p) ==
    \E u \in Req \ {q} : /\ call[u].op = "review"
                         /\ call[u].session = call[q].session
                         /\ p \notin call[u].purchased

\* What has been stored is there to be read.
Stored(q) ==
    /\ call[q].op \in {"receipt", "review"} => pc[q] = "done"
    /\ call[q].op = "receipt" => items[q] # None
    /\ call[q].op = "review" =>
          \A p \in call[q].purchased :
             <<call[q].session, p>> \in marks \/ Unmarked(q, p)

\* What was stored before the page was asked for has a line on it.
Shown(r, q) ==
    /\ call[q].op = "receipt" => \E l \in Lines(r) : l.from = q
    /\ call[q].op = "review" /\ pc[r] \in {"marks", "done"} =>
          \A p \in call[q].purchased :
             (\E l \in Lines(r) : l.product = p) \/ Unmarked(q, p)

PageInv ==
    /\ TypeInv /\ SentInTurn
    /\ \A r \in Req : Once(r) /\ Stored(r)
    /\ \A r \in Req : call[r].op = "page" => \A q \in Before[r] : Shown(r, q)

\* Calls that were sent stay.
LEMMA CallsStay ==
    ASSUME TypeInv, NEW r \in Req, Acts(r), NEW q \in Req, call[q] # NoCall
    PROVE  call'[q] = call[q]
<1>1. Moves(r)
  BY OneMoves
<1> QED
  BY <1>1 DEF Moves

\* And so does what they have taken back.
LEMMA UnmarkedStays ==
    ASSUME TypeInv, NEW r \in Req, Acts(r), NEW q \in Req, call[q] # NoCall,
           NEW p, Unmarked(q, p)
    PROVE  Unmarked(q, p)'
<1>1. PICK u \in Req \ {q} : /\ call[u].op = "review"
                             /\ call[u].session = call[q].session
                             /\ p \notin call[u].purchased
  BY DEF Unmarked
<1>2. call'[u] = call[u] /\ call'[q] = call[q]
  BY <1>1, CallsStay DEF NoCall
<1> QED
  BY <1>1, <1>2 DEF Unmarked

\* Requests stay in turn.
LEMMA TurnsKept ==
    ASSUME PageInv, NEW r \in Req, Acts(r)
    PROVE  SentInTurn'
<1>1. Moves(r)
  BY OneMoves DEF PageInv
<1> SUFFICES ASSUME NEW x \in Req, pc'[x] # "idle", NEW q \in Before[x]
             PROVE  pc'[q] = "done"
  BY DEF SentInTurn
<1>2. q \in Req
  BY MyPageAssumption
<1>3. pc[q] = "done"
  BY <1>1 DEF Moves, PageInv, SentInTurn
<1> QED
  BY <1>1, <1>2, <1>3 DEF Moves

\* A quote moves a line from the waiting to the listed ones.
LEMMA QuotingKeepsLines ==
    ASSUME TypeInv, NEW r \in Req, QuoteLine(r)
    PROVE  Lines(r)' = Lines(r)
<1>1. PICK l \in waiting[r] :
         /\ waiting'[r] = waiting[r] \ {l}
         /\ listed'[r] = listed[r] \cup {[line |-> l, quote |-> QuoteOfLine(l)]}
  BY DEF QuoteLine, TypeInv, TypeOK
<1>2. PICK e : e = [line |-> l, quote |-> QuoteOfLine(l)]
  OBVIOUS
<1>3. e.line = l /\ listed'[r] = listed[r] \cup {e}
  BY <1>1, <1>2
<1> QED
  BY <1>1, <1>3 DEF Lines

\* Lines are only added.
LEMMA LinesGrow ==
    ASSUME TypeInv, NEW r \in Req, Acts(r), NEW x \in Req
    PROVE  Lines(x) \subseteq Lines(x)'
<1>1. Moves(r)
  BY OneMoves
<1>2. CASE x # r
  BY <1>1, <1>2 DEF Moves, Lines
<1>3. CASE x = r /\ pc[r] = "idle"
  BY <1>1, <1>3 DEF Moves
<1>4. CASE x = r /\ QuoteLine(r)
  BY <1>4, QuotingKeepsLines
<1>5. CASE x = r /\ (PageMarks(r) \/ PageDone(r))
  BY <1>5 DEF PageMarks, PageDone, Lines
<1> QED
  BY <1>2, <1>3, <1>4, <1>5, AskedType
  DEF Acts, StoreReceipt, Review, SeedProduct, PublishRate, PageReceipts

\* The page reads each receipt once, before anything else.
LEMMA ReceiptsOnce ==
    ASSUME PageInv, NEW r \in Req, PageReceipts(r)
    PROVE  /\ Once(r)'
           /\ \A q \in Req : items[q] # None => \E l \in Lines(r)' : l.from = q
<1> DEFINE LineOf(q) ==
             [from |-> q, product |-> items[q].product, price |-> items[q].price,
              row |-> RowOf(items[q].product)]
           W == {LineOf(q) : q \in {q \in Req : items[q] # None}}
<1>1. waiting'[r] = W /\ listed'[r] = {}
  BY AskedType DEF PageReceipts, PageInv, TypeInv, TypeOK
<1>2. \A l \in W : l.from \in Req
  OBVIOUS
<1>3. ASSUME NEW q \in Req, items[q] # None PROVE \E l \in W : l.from = q
  <2>1. LineOf(q) \in W
    BY <1>3
  <2>2. LineOf(q).from = q
    OBVIOUS
  <2> HIDE DEF W, LineOf
  <2> QED
    BY <2>1, <2>2
<1> HIDE DEF W
<1>4. Lines(r)' = W
  BY <1>1 DEF Lines
<1> QED
  BY <1>1, <1>2, <1>3, <1>4 DEF Once

\* A mark is listed if its product is not.
LEMMA MarksOnce ==
    ASSUME PageInv, NEW r \in Req, PageMarks(r)
    PROVE  /\ Once(r)'
           /\ \A m \in marks : \E l \in Lines(r)' : l.product = m[2]
<1> DEFINE LineOf(m) == [from |-> m[1], product |-> m[2],
                         price |-> catalogue[m[2]].price, row |-> catalogue[m[2]]]
<1>1. PICK M \in NewlyMarked({l.line.product : l \in listed[r]}) :
         waiting' = [waiting EXCEPT ![r] = {LineOf(m) : m \in M}]
  BY DEF PageMarks
<1>2. PICK W : W = {LineOf(m) : m \in M}
  OBVIOUS
<1>3. waiting'[r] = W /\ listed'[r] = listed[r] /\ pc'[r] = "marks" /\ waiting[r] = {}
  BY <1>1, <1>2, StepPc DEF PageMarks, Goto, PageInv, TypeInv, TypeOK
<1>4. /\ {m[2] : m \in M} = {m[2] : m \in marks} \ {l.line.product : l \in listed[r]}
      /\ \A m, n \in M : m[2] = n[2] => m = n
  BY DEF NewlyMarked
<1>5. \A k \in W, l \in listed[r] : k.product # l.line.product
  BY <1>2, <1>4
<1>6. \A k, l \in W : k.product = l.product => k = l
  BY <1>2, <1>4
<1>7. ASSUME NEW m \in M PROVE \E l \in W : l.product = m[2]
  <2>1. LineOf(m) \in W /\ LineOf(m).product = m[2]
    BY <1>2
  <2> HIDE DEF LineOf
  <2> QED
    BY <2>1
<1>8. /\ Lines(r) = {l.line : l \in listed[r]}
      /\ Lines(r)' = W \cup {l.line : l \in listed[r]}
  BY <1>3 DEF Lines
<1>9. Once(r)
  BY DEF PageInv
<1>10. Once(r)'
  <2>1. \A k, l \in Lines(r)' :
           k # l /\ k.product = l.product => {k.from, l.from} \subseteq Req
    BY <1>5, <1>6, <1>8, <1>9 DEF Once
  <2>2. \A l \in listed'[r] : l.line \notin waiting'[r]
    BY <1>3, <1>5
  <2> QED
    BY <1>3, <1>9, <2>1, <2>2 DEF Once
<1>11. ASSUME NEW m \in marks PROVE \E l \in Lines(r)' : l.product = m[2]
  <2>1. CASE m[2] \in {l.line.product : l \in listed[r]}
    BY <1>8, <2>1
  <2>2. CASE m[2] \notin {l.line.product : l \in listed[r]}
    <3>1. PICK n \in M : n[2] = m[2]
      BY <1>4, <2>2
    <3> QED
      BY <1>7, <1>8, <3>1
  <2> QED
    BY <2>1, <2>2
<1> QED
  BY <1>10, <1>11

\* A quote is given to a line once.
LEMMA QuotesOnce ==
    ASSUME PageInv, NEW r \in Req, QuoteLine(r)
    PROVE  Once(r)'
<1>1. PICK l \in waiting[r] :
         /\ waiting'[r] = waiting[r] \ {l}
         /\ listed'[r] = listed[r] \cup {[line |-> l, quote |-> QuoteOfLine(l)]}
  BY DEF QuoteLine, PageInv, TypeInv, TypeOK
<1>2. PICK e : e = [line |-> l, quote |-> QuoteOfLine(l)]
  OBVIOUS
<1>3. e.line = l /\ listed'[r] = listed[r] \cup {e}
  BY <1>1, <1>2
<1>4. Lines(r)' = Lines(r) /\ UNCHANGED pc
  BY QuotingKeepsLines DEF PageInv, QuoteLine
<1>5. Once(r)
  BY DEF PageInv
<1> QED
  BY <1>1, <1>3, <1>4, <1>5 DEF Once

\* No step of a page lists anything twice.
LEMMA StepOnce ==
    ASSUME PageInv, NEW r \in Req, Acts(r), NEW x \in Req
    PROVE  Once(x)'
<1>1. Moves(r)
  BY OneMoves DEF PageInv
<1>2. CASE x # r
  BY <1>1, <1>2 DEF Moves, PageInv, Once, Lines
<1>3. CASE StoreReceipt(r) \/ Review(r) \/ SeedProduct(r) \/ PublishRate(r)
  <2>1. listed'[r] = {} /\ waiting'[r] = {}
    BY <1>3, AskedType DEF PageInv, StoreReceipt, Review, SeedProduct, PublishRate
  <2> QED
    BY <1>2, <2>1 DEF Once, Lines
<1>4. CASE x = r /\ PageDone(r)
  <2>1. UNCHANGED <<waiting, listed>> /\ pc'[r] # "receipts"
    BY <1>4, StepPc DEF PageDone, Reply, PageInv
  <2> QED
    BY <1>4, <2>1 DEF PageInv, Once, Lines
<1> QED
  BY <1>2, <1>3, <1>4, ReceiptsOnce, MarksOnce, QuotesOnce DEF Acts

\* What is stored stays, or is taken back by a review.
LEMMA StepStored ==
    ASSUME PageInv, NEW r \in Req, Acts(r), NEW q \in Req
    PROVE  Stored(q)'
<1> USE DEF PageInv
<1>1. Moves(r)
  BY OneMoves
<1>2. CASE q # r /\ call[q] = NoCall
  BY <1>1, <1>2 DEF Moves, Stored, NoCall
<1>3. CASE q # r /\ call[q] # NoCall
  <2>1. call'[q] = call[q] /\ pc'[q] = pc[q]
    BY <1>1, <1>3 DEF Moves
  <2>2. items'[q] = items[q]
    BY <1>3 DEF Acts, StoreReceipt, Review, SeedProduct, PublishRate, PageReceipts,
       QuoteLine, PageMarks, PageDone, database, TypeInv, TypeOK
  <2>3. ASSUME call[q].op = "review", NEW p \in call[q].purchased
        PROVE  <<call[q].session, p>> \in marks' \/ Unmarked(q, p)'
    <3>1. CASE Unmarked(q, p)
      BY <1>3, <3>1, UnmarkedStays
    <3>2. CASE <<call[q].session, p>> \in marks /\ Review(r)
      <4>1. /\ marks' = {m \in marks : m[1] # call'[r].session}
                          \cup ({call'[r].session} \X call'[r].purchased)
            /\ call'[r].op = "review"
        BY <3>2, AskedType DEF Review
      <4>2. CASE call'[r].session = call[q].session /\ p \notin call'[r].purchased
        BY <1>3, <2>1, <4>1, <4>2 DEF Unmarked
      <4>3. CASE call'[r].session = call[q].session /\ p \in call'[r].purchased
        BY <4>1, <4>3
      <4>4. CASE call'[r].session # call[q].session
        BY <3>2, <4>1, <4>4
      <4> QED
        BY <4>2, <4>3, <4>4
    <3>3. CASE <<call[q].session, p>> \in marks /\ ~Review(r)
      BY <3>3 DEF Acts, StoreReceipt, SeedProduct, PublishRate, PageReceipts,
         QuoteLine, PageMarks, PageDone, database
    <3> QED
      BY <2>3, <3>1, <3>2, <3>3 DEF Stored
  <2> QED
    BY <2>1, <2>2, <2>3 DEF Stored
<1>4. CASE q = r /\ StoreReceipt(r)
  <2>1. /\ call'[r].op = "receipt" /\ call'[r].item \in Item /\ pc'[r] = "done"
        /\ items'[r] = call'[r].item
    BY <1>4, AskedType, CallFields, StepPc DEF StoreReceipt, Reply, TypeInv, TypeOK
  <2> QED
    BY <1>4, <2>1, MyPageAssumption DEF Stored
<1>5. CASE q = r /\ Review(r)
  <2>1. /\ call'[r].op = "review" /\ pc'[r] = "done"
        /\ ({call'[r].session} \X call'[r].purchased) \subseteq marks'
    BY <1>5, AskedType, StepPc DEF Review, Reply
  <2> QED
    BY <1>5, <2>1 DEF Stored
<1>6. CASE q = r /\ (SeedProduct(r) \/ PublishRate(r) \/ PageReceipts(r))
  <2>1. call'[r].op \notin {"receipt", "review"}
    BY <1>6, AskedType DEF SeedProduct, PublishRate, PageReceipts
  <2> QED
    BY <1>6, <2>1 DEF Stored
<1>7. CASE q = r /\ (QuoteLine(r) \/ PageMarks(r) \/ PageDone(r))
  <2>1. UNCHANGED call /\ call[r].op = "page"
    BY <1>1, <1>7 DEF QuoteLine, PageMarks, PageDone, Moves, TypeInv, Serves
  <2> QED
    BY <1>7, <2>1 DEF Stored
<1> QED
  BY <1>2, <1>3, <1>4, <1>5, <1>6, <1>7 DEF Acts

\* A page shows what was stored before it: receipts from its first step on,
\* marks from its second.
LEMMA StepShown ==
    ASSUME PageInv, NEW r \in Req, Acts(r),
           NEW x \in Req, call'[x].op = "page", NEW q \in Before[x]
    PROVE  Shown(x, q)'
<1> USE DEF PageInv
<1>1. Moves(r) /\ q \in Req
  BY OneMoves, MyPageAssumption
<1>2. CASE x # r \/ pc[x] # "idle"
  <2>1. call[x].op = "page" /\ Shown(x, q) /\ pc[q] = "done"
    BY <1>1, <1>2 DEF Moves, SentInTurn, TypeInv, Serves, NoCall
  <2>2. call'[q] = call[q]
    BY <1>1, <2>1 DEF Moves
  <2>3. call[q] # NoCall
    BY <1>1, <2>1 DEF TypeInv, Serves
  <2>4. \A l \in Lines(x) : l \in Lines(x)'
    BY LinesGrow
  <2>5. call[q].op = "receipt" => \E l \in Lines(x)' : l.from = q
    BY <2>1, <2>4 DEF Shown
  <2>6. ASSUME call[q].op = "review", pc'[x] \in {"marks", "done"},
               NEW p \in call[q].purchased
        PROVE  (\E l \in Lines(x)' : l.product = p) \/ Unmarked(q, p)'
    <3>1. CASE pc[x] \in {"marks", "done"}
      BY <1>1, <2>1, <2>3, <2>4, <2>6, <3>1, UnmarkedStays DEF Shown
    <3>2. CASE pc[x] \notin {"marks", "done"}
      <4>1. x = r /\ PageMarks(r)
        <5>1. x = r /\ pc[r] # "idle"
          BY <1>1, <1>2, <2>6, <3>2 DEF Moves
        <5>2. pc[r] = "receipts"
          BY <3>2, <5>1 DEF TypeInv, TypeOK
        <5> QED
          BY <2>6, <3>2, <5>1, <5>2, AskedType
          DEF Acts, StoreReceipt, Review, SeedProduct, PublishRate, PageReceipts,
              QuoteLine, PageDone
      <4>2. <<call[q].session, p>> \in marks \/ Unmarked(q, p)
        BY <1>1, <2>6 DEF Stored
      <4>3. CASE Unmarked(q, p)
        BY <1>1, <2>3, <4>3, UnmarkedStays
      <4>4. CASE <<call[q].session, p>> \in marks
        <5>1. PICK m \in marks : m = <<call[q].session, p>>
          BY <4>4
        <5>2. PICK l \in Lines(r)' : l.product = m[2]
          BY <4>1, MarksOnce
        <5> QED
          BY <4>1, <5>1, <5>2
      <4> QED
        BY <4>2, <4>3, <4>4
    <3> QED
      BY <3>1, <3>2
  <2> QED
    BY <2>2, <2>5, <2>6 DEF Shown
<1>3. CASE x = r /\ pc[r] = "idle"
  <2>1. PageReceipts(r)
    <3>1. call'[r].op = "page" /\ waiting[r] = {} /\ pc[r] \notin {"receipts", "marks"}
      BY <1>3 DEF TypeInv, Serves, NoCall
    <3> QED
      BY <3>1, AskedType DEF Acts, StoreReceipt, Review, SeedProduct, PublishRate,
         QuoteLine, PageMarks, PageDone
  <2>2. pc[q] = "done" /\ q # r /\ pc'[r] = "receipts"
    BY <1>1, <1>3, <2>1, StepPc DEF Moves, PageReceipts, Goto
  <2>3. call'[q] = call[q] /\ (call[q].op = "receipt" => items[q] # None)
    BY <1>1, <2>2 DEF Moves, Stored
  <2> QED
    BY <1>1, <1>3, <2>1, <2>2, <2>3, ReceiptsOnce DEF Shown
<1> QED
  BY <1>2, <1>3

\* The invariant of the page is inductive.
LEMMA StepKeepsPage == PageInv /\ [Next]_vars => PageInv'
<1>1. ASSUME PageInv, NEW r \in Req, Acts(r) PROVE PageInv'
  <2>1. TypeInv'
    BY <1>1, StepKeepsType DEF PageInv, Next, Acts
  <2> QED
    BY <1>1, <2>1, TurnsKept, StepOnce, StepStored, StepShown DEF PageInv
<1>2. ASSUME PageInv, UNCHANGED vars PROVE PageInv'
  <2>1. TypeInv'
    BY <1>2, StepKeepsType DEF PageInv
  <2> QED
    BY <1>2, <2>1 DEF vars, database, PageInv, SentInTurn, Once, Lines, Stored,
       Unmarked, Shown
<1> QED
  BY <1>1, <1>2 DEF Next, Acts

\* It holds at the start.
LEMMA InitPage == Init => PageInv
<1> SUFFICES ASSUME Init PROVE PageInv
  OBVIOUS
<1>1. \A r \in Req : /\ pc[r] = "idle" /\ call[r].op = "none"
                     /\ waiting[r] = {} /\ listed[r] = {}
  BY DEF Init, RequestInit, NoCall
<1>2. \A r \in Req : Once(r)
  BY <1>1 DEF Once, Lines
<1>3. \A r \in Req : Stored(r)
  BY <1>1 DEF Stored
<1> QED
  BY <1>1, <1>2, <1>3, InitType DEF PageInv, SentInTurn

\* A finished page shows every receipt and every mark that was there before it
\* was asked for, and lists no product of a session twice or beside a receipt
\* of it (MyPageService.get_my_page).
THEOREM AllListedOnce == Spec => []PurchasesListedOnce
<1>1. PageInv => PurchasesListedOnce
  <2> SUFFICES ASSUME PageInv, NEW r \in Req, call[r].op = "page", pc[r] = "done"
               PROVE  /\ \A k, l \in listed[r] :
                            k # l /\ k.line.product = l.line.product =>
                                {k.line.from, l.line.from} \subseteq Req
                      /\ \A q \in Before[r] :
                            /\ call[q].op = "receipt" =>
                                  \E l \in listed[r] : l.line.from = q
                            /\ call[q].op = "review" =>
                                  \A p \in call[q].purchased :
                                     \/ \E l \in listed[r] : l.line.product = p
                                     \/ Unmarked(q, p)
    BY DEF PurchasesListedOnce, Unmarked
  <2>1. Once(r) /\ \A q \in Before[r] : Shown(r, q)
    BY DEF PageInv
  <2>2. Lines(r) = {l.line : l \in listed[r]}
    BY DEF PageInv, TypeInv, Serves, Lines
  <2>3. \A k, l \in listed[r] :
           k # l /\ k.line.product = l.line.product =>
               {k.line.from, l.line.from} \subseteq Req
    BY <2>1, <2>2 DEF Once
  <2> QED
    BY <2>1, <2>2, <2>3 DEF Shown
<1>2. Spec => []PageInv
  BY InitPage, StepKeepsPage, PTL DEF Spec
<1> QED
  BY <1>1, <1>2, PTL

-----------------------------------------------------------------------------
(* At which rate. The cache holds what was published last, and a page that  *)
(* runs is before nothing that was published.                               *)

Published == {q \in Req : call[q].op = "publish"}

\* No rate was published after the cached one.
CachedLast ==
    \/ rate = InitRate /\ Published = {}
    \/ \E q \in Published : /\ rate = call[q].rate
                            /\ \A u \in Published : q \notin Before[u]

QuotedAt(q, x) ==
    /\ IsConversion(q.inPrice, q.price, x)
    /\ IsConversion(q.inRefund, q.refund, x)
    /\ IsConversion(q.inRest, q.rest, x)

WellQuoted(r) ==
    \A l \in listed[r] :
       l.quote # None => \E x \in MayBeCached(r) : QuotedAt(l.quote, x)

RateInv ==
    /\ PageInv /\ CachedLast
    /\ \A r \in Req : WellQuoted(r)

\* A conversion is to the nearest cent (_convert).
LEMMA ConvertedIsConversion ==
    ASSUME NEW krw \in Nat, NEW at \in Nat \cup {Null}
    PROVE  IsConversion(Converted(krw, at), krw, at)
<1>1. CASE at = Null
  BY <1>1 DEF Converted, IsConversion
<1>2. CASE at # Null
  <2>1. PICK n : n = 100 * krw * at
    OBVIOUS
  <2>2. n \in Nat
    BY <1>2, <2>1
  <2>3. PICK h : h = HalfUp(n, Scale)
    OBVIOUS
  <2>4. /\ h \in Nat /\ 2 * (Scale * h) <= 2 * n + Scale
        /\ 2 * n + Scale < 2 * (Scale * h) + 2 * Scale
    BY <2>2, <2>3, HalfUpBounds, ScaleAssumption
  <2>5. 2 * (Scale * h - n) \in (1 - Scale) .. Scale
    <3>1. PICK m \in Nat : m = Scale * h
      BY <2>4, ScaleAssumption
    <3> QED
      BY <2>2, <2>4, <3>1, ScaleAssumption
  <2>6. Converted(krw, at) = h
    BY <1>2, <2>1, <2>3 DEF Converted
  <2>7. h # Null
    BY <2>4, MyPageAssumption
  <2> QED
    BY <1>2, <2>1, <2>5, <2>6, <2>7 DEF IsConversion
<1> QED
  BY <1>1, <1>2

\* All amounts of a quote are converted at one rate.
LEMMA QuoteOfIsQuoted ==
    ASSUME NEW price \in Nat, NEW refund \in 0 .. price, NEW at \in Nat \cup {Null}
    PROVE  QuotedAt(QuoteOf(price, refund, at), at)
<1>1. refund \in Nat /\ price - refund \in Nat
  OBVIOUS
<1>2. /\ IsConversion(Converted(price, at), price, at)
      /\ IsConversion(Converted(refund, at), refund, at)
      /\ IsConversion(Converted(price - refund, at), price - refund, at)
  BY <1>1, ConvertedIsConversion
<1> QED
  BY <1>2 DEF QuotedAt, QuoteOf, Rest

\* A line is quoted at the rate that is cached now.
LEMMA QuoteOfLineIsQuoted ==
    ASSUME TypeInv, NEW l \in Line, Quotable(l), QuoteOfLine(l) # None
    PROVE  QuotedAt(QuoteOfLine(l), rate)
<1>1. /\ rate \in Nat \cup {Null}
      /\ Amount \subseteq Nat /\ None \notin ProductRow
  BY MyPageAssumption DEF TypeInv, TypeOK
<1>2. \A price \in Nat : QuotedAt(QuotePrice(price, rate), rate)
  BY <1>1, HigherPriceStaysHigher, QuoteOfIsQuoted DEF QuotePrice
<1>3. ~(l.from \in Req /\ l.price \in {Null, 0})
  BY DEF QuoteOfLine
<1>4. CASE l.row # None
  <2>1. PICK row \in ProductRow : row = l.row
    BY <1>4 DEF Line
  <2>2. row.price \in Nat /\ row.refund \in 0 .. row.price
    BY RowFields
  <2>3. QuotedAt(Quote(row, rate), rate)
    BY <1>1, <1>2, <2>2, QuoteOfIsQuoted DEF Quote
  <2> QED
    BY <1>3, <1>4, <2>1, <2>3 DEF QuoteOfLine
<1>5. CASE l.row = None
  <2>1. l.price \in Nat
    BY <1>1, <1>3, <1>5 DEF Quotable
  <2> QED
    BY <1>2, <1>3, <1>5, <2>1 DEF QuoteOfLine
<1> QED
  BY <1>4, <1>5

\* What is cached while a page runs is a rate the page may find.
LEMMA CachedMayBeFound ==
    ASSUME RateInv, NEW r \in Req, pc[r] \notin {"idle", "done"}
    PROVE  rate \in MayBeCached(r)
<1>1. ASSUME NEW q \in Published PROVE pc[q] # "idle" /\ r \notin Before[q]
  <2>1. pc[q] # "idle"
    BY <1>1 DEF Published, RateInv, PageInv, TypeInv, Serves, NoCall
  <2> QED
    BY <1>1, <2>1 DEF Published, RateInv, PageInv, SentInTurn
<1>2. CASE rate = InitRate /\ Published = {}
  BY <1>2 DEF MayBeCached, Published
<1>3. CASE \E q \in Published : /\ rate = call[q].rate
                               /\ \A u \in Published : q \notin Before[u]
  BY <1>1, <1>3 DEF MayBeCached, Published
<1> QED
  BY <1>2, <1>3 DEF RateInv, CachedLast

\* What was published stays so; only a publication adds to it.
LEMMA PublishedStays ==
    ASSUME TypeInv, NEW r \in Req, Acts(r)
    PROVE  /\ \A q \in Published : q \in Published' /\ call'[q] = call[q]
           /\ Published' \subseteq Published \cup {r}
           /\ ~PublishRate(r) => Published' = Published /\ UNCHANGED rate
<1>1. Moves(r)
  BY OneMoves
<1>2. \A q \in Published : q \in Published' /\ call'[q] = call[q]
  BY CallsStay DEF Published, NoCall
<1>3. Published' \subseteq Published \cup {r}
  BY <1>1 DEF Moves, Published
<1>4. ASSUME ~PublishRate(r) PROVE (r \in Published' => r \in Published) /\ UNCHANGED rate
  <2>1. CASE StoreReceipt(r) \/ Review(r) \/ SeedProduct(r) \/ PageReceipts(r)
    BY <2>1, AskedType DEF StoreReceipt, Review, SeedProduct, PageReceipts, Published,
       database
  <2>2. CASE QuoteLine(r) \/ PageMarks(r) \/ PageDone(r)
    BY <2>2 DEF QuoteLine, PageMarks, PageDone, Published, database
  <2> QED
    BY <1>4, <2>1, <2>2 DEF Acts
<1> QED
  BY <1>2, <1>3, <1>4

\* The last rate published is the one cached.
LEMMA StepCachedLast ==
    ASSUME RateInv, NEW r \in Req, Acts(r)
    PROVE  CachedLast'
<1>1. /\ \A q \in Published : q \in Published' /\ call'[q] = call[q]
      /\ Published' \subseteq Published \cup {r}
      /\ ~PublishRate(r) => Published' = Published /\ UNCHANGED rate
  BY PublishedStays DEF RateInv, PageInv
<1>2. CASE PublishRate(r)
  <2>1. /\ call'[r].op = "publish" /\ rate' = call'[r].rate /\ pc[r] = "idle"
        /\ \A q \in Before[r] : pc[q] = "done"
    BY <1>2, AskedType DEF PublishRate, RateInv, PageInv
  <2>2. ASSUME NEW u \in Published' PROVE r \notin Before[u]
    <3>1. CASE u = r
      BY <2>1, <3>1
    <3>2. CASE u \in Published
      <4>1. pc[u] # "idle" /\ u \in Req
        BY <3>2 DEF Published, RateInv, PageInv, TypeInv, Serves, NoCall
      <4> QED
        BY <2>1, <4>1 DEF RateInv, PageInv, SentInTurn
    <3> QED
      BY <1>1, <3>1, <3>2
  <2>3. r \in Published'
    BY <2>1 DEF Published
  <2> QED
    BY <2>1, <2>2, <2>3 DEF CachedLast
<1>3. CASE ~PublishRate(r)
  <2>1. CachedLast
    BY DEF RateInv
  <2> QED
    BY <1>1, <1>3, <2>1 DEF CachedLast
<1> QED
  BY <1>2, <1>3

\* A rate that a page may have found stays one.
LEMMA MayBeCachedGrows ==
    ASSUME RateInv, NEW r \in Req, Acts(r), NEW x \in Req, pc[x] # "idle"
    PROVE  MayBeCached(x) \subseteq MayBeCached(x)'
<1>1. /\ \A q \in Published : q \in Published' /\ call'[q] = call[q]
      /\ Published' \subseteq Published \cup {r}
  BY PublishedStays DEF RateInv, PageInv
<1>2. pc[r] # "done"
  BY OneMoves DEF Moves, RateInv, PageInv
<1>3. r \notin Before[x]
  BY <1>2 DEF RateInv, PageInv, SentInTurn
<1>4. Published' \cap Before[x] = Published \cap Before[x]
  BY <1>1, <1>3
<1> SUFFICES ASSUME NEW y \in MayBeCached(x) PROVE y \in MayBeCached(x)'
  OBVIOUS
<1>5. CASE y = InitRate /\ Published \cap Before[x] = {}
  BY <1>4, <1>5 DEF MayBeCached, Published
<1>6. ASSUME NEW q \in Published, y = call[q].rate, x \notin Before[q],
             \A u \in Published \cap Before[x] : q \notin Before[u]
      PROVE  y \in MayBeCached(x)'
  <2>1. q \in Published' /\ call'[q].rate = y
    BY <1>1, <1>6
  <2>2. \A u \in Published' \cap Before[x] : q \notin Before[u]
    BY <1>4, <1>6
  <2> QED
    BY <1>6, <2>1, <2>2 DEF MayBeCached, Published
<1> QED
  BY <1>5, <1>6 DEF MayBeCached, Published

\* A quote is at a rate the page may have found.
LEMMA StepWellQuoted ==
    ASSUME RateInv, NEW r \in Req, Acts(r), NEW x \in Req
    PROVE  WellQuoted(x)'
<1> SUFFICES ASSUME NEW l \in listed'[x], l.quote # None
             PROVE  \E y \in MayBeCached(x)' : QuotedAt(l.quote, y)
  BY DEF WellQuoted, QuotedAt, IsConversion
<1>1. CASE l \in listed[x]
  <2>1. PICK y \in MayBeCached(x) : QuotedAt(l.quote, y)
    BY <1>1 DEF RateInv, WellQuoted
  <2>2. pc[x] # "idle"
    BY <1>1 DEF RateInv, PageInv, TypeInv, Serves, NoCall
  <2> QED
    BY <2>1, <2>2, MayBeCachedGrows
<1>2. CASE l \notin listed[x]
  <2>1. x = r /\ QuoteLine(r)
    <3>1. x = r
      BY <1>2, OneMoves DEF Moves, RateInv, PageInv
    <3> QED
      BY <1>2, <3>1 DEF Acts, StoreReceipt, Review, SeedProduct, PublishRate,
         PageReceipts, PageMarks, PageDone
  <2>2. PICK w \in waiting[r] :
          listed'[r] = listed[r] \cup {[line |-> w, quote |-> QuoteOfLine(w)]}
    BY <2>1 DEF QuoteLine, RateInv, PageInv, TypeInv, TypeOK
  <2>3. l.quote = QuoteOfLine(w)
    BY <1>2, <2>1, <2>2
  <2>4. w \in Line /\ Quotable(w)
    BY <2>2 DEF RateInv, PageInv, TypeInv, TypeOK
  <2>5. QuotedAt(l.quote, rate)
    BY <2>3, <2>4, QuoteOfLineIsQuoted DEF RateInv, PageInv
  <2>6. pc[r] \notin {"idle", "done"}
    BY <2>2 DEF RateInv, PageInv, TypeInv, Serves, NoCall
  <2> QED
    BY <2>1, <2>5, <2>6, CachedMayBeFound, MayBeCachedGrows
<1> QED
  BY <1>1, <1>2

\* So every step keeps to the cached rates.
LEMMA StepKeepsRate == RateInv /\ [Next]_vars => RateInv'
<1>1. ASSUME RateInv, NEW r \in Req, Acts(r) PROVE RateInv'
  <2>1. PageInv'
    BY <1>1, StepKeepsPage DEF RateInv, Next, Acts
  <2> QED
    BY <1>1, <2>1, StepCachedLast, StepWellQuoted DEF RateInv
<1>2. ASSUME RateInv, UNCHANGED vars PROVE RateInv'
  <2>1. PageInv'
    BY <1>2, StepKeepsPage DEF RateInv
  <2> QED
    BY <1>2, <2>1 DEF vars, database, RateInv, CachedLast, Published, WellQuoted,
       MayBeCached, QuotedAt, IsConversion
<1> QED
  BY <1>1, <1>2 DEF Next, Acts

\* Nothing is published at the start, and nothing quoted.
LEMMA InitRates == Init => RateInv
<1> SUFFICES ASSUME Init PROVE RateInv
  OBVIOUS
<1>1. CachedLast
  BY DEF Init, RequestInit, NoCall, CachedLast, Published
<1>2. \A r \in Req : WellQuoted(r)
  BY DEF Init, WellQuoted
<1> QED
  BY <1>1, <1>2, InitPage DEF RateInv

\* All quotes of a page add up and are converted at a rate that was cached
\* while the page was read, whatever happens to the cache and the catalogue
\* between them (PricingService.quote, my_page).
THEOREM PagesAddUp == Spec => []QuotesAddUp
<1>1. RateInv => QuotesAddUp
  <2> SUFFICES ASSUME RateInv, NEW r \in Req, NEW l \in listed[r], l.quote # None
               PROVE  LET q == l.quote
                      IN  /\ q.refund \in 0 .. q.price /\ q.refund + q.rest = q.price
                          /\ \E x \in MayBeCached(r) :
                                /\ IsConversion(q.inPrice, q.price, x)
                                /\ IsConversion(q.inRefund, q.refund, x)
                                /\ IsConversion(q.inRest, q.rest, x)
                          /\ q.inPrice # Null =>
                                /\ q.inRefund + q.inRest - q.inPrice \in -1 .. 1
                                /\ q.inRest <= q.inPrice /\ q.inRefund <= q.inPrice
    BY DEF QuotesAddUp
  <2>1. l.quote \in Quotes
    BY DEF RateInv, PageInv, TypeInv, Listed
  <2>2. PICK x \in MayBeCached(r) : QuotedAt(l.quote, x)
    BY DEF RateInv, WellQuoted
  <2> QED
    BY <2>1, <2>2 DEF Quotes, QuotedAt
<1>2. Spec => []RateInv
  BY InitRates, StepKeepsRate, PTL DEF Spec
<1> QED
  BY <1>1, <1>2, PTL
=============================================================================
